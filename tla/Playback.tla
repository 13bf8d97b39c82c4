------------------------------- MODULE Playback -------------------------------
(* streamServer.js, GET /v1/stream: the stream server answers range requests   *)
(* from the media file of the torrent being served, and tells the torrent      *)
(* which pieces are urgent: the two ends of the file when it starts, then a    *)
(* window at the playhead, which is where each request starts.                 *)
(*                                                                             *)
(* One response is read at a time. It reads the file it was opened on: when    *)
(* that torrent is destroyed, by a failover or otherwise, the response ends.   *)
(* Bytes and pieces are counted in the instance's own small units.             *)
EXTENDS StreamServer

CONSTANTS
  Content,     \* [Hash -> the metadata of the torrent]
  Ranges,      \* Range headers that may come
  Window,      \* windowBytes of prioritizePlayhead
  HeadTail,    \* HEAD_TAIL_BYTES
  NoRange,     \* no Range header
  NoLast,      \* bytes=N- names no last byte
  NoResponse

\* A file of a torrent lies at an offset of the torrent's bytes.
File == [offset : Nat, length : Nat \ {0}, video : BOOLEAN]
Metadata == [pieceLength : Nat \ {0}, files : Seq(File)]
RangeHeader == [first : Nat, last : Nat \cup {NoLast}]

ASSUME ContentAssumption ==
  /\ Content \in [Hash -> Metadata]
  /\ \A h \in Hash :
       /\ Content[h].files # <<>>
       /\ \A i \in 1..(Len(Content[h].files) - 1) :
            LET f == Content[h].files[i]
            IN Content[h].files[i + 1].offset = f.offset + f.length
ASSUME RangesAssumption == Ranges \subseteq RangeHeader \cup {NoRange}
ASSUME WindowAssumption == Window \in Nat /\ HeadTail \in Nat \ {0}
ASSUME NoAssumption == NoLast \notin Nat /\ NoRange \notin RangeHeader

Response == [from : Hash, start : Nat, end : Nat]

ASSUME NoResponseAssumption == NoResponse \notin Response

VARIABLES
  urgent,   \* the pieces of the torrent being served marked critical
  response  \* the response being read

playback == <<urgent, response>>

PlaybackTypeOK ==
  /\ urgent \subseteq Nat
  /\ response \in Response \cup {NoResponse}

-----------------------------------------------------------------------------
(* Files and pieces.                                                           *)

\* _pickMediaFile: the largest video, or else the largest file; of equals, the
\* last.
Preferred(files) ==
  LET videos == {i \in DOMAIN files : files[i].video}
  IN IF videos # {} THEN videos ELSE DOMAIN files

MediaFile(h) ==
  LET files == Content[h].files
  IN files[CHOOSE i \in Preferred(files) :
             \A j \in Preferred(files) :
               \/ files[j].length < files[i].length
               \/ files[j].length = files[i].length /\ j <= i]

Least(x, y) == IF x < y THEN x ELSE y
Most(x, y) == IF x < y THEN y ELSE x

PieceAt(h, byte) == (MediaFile(h).offset + byte) \div Content[h].pieceLength

\* Mutant: the formula before the file's offset was minded.
PiecesFromStartPiece(h, start, end) ==
  LET first == MediaFile(h).offset \div Content[h].pieceLength
  IN (first + (start \div Content[h].pieceLength))..(first + (end \div Content[h].pieceLength))

\* _selectByteRange
PiecesSelected(h, start, end) == PieceAt(h, start)..PieceAt(h, end)

\* _prioritizeStart
HeadAndTail(h) ==
  LET length == MediaFile(h).length
  IN PiecesSelected(h, 0, Least(HeadTail, length - 1))
       \cup PiecesSelected(h, Most(0, length - HeadTail), length - 1)

\* prioritizePlayhead
Playhead(h, byte) ==
  PiecesSelected(h, byte, Least(MediaFile(h).length - 1, byte + Window))

\* Mutant: the last byte is taken as it comes.
UnclampedAnswer(h, range) ==
  LET total == MediaFile(h).length
      start == IF range = NoRange THEN 0 ELSE range.first
      end == IF range = NoRange \/ range.last = NoLast THEN total - 1 ELSE range.last
  IN [status |-> IF start > end THEN 416 ELSE IF range = NoRange THEN 200 ELSE 206,
      start |-> start, end |-> end]

\* _handleRequest, once there is a file.
AnswerTo(h, range) ==
  LET total == MediaFile(h).length
      start == IF range = NoRange THEN 0 ELSE range.first
      asked == IF range = NoRange \/ range.last = NoLast THEN total - 1 ELSE range.last
      end == Least(asked, total - 1)
  IN [status |-> IF start > end THEN 416 ELSE IF range = NoRange THEN 200 ELSE 206,
      start |-> start, end |-> end]

-----------------------------------------------------------------------------
PlaybackInit == urgent = {} /\ response = NoResponse

\* What a step of the stream server means for playback: a new torrent starts
\* with the ends of its file, and a destroyed one ends what was read from it.
Follow ==
  /\ urgent' = IF torrent' = torrent THEN urgent
               ELSE IF torrent' = NoTorrent THEN {} ELSE HeadAndTail(torrent')
  /\ response' = IF response # NoResponse /\ response.from \in client'
                 THEN response ELSE NoResponse

\* A request that is answered with bytes. One that is refused, 503 without a
\* file and 416 outside it, changes nothing.
ReadRange(range) ==
  LET a == AnswerTo(torrent, range)
  IN /\ ~closed
     /\ torrent # NoTorrent
     /\ response = NoResponse
     /\ a.status # 416
     /\ urgent' = urgent \cup Playhead(torrent, a.start)
     /\ response' = [from |-> torrent, start |-> a.start, end |-> a.end]
     /\ UNCHANGED vars

\* The response is read to its end, or the player closes it.
ReadEnds ==
  /\ response # NoResponse
  /\ response' = NoResponse
  /\ UNCHANGED <<vars, urgent>>

Plays == (\E range \in Ranges : ReadRange(range)) \/ ReadEnds

-----------------------------------------------------------------------------
\* The bytes of the file that a request names.
Requested(h, range) ==
  {b \in 0..(MediaFile(h).length - 1) :
     range # NoRange => b >= range.first /\ (range.last # NoLast => b <= range.last)}

\* Whatever range is asked of whatever is being served, the answer holds exactly
\* the bytes the range names that the file has, and 416 is for none.
RangesHonoured ==
  torrent # NoTorrent =>
    \A range \in Ranges :
      LET a == AnswerTo(torrent, range)
      IN IF a.status = 416 THEN Requested(torrent, range) = {}
         ELSE a.start..a.end = Requested(torrent, range)

\* Every piece that holds one of those bytes of the file.
Holding(h, bytes) == {PieceAt(h, b) : b \in bytes}

\* The pieces a player waits for are urgent on the torrent that is being served,
\* across failovers: those at both ends of its file, and those at the playhead of
\* the response being read, wherever the file begins within its first piece.
PlayheadIsUrgent ==
  /\ torrent # NoTorrent => Holding(torrent, {0, MediaFile(torrent).length - 1}) \subseteq urgent
  /\ response # NoResponse =>
       /\ response.from = torrent
       /\ Holding(torrent, response.start..Least(response.end, response.start + Window))
            \subseteq urgent
=============================================================================
