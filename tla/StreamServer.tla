----------------------------- MODULE StreamServer -----------------------------
(* streamServer.js: one player that races candidates for playable metadata,    *)
(* serves the winner, watches it for stalls and fails over to the next.        *)
(*                                                                             *)
(* play(), abort() and the stall timer's callback each run to their first      *)
(* await in one turn; what resumes after an await is an action of its own:     *)
(* TornDown (the old torrent's destroy callback), RacerReady and RacerFails    *)
(* (the events _waitForMetadata listens to). While an advance is between two   *)
(* of them (phase # "idle", the code's _switching) anything may happen.        *)
(*                                                                             *)
(* A torrent of the WebTorrent client is named by its infohash: the client     *)
(* holds at most one per infohash. this.file is set and cleared with           *)
(* this.torrent and has no variable of its own.                                *)
EXTENDS Integers, Sequences, FiniteSets

CONSTANTS
  Hash,          \* infohashes
  Lists,         \* arguments of play(): sequences of [hash, scored]
  MaxRacers,     \* MAX_RACERS
  StallStrikes,  \* STALL_STRIKES
  GraceChecks,   \* stall checks that fall inside STALL_GRACE_MS
  MaxPlays,      \* bound: calls of play()
  NoTorrent

Listed == [hash : Hash, scored : BOOLEAN]

ASSUME ListsAssumption == Lists \subseteq Seq(Listed)
ASSUME LimitsAssumption ==
  /\ MaxRacers \in Nat \ {0}
  /\ StallStrikes \in Nat \ {0}
  /\ GraceChecks \in Nat
  /\ MaxPlays \in Nat \ {0}
ASSUME NoTorrentAssumption == NoTorrent \notin Hash

VARIABLES
  ranked,          \* the last play()'s list; rankedCandidates is its Usable part
  candidateIndex,  \* the position in `ranked` of the candidate it names; 0 for -1
  aborted,         \* _aborted
  excluded,        \* _excluded
  strikes,         \* _strikes
  watching,        \* the stall timer is armed
  checks,          \* stall checks since it was armed, up to GraceChecks
  torrent,         \* what is being served
  client,          \* torrents alive in the WebTorrent client
  phase,           \* where the one _doAdvance in flight is
  racers,          \* its local `racers`, as infohashes
  lineup,          \* which play() they come from
  racing,          \* those that have neither failed nor become playable
  caller,          \* the play() that awaits it; 0 for the stall timer
  plays,           \* how every play() call ended
  closed,          \* destroy() was called
  \* history
  quiet,           \* bad checks of the torrent being served since its last good one
  steady           \* it has had a good one

vars == <<ranked, candidateIndex, aborted, excluded, strikes, watching, checks, torrent,
          client, phase, racers, lineup, racing, caller, plays, closed,
          quiet, steady>>

Outcome == {"pending", "playing", "dropped", "empty", "unplayable", "exhausted", "superseded"}
Phases == {"idle", "teardown", "racing"}

TypeOK ==
  /\ ranked \in Seq(Listed)
  /\ candidateIndex \in Nat
  /\ aborted \in BOOLEAN
  /\ excluded \subseteq Hash
  /\ strikes \in 0..(StallStrikes - 1)
  /\ watching \in BOOLEAN
  /\ checks \in 0..GraceChecks
  /\ torrent \in Hash \cup {NoTorrent}
  /\ client \subseteq Hash
  /\ phase \in Phases
  /\ racers \subseteq Hash
  /\ lineup \in 0..MaxPlays
  /\ racing \subseteq Hash
  /\ caller \in 0..MaxPlays
  /\ plays \in Seq(Outcome) /\ Len(plays) <= MaxPlays
  /\ closed \in BOOLEAN
  /\ quiet \in Nat
  /\ steady \in BOOLEAN

-----------------------------------------------------------------------------
(* Choosing what to race.                                                      *)

\* The positions of a list that play() keeps: candidates that scored 0 go,
\* unless all did, and of the rest every infohash stays once.
Usable(list) ==
  LET kept == IF \E i \in DOMAIN list : list[i].scored
              THEN {i \in DOMAIN list : list[i].scored}
              ELSE DOMAIN list
  IN {i \in kept : \A j \in kept : j < i => list[j].hash # list[i].hash}

\* Mutant: the stalled candidate may be raced again.
EligibleAgain(list, out) == Usable(list)

Eligible(list, out) == {i \in Usable(list) : list[i].hash \notin out}

\* The racers: the first MaxRacers of what is left.
Racers(list, out) ==
  LET left == Eligible(list, out)
  IN {list[i].hash : i \in {i \in left : Cardinality({j \in left : j <= i}) <= MaxRacers}}

IndexIn(list, h) ==
  IF \E i \in Usable(list) : list[i].hash = h
  THEN CHOOSE i \in Usable(list) : list[i].hash = h
  ELSE 0

Settle(who, outcome) == IF who = 0 THEN plays ELSE [plays EXCEPT ![who] = outcome]

-----------------------------------------------------------------------------
(* What the end of a race leaves alive in the client.                          *)

\* Mutant: losing racers keep running.
LeftAliveAll(h) == client

LeftAlive(h) == (client \ racers) \cup {h}

\* Mutant: nobody looks at _aborted once the race is won.
SupersededNever == FALSE

Superseded == aborted

-----------------------------------------------------------------------------
(* _doAdvance() up to its first await. `who` waits for it, `list` and `out`    *)
(* are the ranked list and the exclusions it reads, `calls` the outcomes so    *)
(* far. Its first line, which throws when _aborted is set, is never taken:     *)
(* play() has just cleared it and an armed stall timer means it is clear       *)
(* (WatchdogGuardsTorrent).                                                    *)

Launch(who, list, out, calls) ==
  LET field == Racers(list, out) IN
  /\ watching' = FALSE
  /\ \/ /\ Eligible(list, out) = {}
        /\ plays' = IF who = 0 THEN calls ELSE [calls EXCEPT ![who] = "exhausted"]
        /\ UNCHANGED <<torrent, client, phase, racers, lineup, racing, caller>>
     \/ /\ Eligible(list, out) # {}
        /\ plays' = calls
        /\ racers' = field
        /\ lineup' = Len(calls)
        /\ caller' = who
        /\ torrent' = NoTorrent
        /\ \/ /\ torrent # NoTorrent
              /\ phase' = "teardown"
              /\ client' = client \ {torrent}
              /\ racing' = {}
           \/ /\ torrent = NoTorrent
              /\ phase' = "racing"
              /\ client' = client \cup field
              /\ racing' = field

Init ==
  /\ ranked = <<>>
  /\ candidateIndex = 0
  /\ aborted = FALSE
  /\ excluded = {}
  /\ strikes = 0
  /\ watching = FALSE
  /\ checks = 0
  /\ torrent = NoTorrent
  /\ client = {}
  /\ phase = "idle"
  /\ racers = {}
  /\ lineup = 0
  /\ racing = {}
  /\ caller = 0
  /\ plays = <<>>
  /\ closed = FALSE
  /\ quiet = 0
  /\ steady = FALSE

\* play() with candidates. While an advance is in flight the call returns as if
\* it had succeeded.
Play(list) ==
  /\ ~closed
  /\ list # <<>>
  /\ Len(plays) < MaxPlays
  /\ ranked' = list
  /\ candidateIndex' = 0
  /\ aborted' = FALSE
  /\ excluded' = {}
  /\ \/ /\ phase # "idle"
        /\ plays' = Append(plays, "dropped")
        /\ UNCHANGED <<watching, torrent, client, phase, racers, lineup, racing, caller>>
     \/ /\ phase = "idle"
        /\ Launch(Len(plays) + 1, list, {}, Append(plays, "pending"))
  /\ UNCHANGED <<strikes, checks, closed, quiet, steady>>

\* play([]) throws, after it has emptied the ranked list.
PlayNothing ==
  /\ ~closed
  /\ Len(plays) < MaxPlays
  /\ ranked' = <<>>
  /\ plays' = Append(plays, "empty")
  /\ UNCHANGED <<candidateIndex, aborted, excluded, strikes, watching, checks, torrent,
                 client, phase, racers, lineup, racing, caller, closed, quiet, steady>>

\* abort() knows the torrent being served; the racers are not its business.
Abort ==
  /\ ~closed
  /\ aborted' = TRUE
  /\ watching' = FALSE
  /\ torrent' = NoTorrent
  /\ client' = client \ {torrent}
  /\ UNCHANGED <<ranked, candidateIndex, excluded, strikes, checks, phase, racers,
                 lineup, racing, caller, plays, closed, quiet, steady>>

\* The old torrent is gone: the line-up chosen before the wait starts racing.
TornDown ==
  /\ ~closed
  /\ phase = "teardown"
  /\ phase' = "racing"
  /\ client' = client \cup racers
  /\ racing' = racers
  /\ UNCHANGED <<ranked, candidateIndex, aborted, excluded, strikes, watching, checks,
                 torrent, racers, lineup, caller, plays, closed, quiet, steady>>

\* The first racer with metadata and a media file settles the race.
RacerReady(h) ==
  /\ ~closed
  /\ h \in racing
  /\ phase' = "idle"
  /\ racing' = {}
  /\ \/ /\ Superseded
        /\ client' = client \ racers
        /\ plays' = Settle(caller, "superseded")
        /\ UNCHANGED <<candidateIndex, excluded, watching, checks, torrent, quiet, steady>>
     \/ /\ ~Superseded
        /\ torrent' = h
        /\ client' = LeftAlive(h)
        /\ candidateIndex' = IF lineup = Len(plays) THEN IndexIn(ranked, h) ELSE 0
        /\ excluded' = excluded \cup {h}
        /\ watching' = TRUE
        /\ checks' = 0
        /\ plays' = Settle(caller, "playing")
        /\ quiet' = 0
        /\ steady' = FALSE
  /\ UNCHANGED <<ranked, aborted, strikes, racers, lineup, caller, closed>>

\* A racer errors, is closed, times out or holds no file (WebTorrent drops the
\* first two kinds by itself); the last one to do so ends the race.
RacerFails(h) ==
  /\ ~closed
  /\ h \in racing
  /\ racing' = racing \ {h}
  /\ \/ /\ racing' # {}
        /\ client' \in {client, client \ {h}}
        /\ UNCHANGED <<excluded, plays, phase>>
     \/ /\ racing' = {}
        /\ client' = client \ racers
        /\ excluded' = excluded \cup racers
        /\ plays' = Settle(caller, IF aborted THEN "superseded" ELSE "unplayable")
        /\ phase' = "idle"
  /\ UNCHANGED <<ranked, candidateIndex, aborted, strikes, watching, checks, torrent,
                 racers, lineup, caller, closed, quiet, steady>>

-----------------------------------------------------------------------------
(* The stall timer's callback.                                                 *)

\* Mutant: one bad check is enough.
StruckOutAtOnce == TRUE

StruckOut == strikes + 1 >= StallStrikes

Watched == ~closed /\ watching /\ phase = "idle" /\ torrent # NoTorrent

GraceCheck ==
  /\ Watched
  /\ checks < GraceChecks
  /\ checks' = checks + 1
  /\ UNCHANGED <<ranked, candidateIndex, aborted, excluded, strikes, watching, torrent,
                 client, phase, racers, lineup, racing, caller, plays, closed, quiet, steady>>

GoodCheck ==
  /\ Watched
  /\ checks = GraceChecks
  /\ strikes' = 0
  /\ quiet' = 0
  /\ steady' = TRUE
  /\ UNCHANGED <<ranked, candidateIndex, aborted, excluded, watching, checks, torrent,
                 client, phase, racers, lineup, racing, caller, plays, closed>>

BadCheck ==
  /\ Watched
  /\ checks = GraceChecks
  /\ quiet' = quiet + 1
  /\ \/ /\ ~StruckOut
        /\ strikes' = strikes + 1
        /\ UNCHANGED <<watching, torrent, client, phase, racers, lineup, racing,
                       caller, plays>>
     \/ /\ StruckOut
        /\ strikes' = 0
        /\ Launch(0, ranked, excluded, plays)
  /\ UNCHANGED <<ranked, candidateIndex, aborted, excluded, checks, closed, steady>>

\* destroy(): the process is going away.
Destroy ==
  /\ ~closed
  /\ closed' = TRUE
  /\ watching' = FALSE
  /\ client' = {}
  /\ UNCHANGED <<ranked, candidateIndex, aborted, excluded, strikes, checks, torrent,
                 phase, racers, lineup, racing, caller, plays, quiet, steady>>

RacerEnds(h) == RacerReady(h) \/ RacerFails(h)
StallCheck == GraceCheck \/ GoodCheck \/ BadCheck

Next ==
  \/ \E list \in Lists : Play(list)
  \/ PlayNothing
  \/ Abort
  \/ TornDown
  \/ \E h \in Hash : RacerEnds(h)
  \/ StallCheck
  \/ Destroy

Spec == Init /\ [][Next]_vars

\* Mutant: metadata is awaited without a timeout.
RacersMayHang == TRUE

\* _waitForMetadata: a racer is ready, fails, or times out.
RacersEnd == \A h \in Hash : WF_vars(RacerEnds(h))

\* torrent.destroy calls back.
TearDownEnds == WF_vars(TornDown)

FairSpec == Spec /\ RacersEnd /\ TearDownEnds

-----------------------------------------------------------------------------
(* Safety.                                                                     *)

\* Between advances the client runs exactly the torrent being served: losers,
\* failed racers and superseded races leave nothing behind.
OneTorrentAtRest ==
  phase = "idle" /\ ~closed => client = {torrent} \ {NoTorrent}

\* A race has the connection pool to itself: nothing is served, and only its
\* own racers, at most MaxRacers, are alive.
RaceAlone ==
  phase = "racing" /\ ~closed =>
    /\ torrent = NoTorrent
    /\ client \subseteq racers
    /\ Cardinality(client) <= MaxRacers

\* The stall timer is armed only over a torrent that is being served: it never
\* outlives a teardown, an abort or an advance.
WatchdogGuardsTorrent ==
  watching => phase = "idle" /\ torrent # NoTorrent /\ ~aborted

\* candidateIndex names the candidate being served, or nothing: also when a
\* play() call replaced the list while another one's race was running.
CandidateIndexTruth ==
  torrent # NoTorrent /\ candidateIndex \in DOMAIN ranked => ranked[candidateIndex].hash = torrent

(* What a step may never do.                                                   *)

FailsOver == phase = "idle" /\ phase' = "teardown" /\ caller' = 0

\* A failover never goes back to the candidate that stalled.
FailoverMovesOn == [][FailsOver => torrent \notin racers']_vars

\* A swarm that has been seen healthy is given up only after StallStrikes
\* consecutive bad checks of it. (One that has not inherits the strikes of the
\* torrent before it: nothing resets them when a race is won.)
FailoverNeedsStrikes == [][FailsOver /\ steady => quiet' >= StallStrikes]_vars

(* The promise to whoever calls play().                                        *)

\* What a play() call has been told so far, in the terms of Player.
Answer(outcome) ==
  IF outcome \in {"pending", "playing"} THEN outcome
  ELSE IF outcome = "dropped" THEN "ignored" ELSE "failed"

OnePlayer == INSTANCE Player WITH
  Fields <- {field \in SUBSET Hash : Cardinality(field) <= MaxRacers},
  serving <- torrent, racing <- phase # "idle", alive <- client,
  calls <- [g \in DOMAIN plays |-> Answer(plays[g])]

\* The player is one: whatever races, fails, stalls and is aborted, each step is
\* one of Player, or nothing to its callers. At rest nothing is alive but what is
\* served, a race has the client to itself, and whoever waits for it is told how
\* it ended in the step that ends it, and nobody else is.
ImplementsPlayer == OnePlayer!Spec

(* Liveness.                                                                   *)

\* No play() call waits for ever, whatever the swarms do.
EveryPlaySettles ==
  \A g \in 1..MaxPlays :
    (g \in DOMAIN plays /\ plays[g] = "pending")
      ~> (closed \/ (g \in DOMAIN plays /\ plays[g] # "pending"))

\* An abort that nothing follows ends with no torrent alive.
AbortSticks == <>[]aborted => <>[](client = {})

=============================================================================
