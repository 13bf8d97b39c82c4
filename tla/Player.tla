--------------------------------- MODULE Player ---------------------------------
(* What streamServer.js promises to whoever calls play(): one torrent at a      *)
(* time. A call that starts a race stops what was served; the race ends with    *)
(* one torrent served and nothing else alive, or with nothing alive, and the    *)
(* call that waits is told in that step. A call made during a race is ignored.  *)
(*                                                                             *)
(* Lists, strikes and timers do not exist here; StreamServer implements this.   *)
EXTENDS Sequences

CONSTANTS
  Hash,      \* infohashes
  Fields,    \* the sets of torrents a race may have alive
  NoTorrent

VARIABLES
  serving,  \* what is being served
  racing,   \* a race is in progress
  alive,    \* torrents that use the network
  calls,    \* what every play() call was told
  closed    \* destroy() was called

player == <<serving, racing, alive, calls, closed>>

Init ==
  /\ serving = NoTorrent
  /\ racing = FALSE
  /\ alive = {}
  /\ calls = <<>>
  /\ closed = FALSE

Told(answer) == [g \in DOMAIN calls |-> IF calls[g] = "pending" THEN answer ELSE calls[g]]

\* A racing field, or one that is not there yet.
Field == alive' \in Fields

\* No race is started for the call: one is running, or there is nothing to race.
Refuse ==
  /\ \E answer \in {"failed"} \cup (IF racing THEN {"ignored"} ELSE {}) :
       calls' = Append(calls, answer)
  /\ UNCHANGED <<serving, racing, alive, closed>>

\* On behalf of a call, or, when what was served has stalled, of nobody.
StartRace ==
  /\ ~racing
  /\ racing' = TRUE
  /\ serving' = NoTorrent
  /\ Field
  /\ \/ calls' = Append(calls, "pending")
     \/ serving # NoTorrent /\ UNCHANGED calls
  /\ UNCHANGED closed

Racers ==
  /\ racing
  /\ Field
  /\ UNCHANGED <<serving, racing, calls, closed>>

Win ==
  /\ racing /\ ~racing'
  /\ serving' \in Hash
  /\ alive' = {serving'}
  /\ calls' = Told("playing")
  /\ UNCHANGED closed

Lose ==
  /\ racing /\ ~racing'
  /\ serving' = NoTorrent
  /\ alive' = {}
  /\ calls' = Told("failed")
  /\ UNCHANGED closed

\* abort(): a race goes on, and loses.
Stop ==
  /\ serving' = NoTorrent
  /\ alive' = alive \ {serving}
  /\ UNCHANGED <<racing, calls, closed>>

Close ==
  /\ closed' = TRUE
  /\ alive' = {}
  /\ UNCHANGED <<serving, racing, calls>>

Next ==
  /\ ~closed
  /\ \/ Refuse \/ StartRace \/ Racers \/ Win \/ Lose \/ Stop \/ Close

Spec == Init /\ [][Next]_player
=============================================================================
