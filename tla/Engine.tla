-------------------------------- MODULE Engine --------------------------------
(* server.js: POST /v1/play ranks the request's candidates, hands them to the  *)
(* one StreamServer of the process, and reports through `state`, which every   *)
(* request writes and GET /v1/status reads.                                    *)
(*                                                                             *)
(* The engine's steps are the stream server's, with what play() in server.js   *)
(* does when its await returns, and its playback's. SwarmScout is external     *)
(* here: rank() returns the request's candidates in some order, or rejects.    *)
EXTENDS Playback

CONSTANTS
  Request,      \* POST /v1/play requests
  Nameless,     \* those with a candidate that is null, which has no name to show
  RankedLists   \* [Request -> SUBSET Lists]: what rank() may return for each

ASSUME RankedListsAssumption == RankedLists \in [Request -> SUBSET Lists]
ASSUME NamelessAssumption == Nameless \subseteq Request

VARIABLES
  status,     \* state.status
  requested,  \* state.requested: the request that set it last
  stage,      \* where every request's play() is
  playOf,     \* the play() call of the stream server it waits for; 0 before
  thrown      \* history: the status was written last by a play() that threw

engine == <<status, requested, stage, playOf, thrown>>
allVars == <<vars, playback, engine>>

Statuses == {"idle", "ranking", "starting", "playing", "error"}
Stages == {"new", "ranking", "starting", "done"}

EngineTypeOK ==
  /\ PlaybackTypeOK
  /\ status \in Statuses
  /\ requested \subseteq Request
  /\ stage \in [Request -> Stages]
  /\ playOf \in [Request -> 0..MaxPlays]
  /\ thrown \in BOOLEAN

EngineInit ==
  /\ Init
  /\ PlaybackInit
  /\ status = "idle"
  /\ requested = {}
  /\ stage = [r \in Request |-> "new"]
  /\ playOf = [r \in Request |-> 0]
  /\ thrown = FALSE

\* state.status is written by a play() that goes on, or by the catch at its end.
Writes(word) == status' = word /\ thrown' = FALSE

\* The request arrives; 202 is sent at once and the ranking begins.
Accept(r) ==
  /\ ~closed
  /\ stage[r] = "new"
  /\ r \notin Nameless
  /\ stage' = [stage EXCEPT ![r] = "ranking"]
  /\ Writes("ranking")
  /\ requested' = {r}
  /\ UNCHANGED <<vars, playback, playOf>>

\* play() throws on the candidate that is null: the status has been written, the
\* `try` that would write "error" has not been entered. The answer is 400.
Throws(r) ==
  /\ ~closed
  /\ stage[r] = "new"
  /\ r \in Nameless
  /\ stage' = [stage EXCEPT ![r] = "done"]
  /\ status' = "ranking" /\ thrown' = TRUE
  /\ UNCHANGED <<vars, playback, requested, playOf>>

\* rank() returns and the stream server is told to play. When play() returns
\* without having waited for a race, the request is over in the same turn.
Start(r) ==
  /\ stage[r] = "ranking"
  /\ \E list \in RankedLists[r] : Play(list)
  /\ Follow
  /\ playOf' = [playOf EXCEPT ![r] = Len(plays')]
  /\ \/ /\ plays'[Len(plays')] = "pending"
        /\ stage' = [stage EXCEPT ![r] = "starting"]
        /\ Writes("starting")
     \/ /\ plays'[Len(plays')] = "dropped"
        /\ stage' = [stage EXCEPT ![r] = "done"]
        /\ Writes("playing")
  /\ UNCHANGED requested

\* rank() or the scout's construction rejects.
RankingFails(r) ==
  /\ ~closed
  /\ stage[r] = "ranking"
  /\ stage' = [stage EXCEPT ![r] = "done"]
  /\ Writes("error")
  /\ UNCHANGED <<vars, playback, requested, playOf>>

\* Mutant: a play() that rejects is not caught.
ReportedIgnoringErrors(r) ==
  IF plays'[playOf[r]] = "playing" THEN "playing" ELSE status

\* What server.js writes when the play() it awaits settles.
Reported(r) == IF plays'[playOf[r]] = "playing" THEN "playing" ELSE "error"

\* What else happens in the turn of a step of the stream server: playback
\* follows it, and the request whose play() it settles goes on.
Continues ==
  /\ Follow
  /\ \/ /\ plays' = plays
        /\ UNCHANGED engine
     \/ \E r \in Request :
          /\ stage[r] = "starting"
          /\ plays'[playOf[r]] # plays[playOf[r]]
          /\ stage' = [stage EXCEPT ![r] = "done"]
          /\ Writes(Reported(r))
          /\ UNCHANGED <<requested, playOf>>

Tears == TornDown /\ Continues
Races(h) == RacerEnds(h) /\ Continues
Watches == StallCheck /\ Continues

\* SIGINT or SIGTERM.
Shutdown == Destroy /\ Follow /\ UNCHANGED engine

\* GET /v1/stream.
Streaming == Plays /\ UNCHANGED engine

EngineNext ==
  \/ \E r \in Request : Accept(r) \/ Throws(r) \/ Start(r) \/ RankingFails(r)
  \/ Tears
  \/ \E h \in Hash : Races(h)
  \/ Watches
  \/ Streaming
  \/ Shutdown

EngineSpec == EngineInit /\ [][EngineNext]_allVars

\* The engine runs its stream server: racers end, torrents are torn down.
StreamRuns ==
  /\ \A h \in Hash : WF_allVars(Races(h))
  /\ WF_allVars(Tears)

\* Mutant: rank() has no budget.
RankingMayHang == TRUE

\* rank() is bounded by its probe budget.
RankingEnds == \A r \in Request : WF_allVars(Start(r) \/ RankingFails(r))

EngineFairSpec == EngineSpec /\ StreamRuns /\ RankingEnds

-----------------------------------------------------------------------------
\* An engine with no request in progress is not left saying that one is: the
\* last word is playing or error, however the awaits of the requests before
\* interleave. The exception is a request with a candidate that is null: it is
\* over as soon as it has written `ranking`, and when nobody writes after it that
\* is what GET /v1/status goes on saying.
SettledStatus ==
  (\A r \in Request : stage[r] \in {"new", "done"}) =>
    \/ status \in {"idle", "playing", "error"}
    \/ thrown /\ \E r \in Nameless : stage[r] = "done"

\* Every accepted request ends, however many others are in flight.
EveryRequestEnds ==
  \A r \in Request : stage[r] = "ranking" ~> (closed \/ stage[r] = "done")

(* What the documentation says and the code does not do.                       *)

\* openapi.js: once status is `playing`, /v1/stream has a file.
PlayingMeansServable == status = "playing" /\ ~closed => torrent # NoTorrent
=============================================================================
