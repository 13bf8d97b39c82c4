----------------------------- MODULE Verification -----------------------------
(* SwarmScout.assess() with metainfo.js fetchFromAny(): every ranked candidate *)
(* of a call is verified by a small pool of connections to its peers, all      *)
(* pools share one PeerTable, and a deadline per candidate may speak first.    *)
(* Several calls (HTTP requests to /v1/assess) share the process's table.      *)
(*                                                                             *)
(* JavaScript runs one handler at a time, so an action is one event (a         *)
(* request's start, the end of one connection, a timer) with everything the    *)
(* code does before it returns to the event loop.                              *)
EXTENDS PeerTable, SequencesExt

CONSTANTS
  Call,                \* concurrent assess() calls
  Candidate,           \* positions in the ranked lists, over all calls
  CallOf,              \* [Candidate -> Call]
  Rankable,            \* [Candidate -> entries rank() may return for it]
  Concurrency,         \* connections at once per candidate
  MaxPeers,            \* addresses tried per candidate
  RefutationMinPeers,  \* REFUTATION_MIN_PEERS
  MaxNow,              \* bound on the clock
  NoPeer, NoResult

\* An entry of rank(), as assess() reads it: the addresses found, whether the
\* scrape reported a swarm, and the score.
RankEntry == [peers : Seq(Addr), claimed : BOOLEAN, score : Nat]

ASSUME RankableAssumption ==
  /\ Rankable \in [Candidate -> SUBSET RankEntry]
  /\ \A c \in Candidate : \A r \in Rankable[c] : IsInjective(r.peers)
ASSUME CallAssumption == CallOf \in [Candidate -> Call]
ASSUME CandidateAssumption == IsFiniteSet(Candidate) /\ Candidate \subseteq Nat
ASSUME PoolAssumption ==
  /\ Concurrency \in Nat \ {0}
  /\ MaxPeers \in Nat
  /\ RefutationMinPeers \in Nat \ {0}
ASSUME BoundAssumption == MaxNow \in Nat \ {0}
ASSUME NoPeerAssumption == NoPeer \notin Addr

Verdict == {"verified", "reachable", "claimed", "none"}
Result == [verdict : Verdict, refuted : BOOLEAN, timedOut : BOOLEAN, score : Nat]

ASSUME NoResultAssumption == NoResult \notin Result

VARIABLES
  table,    \* the shared PeerTable
  now,      \* Date.now(), in ticks
  ranked,   \* what rank() returned for every candidate
  started,  \* calls whose pools have been started
  timed,    \* those whose deadlineMs is not 0
  ordered,  \* the list fetchFromAny walks
  next,     \* index of the next address to take from it
  flight,   \* addresses with a connection open, per candidate
  winner,   \* the address that served the torrent first, per candidate
  result,   \* the entry assess() returns for the candidate
  \* history: nothing reads these
  refusals, \* addresses whose connection ended without the torrent
  proofs    \* addresses that served the torrent, even if nobody listened

pool == <<ordered, next, flight, winner>>
vars == <<table, now, ranked, started, timed, pool, result, refusals, proofs>>

TypeOK ==
  /\ table \in Table
  /\ now \in Nat
  /\ ranked \in [Candidate -> RankEntry]
  /\ started \subseteq Call
  /\ timed \subseteq started
  /\ ordered \in [Candidate -> Seq(Addr)]
  /\ next \in [Candidate -> Nat \ {0}]
  /\ flight \in [Candidate -> SUBSET Addr]
  /\ winner \in [Candidate -> Addr \cup {NoPeer}]
  /\ result \in [Candidate -> Result \cup {NoResult}]
  /\ refusals \in [Candidate -> SUBSET Addr]
  /\ proofs \in [Candidate -> SUBSET Addr]

CandidatesOf(k) == {c \in Candidate : CallOf[c] = k}
Lower(x, y) == IF x < y THEN x ELSE y

-----------------------------------------------------------------------------
(* What assess() concludes once a candidate's race is over.                    *)

\* Mutant: a tracker's claim is taken for a proof.
VerdictOnClaims(c, proved) ==
  IF proved \/ ranked[c].claimed THEN "verified"
  ELSE IF ranked[c].peers # <<>> THEN "reachable" ELSE "none"

VerdictOf(c, proved) ==
  IF proved THEN "verified"
  ELSE IF ranked[c].peers # <<>> THEN "reachable"
  ELSE IF ranked[c].claimed THEN "claimed" ELSE "none"

\* Mutant: giving up counts as having asked.
RefutedOnTimeout(c, asked, proved, timedOut) ==
  asked /\ ~proved /\ Len(ranked[c].peers) >= RefutationMinPeers

Refuted(c, asked, proved, timedOut) ==
  /\ asked
  /\ ~proved
  /\ ~timedOut
  /\ Len(ranked[c].peers) >= RefutationMinPeers

\* Math.round(score * REFUTED_SCORE_FACTOR)
Damped(score) == (score + 5) \div 10

Judge(c, asked, proved, timedOut) ==
  LET refuted == Refuted(c, asked, proved, timedOut)
  IN [verdict |-> VerdictOf(c, proved), refuted |-> refuted, timedOut |-> timedOut,
      score |-> IF refuted THEN Damped(ranked[c].score) ELSE ranked[c].score]

\* Mutant: the race's end overrules the deadline.
SettledAnyway(c, open, proved) ==
  IF open = {} THEN [result EXCEPT ![c] = Judge(c, TRUE, proved, FALSE)] ELSE result

\* Promise.all over the pool: the attempt resolves when no worker is left.
Settled(c, open, proved) ==
  IF open = {} /\ result[c] = NoResult
  THEN [result EXCEPT ![c] = Judge(c, TRUE, proved, FALSE)]
  ELSE result

-----------------------------------------------------------------------------
Init ==
  /\ table = EmptyTable
  /\ now = 1
  /\ ranked \in {f \in [Candidate -> UNION Range(Rankable)] :
                  \A c \in Candidate : f[c] \in Rankable[c]}
  /\ started = {}
  /\ timed = {}
  /\ ordered = [c \in Candidate |-> <<>>]
  /\ next = [c \in Candidate |-> 1]
  /\ flight = [c \in Candidate |-> {}]
  /\ winner = [c \in Candidate |-> NoPeer]
  /\ result = [c \in Candidate |-> NoResult]
  /\ refusals = [c \in Candidate |-> {}]
  /\ proofs = [c \in Candidate |-> {}]

\* Mutant: every address is dialled at once.
Broadcast(list) == Len(list)

\* The pool's workers take the first addresses of the list, all in one turn.
FirstWave(list) == Lower(Concurrency, Len(list))

\* assess() has its ranking: every candidate ranks its addresses against the
\* table as it is now and opens its first connections. A candidate with nothing
\* to ask is judged at once.
StartVerifying(k) ==
  \E list \in [CandidatesOf(k) -> AddrLists(MaxPeers)] :
    LET mine == CandidatesOf(k)
        wave(c) == FirstWave(list[c])
    IN /\ k \notin started
       /\ \A c \in mine : list[c] \in Rankings(table, ranked[c].peers, MaxPeers, now)
       /\ started' = started \cup {k}
       /\ timed' \in {timed, timed \cup {k}}
       /\ ordered' = [c \in Candidate |-> IF c \in mine THEN list[c] ELSE ordered[c]]
       /\ next' = [c \in Candidate |-> IF c \in mine THEN wave(c) + 1 ELSE next[c]]
       /\ flight' = [c \in Candidate |-> IF c \in mine
                                         THEN {list[c][i] : i \in 1..wave(c)}
                                         ELSE flight[c]]
       /\ result' = [c \in Candidate |-> IF c \in mine /\ list[c] = <<>>
                                         THEN Judge(c, TRUE, FALSE, FALSE)
                                         ELSE result[c]]
       /\ UNCHANGED <<table, now, ranked, winner, refusals, proofs>>

\* verify: false turns assess() into rank() with a verdict.
StartRanking(k) ==
  /\ k \notin started
  /\ started' = started \cup {k}
  /\ result' = [c \in Candidate |-> IF c \in CandidatesOf(k)
                                    THEN Judge(c, FALSE, FALSE, FALSE)
                                    ELSE result[c]]
  /\ UNCHANGED <<table, now, ranked, timed, pool, refusals, proofs>>

\* Mutant: a worker does not look whether the race was won while it waited.
RacingAlways(c) == TRUE

Racing(c) == winner[c] = NoPeer

\* A peer served the torrent, and it is the first of this candidate to do so.
Serve(c, a, rtt) ==
  /\ a \in flight[c]
  /\ Racing(c)
  /\ table' = Succeeded(table, a, rtt, now)
  /\ winner' = [winner EXCEPT ![c] = a]
  /\ flight' = [flight EXCEPT ![c] = @ \ {a}]
  /\ result' = Settled(c, flight[c] \ {a}, TRUE)
  /\ proofs' = [proofs EXCEPT ![c] = @ \cup {a}]
  /\ UNCHANGED <<now, ranked, started, timed, ordered, next, refusals>>

\* A connection ended without the torrent (refused, dropped, timed out, or the
\* peer does not hold it): the worker takes the next address, if there is one.
Refuse(c, a, connected) ==
  LET more == next[c] <= Len(ordered[c])
      open == (flight[c] \ {a}) \cup (IF more THEN {ordered[c][next[c]]} ELSE {})
  IN /\ a \in flight[c]
     /\ Racing(c)
     /\ table' = Failed(table, a, connected, now)
     /\ flight' = [flight EXCEPT ![c] = open]
     /\ next' = [next EXCEPT ![c] = IF more THEN @ + 1 ELSE @]
     /\ result' = Settled(c, open, FALSE)
     /\ refusals' = [refusals EXCEPT ![c] = @ \cup {a}]
     /\ UNCHANGED <<now, ranked, started, timed, ordered, winner, proofs>>

\* A connection that ends after the race was won is thrown away, whatever it
\* brought: the worker returns without telling the table.
EndLate(c, a, served) ==
  /\ a \in flight[c]
  /\ winner[c] # NoPeer
  /\ flight' = [flight EXCEPT ![c] = @ \ {a}]
  /\ result' = Settled(c, flight[c] \ {a}, TRUE)
  /\ refusals' = [refusals EXCEPT ![c] = IF served THEN @ ELSE @ \cup {a}]
  /\ proofs' = [proofs EXCEPT ![c] = IF served THEN @ \cup {a} ELSE @]
  /\ UNCHANGED <<table, now, ranked, started, timed, ordered, next, winner>>

\* The timer is set with the race and is never cleared; a settled race ignores it.
DeadlineDue(c) == CallOf[c] \in timed /\ result[c] = NoResult

\* The verification budget of one candidate runs out. Its pool is not told.
Deadline(c) ==
  /\ DeadlineDue(c)
  /\ result' = [result EXCEPT ![c] = Judge(c, TRUE, FALSE, TRUE)]
  /\ UNCHANGED <<table, now, ranked, started, timed, pool, refusals, proofs>>

\* Time passes between events; bounded by MaxNow.
Tick ==
  /\ now < MaxNow
  /\ now' = now + 1
  /\ UNCHANGED <<table, ranked, started, timed, pool, result, refusals, proofs>>

EndConnection(c, a) ==
  \/ \E rtt \in Rtts : Serve(c, a, rtt)
  \/ \E connected \in BOOLEAN : Refuse(c, a, connected)
  \/ \E served \in BOOLEAN : EndLate(c, a, served)

Next ==
  \/ \E k \in Call : StartVerifying(k) \/ StartRanking(k)
  \/ \E c \in Candidate, a \in Addr : EndConnection(c, a)
  \/ \E c \in Candidate : Deadline(c)
  \/ Tick

Spec == Init /\ [][Next]_vars

\* Mutant: connections without timers.
ConnectionsMayHang == TRUE

\* Every connection has its own timers (fetchMetadata's overall and connect
\* deadlines), so each one ends.
ConnectionsEnd == \A c \in Candidate, a \in Addr : WF_vars(EndConnection(c, a))

\* setTimeout fires.
TimersFire == \A c \in Candidate : WF_vars(Deadline(c))

FairSpec == Spec /\ ConnectionsEnd /\ TimersFire

-----------------------------------------------------------------------------
(* The list assess() returns: tiers of evidence first, score inside a tier.    *)

\* Mutant: a refuted swarm ranks with the reachable ones.
TierOfVerdict(r) ==
  CASE r.verdict = "verified" -> 0
    [] r.verdict = "reachable" -> 1
    [] r.verdict = "claimed" -> 2
    [] OTHER -> 4

Tier(r) ==
  CASE r.verdict = "verified" -> 0
    [] r.verdict = "reachable" /\ ~r.refuted -> 1
    [] r.verdict = "claimed" -> 2
    [] r.verdict = "reachable" /\ r.refuted -> 3
    [] OTHER -> 4

Reported(k) == \A c \in CandidatesOf(k) : result[c] # NoResult

\* The comparison of the sort, which is stable.
Before(c, d) ==
  \/ Tier(result[c]) < Tier(result[d])
  \/ Tier(result[c]) = Tier(result[d]) /\ result[c].score > result[d].score
  \/ /\ Tier(result[c]) = Tier(result[d])
     /\ result[c].score = result[d].score
     /\ c < d

Assessed(k) ==
  CHOOSE list \in SetToSeqs(CandidatesOf(k)) :
    \A i, j \in DOMAIN list : i < j => Before(list[i], list[j])

-----------------------------------------------------------------------------
(* Safety.                                                                     *)

\* A green badge needs a proof: a verified candidate has a winner among its own
\* addresses, and that address really served this torrent. Nothing another
\* candidate or another request learnt through the shared table counts.
VerifiedOnlyOnProof ==
  \A c \in Candidate :
    result[c] # NoResult /\ result[c].verdict = "verified" =>
      winner[c] \in Range(ranked[c].peers) \cap proofs[c]

\* Refutation is evidence of absence: every address on the candidate's list was
\* asked to the end and none had the torrent, none is still being asked, and
\* the budget did not run out first.
RefutedMeansAllAsked ==
  \A c \in Candidate :
    result[c] # NoResult /\ result[c].refuted =>
      /\ Range(ordered[c]) \subseteq refusals[c]
      /\ proofs[c] = {}
      /\ flight[c] = {}
      /\ ~result[c].timedOut

\* The shared table promotes an address only if it served some torrent.
KnownGoodServed ==
  \A a \in Addr : IsGood(table, a) => \E c \in Candidate : a \in proofs[c]

\* Having looked and found nothing ranks below not having looked, and below
\* everything that was not refuted, whatever the scores; nothing unproven ranks
\* above something proven.
EvidenceOrder ==
  \A k \in Call : k \in started /\ Reported(k) =>
    \A i, j \in DOMAIN Assessed(k) : i < j =>
      LET above == result[Assessed(k)[i]]
          below == result[Assessed(k)[j]]
      IN /\ below.verdict = "verified" => above.verdict = "verified"
         /\ above.refuted => below.refuted \/ below.verdict = "none"

(* What a step may never do.                                                   *)

\* The pool is a pool, not a broadcast: never more than Concurrency connections
\* for a torrent, no address of it asked twice, and the first proof stops new
\* connections, whichever worker's connection ends next.
PoolDiscipline ==
  [][\A c \in Candidate :
       LET dialled == flight'[c] \ flight[c]
       IN /\ Cardinality(flight'[c]) <= Concurrency
          /\ dialled \cap (refusals'[c] \cup proofs'[c]) = {}
          /\ winner[c] # NoPeer => dialled = {}]_vars

\* A verdict is given once: neither a late answer nor the deadline timer, which
\* is never cleared, revises it.
VerdictIsFinal ==
  [][\A c \in Candidate : result[c] # NoResult => result'[c] = result[c]]_vars

(* Liveness.                                                                   *)

\* Every request that starts is answered, with or without a deadline, and its
\* pools wind down on their own, also those whose verdict came early.
EveryCallEnds ==
  \A k \in Call :
    k \in started ~> Reported(k) /\ \A c \in CandidatesOf(k) : flight[c] = {}

-----------------------------------------------------------------------------
(* What the documentation says and the code does not do.                       *)

\* swarmScout.js: a refuted candidate's sample of peers was really asked.
RefutedAskedEnough ==
  \A c \in Candidate :
    result[c] # NoResult /\ result[c].refuted =>
      Cardinality(refusals[c]) >= RefutationMinPeers
=============================================================================
