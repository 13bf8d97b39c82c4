-------------------------------- MODULE Ranking --------------------------------
(* swarmScout.js rank(): from the candidates of a request to a ranking, either  *)
(* out of shared health, with a background refresh, or by probing: the trackers *)
(* of a candidate are scraped while the DHT is asked for its peers. Several     *)
(* calls share the peer cache and the flag of the refresh.                      *)
(*                                                                             *)
(* The control plane is external: its reply, or none, is any. Timers are not    *)
(* compared, entries of the cache expire at any time. A score weighs counts;    *)
(* leechers and locality are left out, and so is what scoring carries along:    *)
(* peers, labels, the order of the answer.                                      *)
EXTENDS Integers, FiniteSetsExt

CONSTANTS
  Hashes,       \* infohashes
  Calls,        \* rank() calls
  Asked,        \* per call: its candidates
  Trackers,     \* per hash: how many trackers announce it
  MaxCount,     \* bound on the seeders reported by a tracker or shared
  MaxPeers,     \* bound on the peers a DHT window collects
  SeederWeight, \* weight of a seeder in the score
  PeerWeight,   \* weight of a DHT peer in the score
  MaxBoost,     \* the most a cached score adds
  Refresh,      \* the owner of the background refresh's probes
  None          \* nothing cached, nothing shared, no probe, an open window

ASSUME RequestsAssumption ==
  /\ Asked \in [Calls -> (SUBSET Hashes) \ {{}}]
  /\ Refresh \notin Calls
ASSUME CountsAssumption ==
  /\ Trackers \in [Hashes -> Nat]
  /\ {MaxCount, MaxPeers, SeederWeight, PeerWeight, MaxBoost} \subseteq Nat
  /\ None \notin Nat

VARIABLES
  phase,      \* per call: where rank() is
  waits,      \* per call: the candidates whose result allSettled waits for
  probe,      \* per owner and hash: the probe in flight
  refreshing, \* the candidates of the refresh: {} when _refreshing is false
  dhtSettled, \* ready() has an answer
  cache,      \* swarms of the peer cache: a score, until it expires
  warm,       \* the peer cache holds DHT nodes
  closed      \* the peer cache is closed

vars == <<phase, waits, probe, refreshing, dhtSettled, cache, warm, closed>>

Owners == Calls \cup {Refresh}
Phases == {"idle", "asking", "probing", "returned"}

\* What shared health may say of a hash: nothing it would rank by, or a count.
\* An entry past its age is like none: the client checks it in both places.
Shared == 0..MaxCount \cup {None}

Probe ==
  [shared : Shared,        \* the shared entry of a call that does not rely on it
   boost : 0..MaxBoost,    \* from the cache entry as it was at the start
   pending : Nat,          \* trackers not heard of
   best : 0..MaxCount,     \* the best count so far, also after `scraped`
   answered : BOOLEAN,     \* best.responded > 0: the grace timer is armed
   scraped : BOOLEAN,      \* the scrape's promise is resolved
   peers : 0..MaxPeers \cup {None}]

ASSUME NoneAssumption == None \notin Probe

TypeOK ==
  /\ phase \in [Calls -> Phases]
  /\ waits \in [Calls -> SUBSET Hashes]
  /\ probe \in [Owners -> [Hashes -> Probe \cup {None}]]
  /\ refreshing \subseteq Hashes
  /\ dhtSettled \in BOOLEAN
  /\ cache \in [Hashes -> Nat \cup {None}]
  /\ warm \in BOOLEAN
  /\ closed \in BOOLEAN

Init ==
  /\ phase = [c \in Calls |-> "idle"]
  /\ waits = [c \in Calls |-> {}]
  /\ probe = [o \in Owners |-> [h \in Hashes |-> None]]
  /\ refreshing = {}
  /\ dhtSettled = FALSE
  /\ cache = [h \in Hashes |-> None]
  /\ warm \in BOOLEAN
  /\ closed = FALSE

-----------------------------------------------------------------------------
(* The peer cache.                                                             *)

\* Mutant: the callback of a probe writes to a closed database.
AlwaysWritten(h, score) == [cache EXCEPT ![h] = score]

Written(h, score) == IF closed THEN cache ELSE [cache EXCEPT ![h] = score]

\* _persistNodes: an empty list of responsive nodes overwrites nothing.
Persisted(isWarm) == IF closed THEN {isWarm} ELSE {isWarm, TRUE}

\* Mutant: what the cache says is added whole.
WholeBoost(h) == IF closed \/ cache[h] = None THEN 0 ELSE cache[h]

\* A known healthy candidate gets a small boost.
Boost(h) == IF closed \/ cache[h] = None THEN 0 ELSE Min({cache[h], MaxBoost})

-----------------------------------------------------------------------------
(* A probe, and what each event makes of it.                                   *)

Started(h, shared) ==
  [shared |-> shared, boost |-> Boost(h), pending |-> Trackers[h], best |-> 0,
   answered |-> FALSE, scraped |-> Trackers[h] = 0, peers |-> None]

\* Every candidate's probe, given what shared health said of them.
Probing(reply) == [h \in Hashes |-> IF h \in DOMAIN reply THEN Started(h, reply[h]) ELSE None]

\* The refresh does not ask shared health.
Refreshing(candidates) == Probing([h \in candidates |-> None])

Complete(p) == p.scraped /\ p.peers # None

\* Mutant: trackers that all stay silent do not end the scrape.
CountedDownIfHeard(p) ==
  [p EXCEPT !.pending = @ - 1, !.scraped = @ \/ (p.pending = 1 /\ p.answered)]

\* countDown(): the last tracker ends the scrape.
CountedDown(p) == [p EXCEPT !.pending = @ - 1, !.scraped = @ \/ p.pending = 1]

\* The object the scrape resolves to is still updated by trackers that are late.
Answered(p, count) ==
  CountedDown([p EXCEPT !.best = Max({@, count}), !.answered = TRUE])

\* If no tracker answered, zero means nothing was learned.
\* The shared entry may have become too old since the call began.
Seeders(p) == IF p.answered \/ p.shared = None THEN {p.best} ELSE {p.best, p.shared}

Scores(p) == {SeederWeight * n + PeerWeight * p.peers + p.boost : n \in Seeders(p)}

-----------------------------------------------------------------------------
(* rank().                                                                     *)

Rank(c) ==
  /\ phase[c] = "idle"
  /\ ~closed
  /\ phase' = [phase EXCEPT ![c] = "asking"]
  /\ UNCHANGED <<waits, probe, refreshing, dhtSettled, cache, warm, closed>>

\* _backgroundRefresh: one at a time; it starts when ready() settles.
Refreshed(candidates) ==
  IF refreshing = {}
  THEN /\ refreshing' = candidates
       /\ probe' = IF dhtSettled THEN [probe EXCEPT ![Refresh] = Refreshing(candidates)] ELSE probe
  ELSE UNCHANGED <<refreshing, probe>>

\* Shared health covers every candidate: that is the ranking.
AnswerFromShared(c) ==
  /\ phase[c] = "asking"
  /\ phase' = [phase EXCEPT ![c] = "returned"]
  /\ Refreshed(Asked[c])
  /\ UNCHANGED <<waits, dhtSettled, cache, warm, closed>>

\* It does not, or the caller wants a probe (`sharedFirst` false).
StartProbing(c) ==
  /\ phase[c] = "asking"
  /\ phase' = [phase EXCEPT ![c] = "probing"]
  /\ waits' = [waits EXCEPT ![c] = Asked[c]]
  /\ \E reply \in [Asked[c] -> Shared] : probe' = [probe EXCEPT ![c] = Probing(reply)]
  /\ UNCHANGED <<refreshing, dhtSettled, cache, warm, closed>>

\* One of allSettled's results; with the last one rank() returns, having
\* persisted the nodes. A result that comes after its timeout is dropped.
Settled(c, h) ==
  /\ waits' = [waits EXCEPT ![c] = @ \ {h}]
  /\ IF waits[c] = {h}
     THEN /\ phase' = [phase EXCEPT ![c] = "returned"]
          /\ warm' \in Persisted(warm)
     ELSE UNCHANGED <<phase, warm>>
  /\ UNCHANGED refreshing

\* The same for the refresh, whose flag comes down with the last result.
RefreshSettled(h) ==
  /\ IF \A other \in Hashes \ {h} : probe[Refresh][other] = None
     THEN refreshing' = {} /\ warm' \in Persisted(warm)
     ELSE UNCHANGED <<refreshing, warm>>
  /\ UNCHANGED <<phase, waits>>

\* The end of _scoreCandidate, whoever still waits for it.
Scored(o, h, p) ==
  /\ \E score \in Scores(p) : cache' = Written(h, score)
  /\ probe' = [probe EXCEPT ![o][h] = None]
  /\ IF o = Refresh THEN RefreshSettled(h) ELSE Settled(o, h)

\* An event makes the probe p, in the same turn scored if nothing is missing.
Becomes(o, h, p) ==
  /\ IF Complete(p) THEN Scored(o, h, p)
     ELSE /\ probe' = [probe EXCEPT ![o][h] = p]
          /\ UNCHANGED <<phase, waits, refreshing, cache, warm>>
  /\ UNCHANGED <<dhtSettled, closed>>

TrackerAnswers(o, h, count) ==
  /\ probe[o][h] # None
  /\ probe[o][h].pending > 0
  /\ Becomes(o, h, Answered(probe[o][h], count))

\* An error, no data, or SCRAPE_TIMEOUT_MS.
TrackerSilent(o, h) ==
  /\ probe[o][h] # None
  /\ probe[o][h].pending > 0
  /\ Becomes(o, h, CountedDown(probe[o][h]))

\* Enough of waiting for a better count.
GraceOver(o, h) ==
  /\ probe[o][h] # None
  /\ probe[o][h].answered /\ ~probe[o][h].scraped
  /\ Becomes(o, h, [probe[o][h] EXCEPT !.scraped = TRUE])

\* The peer source's sample() is in, or failed with none.
WindowCloses(o, h, count) ==
  /\ probe[o][h] # None
  /\ probe[o][h].peers = None
  /\ Becomes(o, h, [probe[o][h] EXCEPT !.peers = count])

\* _withTimeout: a placeholder takes the candidate's place, the probe goes on.
TimesOut(c, h) ==
  /\ h \in waits[c]
  /\ Settled(c, h)
  /\ UNCHANGED <<probe, dhtSettled, cache, closed>>

DhtSettles ==
  /\ ~dhtSettled
  /\ dhtSettled' = TRUE
  /\ probe' = IF refreshing = {} THEN probe ELSE [probe EXCEPT ![Refresh] = Refreshing(refreshing)]
  /\ UNCHANGED <<phase, waits, refreshing, cache, warm, closed>>

\* ttlMs has passed: get() will not return the entry.
Expires(h) ==
  /\ cache[h] # None
  /\ cache' = [cache EXCEPT ![h] = None]
  /\ UNCHANGED <<phase, waits, probe, refreshing, dhtSettled, warm, closed>>

\* The nodes are persisted, then the cache is closed; probes are not told.
Destroy ==
  /\ ~closed
  /\ warm' \in Persisted(warm)
  /\ closed' = TRUE
  /\ UNCHANGED <<phase, waits, probe, refreshing, dhtSettled, cache>>

SharedReplies(c) == AnswerFromShared(c) \/ StartProbing(c)

TrackerEnds(o, h) ==
  \/ TrackerSilent(o, h)
  \/ \E count \in 0..MaxCount : TrackerAnswers(o, h, count)

WindowEnds(o, h) == \E count \in 0..MaxPeers : WindowCloses(o, h, count)

ProbeEnds(o) == \E h \in Hashes : TrackerEnds(o, h) \/ WindowEnds(o, h)

BudgetEnds(c) == \E h \in Hashes : TimesOut(c, h)

Next ==
  \/ DhtSettles \/ Destroy
  \/ \E h \in Hashes : Expires(h)
  \/ \E c \in Calls : Rank(c) \/ SharedReplies(c) \/ BudgetEnds(c)
  \/ \E o \in Owners : ProbeEnds(o) \/ \E h \in Hashes : GraceOver(o, h)

Spec == Init /\ [][Next]_vars

\* A read of the control plane, a tracker, a DHT window, the bootstrap and a
\* candidate's budget all have a timer, and one owner has finitely many of them.
Fairness ==
  /\ WF_vars(DhtSettles)
  /\ \A c \in Calls : WF_vars(SharedReplies(c)) /\ WF_vars(BudgetEnds(c))
  /\ \A o \in Owners : WF_vars(ProbeEnds(o))

FairSpec == Spec /\ Fairness

-----------------------------------------------------------------------------
(* Properties.                                                                 *)

\* Scores are fed back: a cached score boosts the next one, which is cached with
\* the boost in it. However many calls and refreshes overlap, that never adds up:
\* a cached score is at most one measurement and one boost.
BoostNeverCompounds ==
  \A h \in Hashes :
    cache[h] # None => cache[h] <= SeederWeight * MaxCount + PeerWeight * MaxPeers + MaxBoost

\* Probes outlive the answer, and destroy() does not wait for them: when the
\* cache is closed, nothing that was still on its way is written to it.
ClosedIsSilent ==
  [][closed => warm' = warm /\ \A h \in Hashes : cache'[h] \in {cache[h], None}]_vars

\* Every rank() returns. The refresh, which no timeout wraps, ends as well,
\* though a tracker never answers: its flag would keep every later one away.
DiscoverySettles ==
  /\ \A c \in Calls : phase[c] = "asking" ~> phase[c] = "returned"
  /\ refreshing # {} ~> refreshing = {}
=============================================================================
