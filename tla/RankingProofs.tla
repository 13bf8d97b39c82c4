------------------------------ MODULE RankingProofs ------------------------------
(* Theorems about Ranking, for every set of candidates and of calls that share  *)
(* one peer cache, and for every weight of the score.                           *)
EXTENDS Ranking, TLAPS

\* The most one measurement and one boost make.
MaxScore == SeederWeight * MaxCount + PeerWeight * MaxPeers + MaxBoost

IInv == TypeOK /\ BoostNeverCompounds

-----------------------------------------------------------------------------
(* Numbers.                                                                    *)

\* The weights are weights.
LEMMA Naturals == MaxCount \in Nat /\ MaxPeers \in Nat /\ MaxBoost \in Nat
                  /\ SeederWeight \in Nat /\ PeerWeight \in Nat /\ None \notin Nat
BY CountsAssumption

\* The larger and the smaller of two numbers.
LEMMA TwoNumbers ==
  ASSUME NEW m \in Nat, NEW n \in Nat
  PROVE  Max({m, n}) \in {m, n} /\ Min({m, n}) \in {m, n} /\ Min({m, n}) <= n
<1>1. \E x \in {m, n} : \A y \in {m, n} : x >= y
  OBVIOUS
<1>2. \E x \in {m, n} : \A y \in {m, n} : x <= y
  OBVIOUS
<1>3. Max({m, n}) \in {m, n}
  BY <1>1 DEF Max
<1>4. Min({m, n}) \in {m, n} /\ \A y \in {m, n} : Min({m, n}) <= y
  BY <1>2 DEF Min
<1> QED BY <1>3, <1>4

\* A weight makes more of more.
LEMMA WeightedIsMonotone ==
  ASSUME NEW w \in Nat, NEW m \in Nat, NEW n \in Nat, m <= n
  PROVE  w * m \in Nat /\ w * n \in Nat /\ w * m <= w * n
<1>1. w * m \in Nat /\ w * n \in Nat /\ w * (n - m) \in Nat
  OBVIOUS
<1>2. w * n = w * m + w * (n - m)
  OBVIOUS
<1> QED BY <1>1, <1>2

-----------------------------------------------------------------------------
(* Probes.                                                                     *)

\* The boost is capped whatever is cached.
LEMMA BoostIsCapped ==
  ASSUME TypeOK, NEW h \in Hashes PROVE Boost(h) \in 0..MaxBoost
<1>1. CASE closed \/ cache[h] = None
  BY <1>1, Naturals DEF Boost
<1>2. CASE ~(closed \/ cache[h] = None)
  <2>1. cache[h] \in Nat
    BY <1>2 DEF TypeOK
  <2>2. Min({cache[h], MaxBoost}) \in Nat /\ Min({cache[h], MaxBoost}) <= MaxBoost
    BY <2>1, Naturals, TwoNumbers
  <2> QED BY <1>2, <2>2, Naturals DEF Boost
<1> QED BY <1>1, <1>2

\* A probe starts as a probe.
LEMMA StartedIsProbe ==
  ASSUME TypeOK, NEW h \in Hashes, NEW shared \in Shared PROVE Started(h, shared) \in Probe
<1>1. Boost(h) \in 0..MaxBoost
  BY BoostIsCapped
<1>2. Trackers[h] \in Nat
  BY CountsAssumption
<1> QED BY <1>1, <1>2, Naturals DEF Started, Probe

\* So do the probes of all candidates.
LEMMA ProbingIsTyped ==
  ASSUME TypeOK, NEW reply, DOMAIN reply \subseteq Hashes,
         \A h \in DOMAIN reply : reply[h] \in Shared
  PROVE  Probing(reply) \in [Hashes -> Probe \cup {None}]
BY StartedIsProbe DEF Probing

LEMMA RefreshingIsTyped ==
  ASSUME TypeOK, NEW candidates \in SUBSET Hashes
  PROVE  Refreshing(candidates) \in [Hashes -> Probe \cup {None}]
<1> DEFINE reply == [h \in candidates |-> None]
<1>1. DOMAIN reply \subseteq Hashes /\ \A h \in DOMAIN reply : reply[h] \in Shared
  BY DEF Shared
<1>2. Probing(reply) \in [Hashes -> Probe \cup {None}]
  BY <1>1, ProbingIsTyped
<1> QED BY <1>2 DEF Refreshing

\* A tracker that is heard of, or given up, leaves a probe.
LEMMA CountedDownIsProbe ==
  ASSUME NEW p \in Probe, p.pending > 0 PROVE CountedDown(p) \in Probe
<1> DEFINE over == p.scraped \/ p.pending = 1
<1>1. over \in BOOLEAN
  OBVIOUS
<1>2. p.pending - 1 \in Nat
  BY DEF Probe
<1>3. CountedDown(p) = [p EXCEPT !.pending = p.pending - 1, !.scraped = over]
  BY DEF CountedDown
<1> HIDE DEF over
<1> QED BY <1>1, <1>2, <1>3 DEF Probe

LEMMA AnsweredIsProbe ==
  ASSUME NEW p \in Probe, p.pending > 0, NEW count \in 0..MaxCount
  PROVE  Answered(p, count) \in Probe
<1> DEFINE q == [p EXCEPT !.best = Max({@, count}), !.answered = TRUE]
<1>1. p.best \in 0..MaxCount /\ p.best \in Nat /\ count \in Nat
  BY Naturals DEF Probe
<1>2. Max({p.best, count}) \in 0..MaxCount
  BY <1>1, TwoNumbers
<1>3. q \in Probe /\ q.pending > 0
  BY <1>2 DEF Probe
<1>4. CountedDown(q) \in Probe
  BY <1>3, CountedDownIsProbe
<1> QED BY <1>4 DEF Answered

\* What a complete probe may score is a number within the bound.
LEMMA ScoresAreBounded ==
  ASSUME NEW p \in Probe, p.peers # None, NEW score \in Scores(p)
  PROVE  score \in Nat /\ score <= MaxScore
<1>1. p.peers \in Nat /\ p.peers <= MaxPeers /\ p.boost \in Nat /\ p.boost <= MaxBoost
  BY Naturals DEF Probe
<1>2. PICK n \in Seeders(p) : score = SeederWeight * n + PeerWeight * p.peers + p.boost
  BY DEF Scores
<1>3. p.best \in 0..MaxCount /\ (p.shared # None => p.shared \in 0..MaxCount)
  BY DEF Probe, Shared
<1>4. n \in Nat /\ n <= MaxCount
  BY <1>2, <1>3, Naturals DEF Seeders
<1>5. /\ SeederWeight * n \in Nat /\ SeederWeight * MaxCount \in Nat
      /\ SeederWeight * n <= SeederWeight * MaxCount
  BY <1>4, Naturals, WeightedIsMonotone
<1>6. /\ PeerWeight * p.peers \in Nat /\ PeerWeight * MaxPeers \in Nat
      /\ PeerWeight * p.peers <= PeerWeight * MaxPeers
  BY <1>1, Naturals, WeightedIsMonotone
<1> DEFINE s == SeederWeight * n
           sMax == SeederWeight * MaxCount
           q == PeerWeight * p.peers
           qMax == PeerWeight * MaxPeers
<1>7. s + q + p.boost \in Nat /\ s + q + p.boost <= sMax + qMax + MaxBoost
  <2> HIDE DEF s, sMax, q, qMax
  <2>1. s \in Nat /\ sMax \in Nat /\ s <= sMax /\ q \in Nat /\ qMax \in Nat /\ q <= qMax
    BY <1>5, <1>6 DEF s, sMax, q, qMax
  <2> QED BY <2>1, <1>1, Naturals
<1> QED BY <1>7, <1>2 DEF MaxScore

-----------------------------------------------------------------------------
(* Steps.                                                                      *)

\* Writing a bounded score keeps a cache of bounded scores.
LEMMA WrittenIsBounded ==
  ASSUME IInv, NEW h \in Hashes, NEW score \in Nat, score <= MaxScore
  PROVE  /\ Written(h, score) \in [Hashes -> Nat \cup {None}]
         /\ \A i \in Hashes : Written(h, score)[i] # None => Written(h, score)[i] <= MaxScore
BY DEF IInv, TypeOK, BoostNeverCompounds, Written, MaxScore

\* Whatever may be persisted, `warm` is a Boolean.
LEMMA PersistedIsBoolean ==
  ASSUME TypeOK PROVE Persisted(warm) \subseteq BOOLEAN
BY DEF TypeOK, Persisted

\* A result of allSettled touches neither probes nor scores.
LEMMA SettledIsTyped ==
  ASSUME TypeOK, NEW c \in Calls, NEW h \in Hashes, Settled(c, h)
  PROVE  /\ phase' \in [Calls -> Phases] /\ waits' \in [Calls -> SUBSET Hashes]
         /\ refreshing' \subseteq Hashes /\ warm' \in BOOLEAN
<1>1. waits' \in [Calls -> SUBSET Hashes] /\ refreshing' \subseteq Hashes
  BY DEF TypeOK, Settled
<1>2. phase' \in [Calls -> Phases]
  BY DEF TypeOK, Settled, Phases
<1>3. warm' \in BOOLEAN
  BY PersistedIsBoolean DEF TypeOK, Settled
<1> QED BY <1>1, <1>2, <1>3

LEMMA RefreshSettledIsTyped ==
  ASSUME TypeOK, NEW h \in Hashes, RefreshSettled(h)
  PROVE  /\ phase' \in [Calls -> Phases] /\ waits' \in [Calls -> SUBSET Hashes]
         /\ refreshing' \subseteq Hashes /\ warm' \in BOOLEAN
<1>1. warm' \in BOOLEAN
  BY PersistedIsBoolean DEF TypeOK, RefreshSettled
<1> QED BY <1>1 DEF TypeOK, RefreshSettled

\* An event that makes a probe another probe, or completes it.
LEMMA BecomesPreserves ==
  ASSUME IInv, NEW o \in Owners, NEW h \in Hashes, NEW p \in Probe, Becomes(o, h, p)
  PROVE  IInv'
<1>1. CASE ~Complete(p)
  <2>1. probe' \in [Owners -> [Hashes -> Probe \cup {None}]]
    BY <1>1 DEF IInv, TypeOK, Becomes
  <2>2. UNCHANGED <<phase, waits, refreshing, dhtSettled, cache, warm, closed>>
    BY <1>1 DEF Becomes
  <2> QED BY <2>1, <2>2 DEF IInv, TypeOK, BoostNeverCompounds
<1>2. CASE Complete(p)
  <2>1. Scored(o, h, p) /\ UNCHANGED <<dhtSettled, closed>>
    BY <1>2 DEF Becomes
  <2>2. PICK score \in Scores(p) : cache' = Written(h, score)
    BY <2>1 DEF Scored
  <2>3. score \in Nat /\ score <= MaxScore
    BY <1>2, ScoresAreBounded DEF Complete
  <2>4. /\ cache' \in [Hashes -> Nat \cup {None}]
        /\ \A i \in Hashes : cache'[i] # None => cache'[i] <= MaxScore
    BY <2>2, <2>3, WrittenIsBounded
  <2>5. probe' \in [Owners -> [Hashes -> Probe \cup {None}]]
    BY <2>1 DEF IInv, TypeOK, Scored
  <2>6. /\ phase' \in [Calls -> Phases] /\ waits' \in [Calls -> SUBSET Hashes]
        /\ refreshing' \subseteq Hashes /\ warm' \in BOOLEAN
    <3>1. CASE o = Refresh
      BY <2>1, <3>1, RefreshSettledIsTyped DEF IInv, Scored
    <3>2. CASE o # Refresh
      <4>1. o \in Calls
        BY <3>2 DEF Owners
      <4> QED BY <2>1, <3>2, <4>1, SettledIsTyped DEF IInv, Scored
    <3> QED BY <3>1, <3>2
  <2> QED BY <2>1, <2>4, <2>5, <2>6 DEF IInv, TypeOK, BoostNeverCompounds, MaxScore
<1> QED BY <1>1, <1>2

\* Starting the refresh, or not because one is in flight.
LEMMA RefreshedIsTyped ==
  ASSUME TypeOK, NEW candidates \in SUBSET Hashes, Refreshed(candidates)
  PROVE  refreshing' \subseteq Hashes /\ probe' \in [Owners -> [Hashes -> Probe \cup {None}]]
<1>1. Refreshing(candidates) \in [Hashes -> Probe \cup {None}]
  BY RefreshingIsTyped
<1>2. CASE refreshing = {}
  BY <1>1, <1>2 DEF TypeOK, Refreshed
<1>3. CASE refreshing # {}
  BY <1>3 DEF TypeOK, Refreshed
<1> QED BY <1>2, <1>3

\* Every step preserves the invariant.
LEMMA StepPreserves ==
  ASSUME IInv, [Next]_vars PROVE IInv'
<1> USE DEF IInv
<1>1. CASE DhtSettles
  <2>1. Refreshing(refreshing) \in [Hashes -> Probe \cup {None}]
    BY RefreshingIsTyped DEF TypeOK
  <2>2. probe' \in [Owners -> [Hashes -> Probe \cup {None}]]
    BY <1>1, <2>1 DEF TypeOK, DhtSettles
  <2> QED BY <1>1, <2>2 DEF TypeOK, BoostNeverCompounds, DhtSettles
<1>2. CASE Destroy
  <2>1. warm' \in BOOLEAN
    BY <1>2, PersistedIsBoolean DEF Destroy
  <2> QED BY <1>2, <2>1 DEF TypeOK, BoostNeverCompounds, Destroy
<1>3. ASSUME NEW h \in Hashes, Expires(h) PROVE IInv'
  BY <1>3 DEF TypeOK, BoostNeverCompounds, Expires
<1>4. ASSUME NEW c \in Calls, Rank(c) PROVE IInv'
  BY <1>4 DEF TypeOK, BoostNeverCompounds, Rank, Phases
<1>5. ASSUME NEW c \in Calls, AnswerFromShared(c) PROVE IInv'
  <2>1. Asked[c] \in SUBSET Hashes
    BY RequestsAssumption
  <2>2. refreshing' \subseteq Hashes /\ probe' \in [Owners -> [Hashes -> Probe \cup {None}]]
    BY <1>5, <2>1, RefreshedIsTyped DEF AnswerFromShared
  <2> QED BY <1>5, <2>2 DEF TypeOK, BoostNeverCompounds, AnswerFromShared, Phases
<1>6. ASSUME NEW c \in Calls, StartProbing(c) PROVE IInv'
  <2>1. Asked[c] \in SUBSET Hashes
    BY RequestsAssumption
  <2>2. PICK reply \in [Asked[c] -> Shared] : probe' = [probe EXCEPT ![c] = Probing(reply)]
    BY <1>6 DEF StartProbing
  <2>3. Probing(reply) \in [Hashes -> Probe \cup {None}]
    BY <2>1, ProbingIsTyped
  <2>4. probe' \in [Owners -> [Hashes -> Probe \cup {None}]]
    BY <2>2, <2>3 DEF TypeOK
  <2> QED BY <1>6, <2>1, <2>4 DEF TypeOK, BoostNeverCompounds, StartProbing, Phases
<1>7. ASSUME NEW c \in Calls, NEW h \in Hashes, TimesOut(c, h) PROVE IInv'
  <2>1. /\ phase' \in [Calls -> Phases] /\ waits' \in [Calls -> SUBSET Hashes]
        /\ refreshing' \subseteq Hashes /\ warm' \in BOOLEAN
    BY <1>7, SettledIsTyped DEF TimesOut
  <2> QED BY <1>7, <2>1 DEF TypeOK, BoostNeverCompounds, TimesOut
<1>8. ASSUME NEW o \in Owners, NEW h \in Hashes, NEW count \in 0..MaxCount,
             TrackerAnswers(o, h, count)
      PROVE  IInv'
  <2>1. probe[o][h] \in Probe
    BY <1>8 DEF TypeOK, TrackerAnswers
  <2>2. Answered(probe[o][h], count) \in Probe
    BY <1>8, <2>1, AnsweredIsProbe DEF TrackerAnswers
  <2> QED BY <1>8, <2>2, BecomesPreserves DEF TrackerAnswers
<1>9. ASSUME NEW o \in Owners, NEW h \in Hashes, TrackerSilent(o, h) PROVE IInv'
  <2>1. probe[o][h] \in Probe
    BY <1>9 DEF TypeOK, TrackerSilent
  <2>2. CountedDown(probe[o][h]) \in Probe
    BY <1>9, <2>1, CountedDownIsProbe DEF TrackerSilent
  <2> QED BY <1>9, <2>2, BecomesPreserves DEF TrackerSilent
<1>10. ASSUME NEW o \in Owners, NEW h \in Hashes, GraceOver(o, h) PROVE IInv'
  <2>1. probe[o][h] \in Probe
    BY <1>10 DEF TypeOK, GraceOver
  <2>2. [probe[o][h] EXCEPT !.scraped = TRUE] \in Probe
    BY <2>1 DEF Probe
  <2> QED BY <1>10, <2>2, BecomesPreserves DEF GraceOver
<1>11. ASSUME NEW o \in Owners, NEW h \in Hashes, NEW count \in 0..MaxPeers,
              WindowCloses(o, h, count)
       PROVE  IInv'
  <2>1. probe[o][h] \in Probe
    BY <1>11 DEF TypeOK, WindowCloses
  <2>2. [probe[o][h] EXCEPT !.peers = count] \in Probe
    BY <2>1 DEF Probe
  <2> QED BY <1>11, <2>2, BecomesPreserves DEF WindowCloses
<1>12. CASE UNCHANGED vars
  BY <1>12 DEF vars, TypeOK, BoostNeverCompounds
<1> QED
  BY <1>1, <1>2, <1>3, <1>4, <1>5, <1>6, <1>7, <1>8, <1>9, <1>10, <1>11, <1>12
  DEF Next, SharedReplies, BudgetEnds, ProbeEnds, TrackerEnds, WindowEnds

-----------------------------------------------------------------------------
(* Theorems.                                                                   *)

\* The invariant that carries the type and the bound on scores: it holds at first,
\* with an empty cache, and every step of every call, refresh and probe keeps it.
THEOREM Invariance == Spec => []IInv
<1>1. Init => IInv
  <2> SUFFICES ASSUME Init PROVE IInv
    OBVIOUS
  <2>1. probe \in [Owners -> [Hashes -> Probe \cup {None}]]
    BY DEF Init
  <2>2. cache \in [Hashes -> Nat \cup {None}] /\ BoostNeverCompounds
    BY DEF Init, BoostNeverCompounds
  <2>3. /\ phase \in [Calls -> Phases] /\ waits \in [Calls -> SUBSET Hashes]
        /\ refreshing \subseteq Hashes /\ {dhtSettled, warm, closed} \subseteq BOOLEAN
    BY DEF Init, Phases
  <2> QED BY <2>1, <2>2, <2>3 DEF IInv, TypeOK
<1>2. IInv /\ [Next]_vars => IInv'
  BY StepPreserves
<1> QED BY <1>1, <1>2, PTL DEF Spec

\* Type correctness of rank(): counts and boosts of a probe keep their bounds.
THEOREM TypeCorrect == Spec => []TypeOK
<1>1. IInv => TypeOK
  BY DEF IInv
<1> QED BY <1>1, Invariance, PTL

\* The feedback of scores through the peer cache never adds up.
THEOREM BoostsDoNotCompound == Spec => []BoostNeverCompounds
<1>1. IInv => BoostNeverCompounds
  BY DEF IInv
<1> QED BY <1>1, Invariance, PTL

\* Once the peer cache is closed, no probe that was on its way writes to it.
THEOREM ClosedStaysSilent == Spec => ClosedIsSilent
<1>1. ASSUME TypeOK, [Next]_vars, closed
      PROVE  warm' = warm /\ \A h \in Hashes : cache'[h] \in {cache[h], None}
  <2>1. ASSUME NEW c \in Calls, NEW h \in Hashes, Settled(c, h) PROVE warm' = warm
    BY <1>1, <2>1 DEF Settled, Persisted
  <2>2. ASSUME NEW o \in Owners, NEW h \in Hashes, NEW p, Becomes(o, h, p)
        PROVE  warm' = warm /\ cache' = cache
    <3>1. CASE ~Complete(p)
      BY <2>2, <3>1 DEF Becomes
    <3>2. CASE Complete(p)
      <4>1. cache' = cache
        BY <1>1, <2>2, <3>2 DEF Becomes, Scored, Written
      <4>2. warm' = warm
        <5>1. CASE o = Refresh
          BY <1>1, <2>2, <3>2, <5>1 DEF Becomes, Scored, RefreshSettled, Persisted
        <5>2. CASE o # Refresh
          BY <2>1, <2>2, <3>2, <5>2 DEF Becomes, Scored, Owners
        <5> QED BY <5>1, <5>2
      <4> QED BY <4>1, <4>2
    <3> QED BY <3>1, <3>2
  <2>3. ASSUME NEW o \in Owners, ProbeEnds(o) \/ \E h \in Hashes : GraceOver(o, h)
        PROVE  warm' = warm /\ cache' = cache
    BY <2>2, <2>3
    DEF ProbeEnds, TrackerEnds, WindowEnds, TrackerAnswers, TrackerSilent, GraceOver, WindowCloses
  <2>4. ASSUME NEW c \in Calls, Rank(c) \/ SharedReplies(c) PROVE warm' = warm /\ cache' = cache
    BY <2>4 DEF Rank, SharedReplies, AnswerFromShared, StartProbing
  <2>5. ASSUME NEW c \in Calls, BudgetEnds(c) PROVE warm' = warm /\ cache' = cache
    BY <2>1, <2>5 DEF BudgetEnds, TimesOut
  <2>6. CASE DhtSettles
    BY <2>6 DEF DhtSettles
  <2>7. ASSUME NEW h \in Hashes, Expires(h)
        PROVE  warm' = warm /\ \A i \in Hashes : cache'[i] \in {cache[i], None}
    BY <1>1, <2>7 DEF TypeOK, Expires
  <2>8. CASE UNCHANGED vars
    BY <2>8 DEF vars
  <2>9. ~Destroy
    BY <1>1 DEF Destroy
  <2> QED BY <1>1, <2>3, <2>4, <2>5, <2>6, <2>7, <2>8, <2>9 DEF Next
<1>2. TypeOK /\ [Next]_vars =>
        [closed => warm' = warm /\ \A h \in Hashes : cache'[h] \in {cache[h], None}]_vars
  BY <1>1
<1> QED BY <1>2, TypeCorrect, PTL DEF Spec, ClosedIsSilent
-----------------------------------------------------------------------------
(* Nobody waits for nothing.                                                   *)

\* A probe still waits for a tracker or for the window: once neither is to come,
\* it is scored in that turn.
StillWaits(p) == p.pending > 0 \/ p.peers = None

\* What keeps it so: the last tracker ends the scrape.
Unfinished(p) == ~Complete(p) /\ (p.pending = 0 => p.scraped)

ProbesUnfinished ==
  \A o \in Owners, h \in Hashes : probe[o][h] # None => Unfinished(probe[o][h])

\* A call that is probing waits for a candidate whose budget runs.
CallsAwait == \A c \in Calls : phase[c] = "probing" => waits[c] # {}

\* The flag of the refresh is up only while the bootstrap is awaited or a probe
\* of its own is in flight.
FlagHasReason ==
  refreshing # {} => ~dhtSettled \/ \E h \in Hashes : probe[Refresh][h] # None

WaitsInv == ProbesUnfinished /\ CallsAwait /\ FlagHasReason

\* The last tracker ends the scrape.
LEMMA LastTrackerEnds ==
  ASSUME NEW p \in Probe, p.pending > 0, CountedDown(p).pending = 0
  PROVE  CountedDown(p).scraped
<1> DEFINE over == p.scraped \/ p.pending = 1
<1>1. CountedDown(p) = [p EXCEPT !.pending = p.pending - 1, !.scraped = over]
  BY DEF CountedDown
<1>2. p.pending \in Nat
  BY DEF Probe
<1> HIDE DEF over
<1>3. CountedDown(p).pending = p.pending - 1 /\ CountedDown(p).scraped = over
  BY <1>1 DEF Probe
<1>4. p.pending = 1
  BY <1>2, <1>3
<1> QED BY <1>3, <1>4 DEF over

LEMMA StartedIsUnfinished ==
  ASSUME NEW h \in Hashes, NEW shared PROVE Unfinished(Started(h, shared))
BY DEF Unfinished, Complete, Started

LEMMA ProbingIsUnfinished ==
  ASSUME NEW reply, NEW h \in Hashes, Probing(reply)[h] # None
  PROVE  Unfinished(Probing(reply)[h])
<1>1. Probing(reply)[h] = Started(h, reply[h])
  BY DEF Probing
<1> QED BY <1>1, StartedIsUnfinished

\* One more result leaves a call waiting or returned.
LEMMA SettledAwaits ==
  ASSUME TypeOK, CallsAwait, NEW c \in Calls, NEW h \in Hashes, Settled(c, h)
  PROVE  CallsAwait'
<1>1. ASSUME NEW d \in Calls, phase'[d] = "probing" PROVE waits'[d] # {}
  <2>1. CASE d # c
    <3>1. phase'[d] = phase[d] /\ waits'[d] = waits[d]
      BY <2>1 DEF Settled, TypeOK
    <3> QED BY <1>1, <3>1 DEF CallsAwait
  <2>2. CASE d = c
    <3>1. waits[c] # {h} /\ phase' = phase /\ waits'[c] = waits[c] \ {h}
      BY <1>1, <2>2 DEF Settled, TypeOK
    <3>2. waits[c] # {}
      BY <1>1, <2>2, <3>1 DEF CallsAwait
    <3> QED BY <2>2, <3>1, <3>2
  <2> QED BY <2>1, <2>2
<1> QED BY <1>1 DEF CallsAwait

\* An event that makes a probe another one, with all that follows from it.
LEMMA BecomesWaits ==
  ASSUME TypeOK, WaitsInv, NEW o \in Owners, NEW h \in Hashes, NEW p \in Probe,
         p.pending = 0 => p.scraped, probe[o][h] # None, Becomes(o, h, p)
  PROVE  WaitsInv'
<1>0. p # None
  BY NoneAssumption
<1>1. CASE ~Complete(p)
  <2>1. /\ probe' = [probe EXCEPT ![o][h] = p]
        /\ UNCHANGED <<phase, waits, refreshing, dhtSettled>>
    BY <1>1 DEF Becomes
  <2>2. ASSUME NEW q \in Owners, NEW i \in Hashes
        PROVE  probe'[q][i] = IF q = o /\ i = h THEN p ELSE probe[q][i]
    BY <2>1 DEF TypeOK
  <2>3. ProbesUnfinished'
    BY <1>1, <2>2 DEF WaitsInv, ProbesUnfinished, Unfinished
  <2>4. Refresh \in Owners
    BY DEF Owners
  <2>5. FlagHasReason'
    BY <1>0, <2>1, <2>2, <2>4 DEF WaitsInv, FlagHasReason
  <2> QED BY <2>1, <2>3, <2>5 DEF WaitsInv, CallsAwait
<1>2. CASE Complete(p)
  <2>1. /\ probe' = [probe EXCEPT ![o][h] = None]
        /\ IF o = Refresh THEN RefreshSettled(h) ELSE Settled(o, h)
        /\ UNCHANGED dhtSettled
    BY <1>2 DEF Becomes, Scored
  <2>2. ASSUME NEW q \in Owners, NEW i \in Hashes
        PROVE  probe'[q][i] = IF q = o /\ i = h THEN None ELSE probe[q][i]
    BY <2>1 DEF TypeOK
  <2>3. ProbesUnfinished'
    BY <2>2 DEF WaitsInv, ProbesUnfinished
  <2>4. Refresh \in Owners
    BY DEF Owners
  <2>5. CASE o = Refresh
    <3>1. RefreshSettled(h)
      BY <2>1, <2>5
    <3>2. CallsAwait'
      BY <3>1 DEF WaitsInv, CallsAwait, RefreshSettled
    <3>3. FlagHasReason'
      <4>1. CASE \A other \in Hashes \ {h} : probe[Refresh][other] = None
        BY <3>1, <4>1 DEF RefreshSettled, FlagHasReason
      <4>2. ASSUME NEW other \in Hashes \ {h}, probe[Refresh][other] # None
            PROVE  FlagHasReason'
        BY <2>2, <2>4, <4>2 DEF FlagHasReason
      <4> QED BY <4>1, <4>2
    <3> QED BY <2>3, <3>2, <3>3 DEF WaitsInv
  <2>6. CASE o # Refresh
    <3>1. o \in Calls /\ Settled(o, h)
      BY <2>1, <2>6 DEF Owners
    <3>2. CallsAwait'
      BY <3>1, SettledAwaits DEF WaitsInv
    <3>3. refreshing' = refreshing
      BY <3>1 DEF Settled
    <3>4. FlagHasReason'
      BY <2>1, <2>2, <2>4, <2>6, <3>3 DEF WaitsInv, FlagHasReason
    <3> QED BY <2>3, <3>2, <3>4 DEF WaitsInv
  <2> QED BY <2>5, <2>6
<1> QED BY <1>1, <1>2

\* The refresh begins: every one of its candidates has its probe.
LEMMA RefreshWaits ==
  ASSUME TypeOK, ProbesUnfinished, NEW candidates \in SUBSET Hashes, candidates # {},
         probe' = [probe EXCEPT ![Refresh] = Refreshing(candidates)]
  PROVE  ProbesUnfinished' /\ \E h \in Hashes : probe'[Refresh][h] # None
<1>0. Refresh \in Owners
  BY DEF Owners
<1>1. Refreshing(candidates) \in [Hashes -> Probe \cup {None}]
  BY RefreshingIsTyped
<1>2. \A o \in Owners : probe'[o] = IF o = Refresh THEN Refreshing(candidates) ELSE probe[o]
  BY DEF TypeOK
<1>3. \A h \in Hashes :
        Refreshing(candidates)[h] # None => Unfinished(Refreshing(candidates)[h])
  BY ProbingIsUnfinished DEF Refreshing
<1>4. ProbesUnfinished'
  BY <1>2, <1>3 DEF ProbesUnfinished
<1>5. PICK h \in candidates : h \in Hashes
  OBVIOUS
<1>6. Refreshing(candidates)[h] = Started(h, None)
  BY <1>5 DEF Refreshing, Probing
<1>7. Started(h, None) \in Probe
  BY <1>5, StartedIsProbe DEF Shared
<1>8. probe'[Refresh][h] # None
  BY <1>0, <1>2, <1>6, <1>7, NoneAssumption
<1> QED BY <1>4, <1>5, <1>8

LEMMA WaitsKept ==
  ASSUME TypeOK, WaitsInv, [Next]_vars PROVE WaitsInv'
<1>1. CASE DhtSettles
  <2>1. CASE refreshing = {}
    BY <1>1, <2>1 DEF DhtSettles, WaitsInv, ProbesUnfinished, CallsAwait, FlagHasReason
  <2>2. CASE refreshing # {}
    <3>1. ProbesUnfinished' /\ \E h \in Hashes : probe'[Refresh][h] # None
      BY <1>1, <2>2, RefreshWaits DEF DhtSettles, WaitsInv, TypeOK
    <3> QED BY <1>1, <3>1 DEF DhtSettles, WaitsInv, CallsAwait, FlagHasReason
  <2> QED BY <2>1, <2>2
<1>2. CASE Destroy \/ (\E h \in Hashes : Expires(h)) \/ UNCHANGED vars
  BY <1>2 DEF Destroy, Expires, vars, WaitsInv, ProbesUnfinished, CallsAwait, FlagHasReason
<1>3. ASSUME NEW c \in Calls, Rank(c) PROVE WaitsInv'
  <2>1. \A d \in Calls : phase'[d] = "probing" => phase[d] = "probing"
    BY <1>3 DEF Rank, TypeOK
  <2> QED BY <1>3, <2>1 DEF Rank, WaitsInv, ProbesUnfinished, CallsAwait, FlagHasReason
<1>4. ASSUME NEW c \in Calls, AnswerFromShared(c) PROVE WaitsInv'
  <2>1. \A d \in Calls : phase'[d] = "probing" => phase[d] = "probing"
    BY <1>4 DEF AnswerFromShared, TypeOK
  <2>2. CallsAwait'
    BY <1>4, <2>1 DEF AnswerFromShared, WaitsInv, CallsAwait
  <2>3. Asked[c] \in SUBSET Hashes /\ Asked[c] # {}
    BY RequestsAssumption
  <2>4. CASE refreshing = {} /\ dhtSettled
    <3>1. probe' = [probe EXCEPT ![Refresh] = Refreshing(Asked[c])]
      BY <1>4, <2>4 DEF AnswerFromShared, Refreshed
    <3>2. ProbesUnfinished' /\ \E h \in Hashes : probe'[Refresh][h] # None
      BY <2>3, <3>1, RefreshWaits DEF WaitsInv
    <3> QED BY <2>2, <3>2 DEF WaitsInv, FlagHasReason
  <2>5. CASE ~(refreshing = {} /\ dhtSettled)
    <3>1. probe' = probe /\ dhtSettled' = dhtSettled
      BY <1>4, <2>5 DEF AnswerFromShared, Refreshed
    <3>2. refreshing # {} => refreshing' = refreshing
      BY <1>4 DEF AnswerFromShared, Refreshed
    <3> QED BY <2>2, <2>5, <3>1, <3>2 DEF WaitsInv, ProbesUnfinished, FlagHasReason
  <2> QED BY <2>4, <2>5
<1>5. ASSUME NEW c \in Calls, StartProbing(c) PROVE WaitsInv'
  <2>1. PICK reply \in [Asked[c] -> Shared] : probe' = [probe EXCEPT ![c] = Probing(reply)]
    BY <1>5 DEF StartProbing
  <2>2. c \in Owners /\ Refresh \in Owners /\ c # Refresh
    BY RequestsAssumption DEF Owners
  <2>3. \A o \in Owners : probe'[o] = IF o = c THEN Probing(reply) ELSE probe[o]
    BY <2>1, <2>2 DEF TypeOK
  <2>4. \A h \in Hashes : Probing(reply)[h] # None => Unfinished(Probing(reply)[h])
    BY ProbingIsUnfinished
  <2>5. ProbesUnfinished'
    BY <2>3, <2>4 DEF WaitsInv, ProbesUnfinished
  <2>6. FlagHasReason'
    BY <1>5, <2>2, <2>3 DEF StartProbing, WaitsInv, FlagHasReason
  <2>7. \A d \in Calls : /\ waits'[d] = IF d = c THEN Asked[c] ELSE waits[d]
                         /\ d # c => phase'[d] = phase[d]
    BY <1>5 DEF StartProbing, TypeOK
  <2>8. CallsAwait'
    BY <2>7, RequestsAssumption DEF WaitsInv, CallsAwait
  <2> QED BY <2>5, <2>6, <2>8 DEF WaitsInv
<1>6. ASSUME NEW c \in Calls, NEW h \in Hashes, TimesOut(c, h) PROVE WaitsInv'
  <2>1. CallsAwait' /\ refreshing' = refreshing
    BY <1>6, SettledAwaits DEF TimesOut, Settled, WaitsInv
  <2> QED BY <1>6, <2>1 DEF TimesOut, WaitsInv, ProbesUnfinished, FlagHasReason
<1>7. ASSUME NEW o \in Owners, NEW h \in Hashes, probe[o][h] # None
      PROVE  /\ probe[o][h] \in Probe
             /\ probe[o][h].pending = 0 => probe[o][h].scraped
  BY <1>7 DEF TypeOK, WaitsInv, ProbesUnfinished, Unfinished
<1>8. ASSUME NEW o \in Owners, NEW h \in Hashes, TrackerEnds(o, h) PROVE WaitsInv'
  <2>1. probe[o][h] # None /\ probe[o][h] \in Probe /\ probe[o][h].pending > 0
    BY <1>7, <1>8 DEF TrackerEnds, TrackerSilent, TrackerAnswers
  <2>2. CountedDown(probe[o][h]) \in Probe
    BY <2>1, CountedDownIsProbe
  <2>4. CASE TrackerSilent(o, h)
    BY <2>1, <2>2, <2>4, LastTrackerEnds, BecomesWaits DEF TrackerSilent
  <2>5. ASSUME NEW count \in 0..MaxCount, TrackerAnswers(o, h, count) PROVE WaitsInv'
    <3> DEFINE q == [probe[o][h] EXCEPT !.best = Max({@, count}), !.answered = TRUE]
    <3>1. Answered(probe[o][h], count) = CountedDown(q)
      BY DEF Answered
    <3>2. CountedDown(q) \in Probe
      BY <2>1, <3>1, AnsweredIsProbe
    <3>3. probe[o][h].best \in Nat /\ count \in Nat /\ probe[o][h].best \in 0..MaxCount
      BY <2>1, Naturals DEF Probe
    <3>4. Max({probe[o][h].best, count}) \in 0..MaxCount
      BY <3>3, TwoNumbers
    <3>5. q \in Probe /\ q.pending > 0
      BY <2>1, <3>4 DEF Probe
    <3> HIDE DEF q
    <3>6. CountedDown(q).pending = 0 => CountedDown(q).scraped
      BY <3>5, LastTrackerEnds
    <3> QED BY <2>1, <2>5, <3>1, <3>2, <3>6, BecomesWaits DEF TrackerAnswers
  <2> QED BY <1>8, <2>4, <2>5 DEF TrackerEnds
<1>9. ASSUME NEW o \in Owners, NEW h \in Hashes, GraceOver(o, h) PROVE WaitsInv'
  <2>1. probe[o][h] # None /\ probe[o][h] \in Probe
    BY <1>7, <1>9 DEF GraceOver
  <2>2. /\ [probe[o][h] EXCEPT !.scraped = TRUE] \in Probe
        /\ [probe[o][h] EXCEPT !.scraped = TRUE].scraped
    BY <2>1 DEF Probe
  <2> QED BY <1>9, <2>1, <2>2, BecomesWaits DEF GraceOver
<1>10. ASSUME NEW o \in Owners, NEW h \in Hashes, WindowEnds(o, h) PROVE WaitsInv'
  <2>1. PICK count \in 0..MaxPeers : WindowCloses(o, h, count)
    BY <1>10 DEF WindowEnds
  <2>2. /\ probe[o][h] # None /\ probe[o][h] \in Probe
        /\ probe[o][h].pending = 0 => probe[o][h].scraped
    BY <1>7, <2>1 DEF WindowCloses
  <2> DEFINE q == [probe[o][h] EXCEPT !.peers = count]
  <2>3. q \in Probe /\ (q.pending = 0 => q.scraped)
    BY <2>2 DEF Probe
  <2>4. Becomes(o, h, q)
    BY <2>1 DEF WindowCloses
  <2> HIDE DEF q
  <2> QED BY <2>2, <2>3, <2>4, BecomesWaits
<1> QED
  BY <1>1, <1>2, <1>3, <1>4, <1>5, <1>6, <1>8, <1>9, <1>10
  DEF Next, SharedReplies, BudgetEnds, ProbeEnds

\* What the end of every call and of the refresh rests on, beside the timers:
\* a call that probes waits for a candidate, and while the flag of the refresh is
\* up, the bootstrap is awaited or one of its probes waits for a tracker or a
\* window, though probes, late trackers and grace timers end in any order.
SomethingIsAwaited ==
  /\ \A c \in Calls : phase[c] = "probing" => waits[c] # {}
  /\ refreshing # {} =>
       ~dhtSettled \/ \E h \in Hashes : probe[Refresh][h] # None /\ StillWaits(probe[Refresh][h])

\* Neither a call nor the refresh waits for nothing.
THEOREM NobodyWaitsForNothing == Spec => []SomethingIsAwaited
<1>1. Init => WaitsInv
  BY DEF Init, WaitsInv, ProbesUnfinished, CallsAwait, FlagHasReason
<1>2. TypeOK /\ WaitsInv /\ [Next]_vars => WaitsInv'
  BY WaitsKept
<1>3. TypeOK /\ WaitsInv => SomethingIsAwaited
  <2> SUFFICES ASSUME TypeOK, WaitsInv PROVE SomethingIsAwaited
    OBVIOUS
  <2>1. Refresh \in Owners
    BY DEF Owners
  <2>2. ASSUME NEW h \in Hashes, probe[Refresh][h] # None
        PROVE  StillWaits(probe[Refresh][h])
    <3>1. probe[Refresh][h] \in Probe /\ Unfinished(probe[Refresh][h])
      BY <2>1, <2>2 DEF TypeOK, WaitsInv, ProbesUnfinished
    <3> QED BY <3>1 DEF Unfinished, Complete, StillWaits, Probe
  <2> QED BY <2>2 DEF WaitsInv, CallsAwait, FlagHasReason, SomethingIsAwaited
<1> QED BY <1>1, <1>2, <1>3, TypeCorrect, PTL DEF Spec
=============================================================================
