-------------------------- MODULE VerificationProofs --------------------------
(* Theorems about Verification and the PeerTable it shares, for any number of  *)
(* calls, candidates and addresses: what a verdict rests on, however many      *)
(* pools race on one table and whichever timer speaks first.                   *)
EXTENDS Verification, FiniteSetTheorems, SequenceTheorems, TLAPS

-----------------------------------------------------------------------------
(* The table.                                                                  *)

\* An eviction removes some addresses, never more than there are.
LEMMA EvictCountFits == EvictCount \in Nat /\ EvictCount <= MaxAddrs
BY MaxAddrsAssumption DEF EvictCount

\* Touching an address keeps what is known of every other, or forgets it.
LEMMA TouchKeeps ==
  ASSUME NEW t \in Table, NEW a \in Addr
  PROVE  /\ Touch(t, a) \in Table
         /\ \A b \in Addr : Touch(t, a).at[b] \in {t.at[b], Fresh}
<1>1. Fresh \in Entry
  BY RttAssumption DEF Fresh, Entry
<1>2. t.order \in Seq(Addr) /\ t.at \in [Addr -> Entry]
  BY DEF Table
<1>3. CASE a \in Tracked(t)
  BY <1>2, <1>3 DEF Touch
<1>4. CASE a \notin Tracked(t)
  <2> DEFINE room == IF Len(t.order) >= MaxAddrs THEN Evict(t) ELSE t
  <2>1. Touch(t, a) = [room EXCEPT !.order = Append(@, a)]
    BY <1>4 DEF Touch
  <2>2. /\ room.order \in Seq(Addr) /\ room.at \in [Addr -> Entry]
        /\ room = [order |-> room.order, at |-> room.at]
        /\ \A b \in Addr : room.at[b] \in {t.at[b], Fresh}
    <3>1. CASE Len(t.order) >= MaxAddrs
      <4> DEFINE gone == {t.order[i] : i \in 1..EvictCount}
      <4>1. room = [order |-> SubSeq(t.order, EvictCount + 1, Len(t.order)),
                    at |-> [b \in Addr |-> IF b \in gone THEN Fresh ELSE t.at[b]]]
        BY <3>1 DEF Evict
      <4>2. SubSeq(t.order, EvictCount + 1, Len(t.order)) \in Seq(Addr)
        BY <1>2, EvictCountFits, SubSeqProperties
      <4> HIDE DEF gone, room
      <4>3. /\ room.order = SubSeq(t.order, EvictCount + 1, Len(t.order))
            /\ room.at = [b \in Addr |-> IF b \in gone THEN Fresh ELSE t.at[b]]
            /\ room = [order |-> room.order, at |-> room.at]
        BY <4>1
      <4>4. /\ room.at \in [Addr -> Entry]
            /\ \A b \in Addr : room.at[b] \in {t.at[b], Fresh}
        BY <1>1, <1>2, <4>3
      <4> QED BY <4>2, <4>3, <4>4
    <3>2. CASE ~(Len(t.order) >= MaxAddrs)
      BY <1>2, <3>2 DEF Table
    <3> QED BY <3>1, <3>2
  <2> HIDE DEF room
  <2>3. Append(room.order, a) \in Seq(Addr)
    BY <2>2
  <2>4. Touch(t, a) = [order |-> Append(room.order, a), at |-> room.at]
    BY <2>1, <2>2
  <2> QED BY <2>2, <2>3, <2>4 DEF Table
<1> QED BY <1>3, <1>4

\* What a connection shows changes the entry of its address only; no other
\* address becomes good by it.
LEMMA RecordKeeps ==
  ASSUME NEW t \in Table, NEW a \in Addr, NEW entry \in Entry,
         NEW u, u = [Touch(t, a) EXCEPT !.at[a] = entry]
  PROVE  /\ u \in Table
         /\ \A b \in Addr : b # a /\ IsGood(u, b) => IsGood(t, b)
<1>1. /\ Touch(t, a) \in Table
      /\ \A b \in Addr : Touch(t, a).at[b] \in {t.at[b], Fresh}
  BY TouchKeeps
<1>2. /\ u.order = Touch(t, a).order
      /\ u.at = [Touch(t, a).at EXCEPT ![a] = entry]
      /\ u = [order |-> u.order, at |-> u.at]
  BY <1>1 DEF Table
<1>3. u \in Table /\ u.at[a] = entry
  BY <1>1, <1>2 DEF Table
<1>4. \A b \in Addr : b # a => u.at[b] \in {t.at[b], Fresh}
  BY <1>1, <1>2 DEF Table
<1> QED BY <1>3, <1>4 DEF IsGood, Fresh

LEMMA SucceededKeeps ==
  ASSUME NEW t \in Table, NEW a \in Addr, NEW rtt \in Rtts, NEW when \in Nat
  PROVE  /\ Succeeded(t, a, rtt, when) \in Table
         /\ \A b \in Addr : b # a /\ IsGood(Succeeded(t, a, rtt, when), b) => IsGood(t, b)
<1> DEFINE u == Succeeded(t, a, rtt, when)
           e == Touch(t, a).at[a]
           better == [e EXCEPT !.ok = @ + 1]
           recent == [better EXCEPT !.lastOk = when]
           entry == [recent EXCEPT !.rtt = IF rtt < @ THEN rtt ELSE @]
<1>1. Touch(t, a) \in Table /\ e \in Entry
  BY TouchKeeps DEF Table
<1>2. u = [Touch(t, a) EXCEPT !.at[a] = entry]
  BY <1>1 DEF Succeeded, Table, Entry
<1> HIDE DEF u, e
<1>3. entry \in Entry
  <2>1. better \in Entry
    BY <1>1 DEF Entry
  <2> HIDE DEF better
  <2>2. recent \in Entry
    BY <2>1 DEF Entry
  <2> HIDE DEF recent
  <2>3. recent.rtt \in Rtts \cup {NoRtt}
    BY <2>2 DEF Entry
  <2> QED BY <2>2, <2>3 DEF Entry
<1> HIDE DEF entry
<1>4. u \in Table /\ \A b \in Addr : b # a /\ IsGood(u, b) => IsGood(t, b)
  BY <1>2, <1>3, RecordKeeps
<1> QED BY <1>4 DEF u

\* A peer that did not serve the torrent is no better for it.
LEMMA FailedKeeps ==
  ASSUME NEW t \in Table, NEW a \in Addr, NEW connected \in BOOLEAN, NEW when \in Nat
  PROVE  /\ Failed(t, a, connected, when) \in Table
         /\ \A b \in Addr : IsGood(Failed(t, a, connected, when), b) => IsGood(t, b)
<1> DEFINE u == Failed(t, a, connected, when)
           e == Touch(t, a).at[a]
           entry == IF connected THEN [e EXCEPT !.lastOk = when]
                    ELSE [e EXCEPT !.fail = @ + 1, !.lastFail = when]
<1>1. Touch(t, a) \in Table /\ e \in Entry /\ e \in {t.at[a], Fresh}
  BY TouchKeeps DEF Table
<1>3. u = [Touch(t, a) EXCEPT !.at[a] = entry]
  BY <1>1 DEF Failed, Table, Entry
<1> HIDE DEF u, e
<1>2. entry \in Entry /\ entry.ok = e.ok
  <2>1. CASE connected
    BY <1>1, <2>1 DEF Entry
  <2>2. CASE ~connected
    <3>1. entry = [ok |-> e.ok, fail |-> e.fail + 1, lastOk |-> e.lastOk, lastFail |-> when,
                   rtt |-> e.rtt]
      BY <1>1, <2>2 DEF Entry
    <3>2. /\ e.ok \in Nat /\ e.fail + 1 \in Nat /\ e.lastOk \in Nat
          /\ e.rtt \in Rtts \cup {NoRtt}
      BY <1>1 DEF Entry
    <3> HIDE DEF entry
    <3> QED BY <3>1, <3>2 DEF Entry
  <2> QED BY <2>1, <2>2
<1>4. entry.ok > 0 => IsGood(t, a)
  BY <1>1, <1>2 DEF IsGood, Fresh
<1> HIDE DEF entry
<1>5. u.at[a] = entry
  BY <1>1, <1>3 DEF Table
<1>6. u \in Table /\ \A b \in Addr : b # a /\ IsGood(u, b) => IsGood(t, b)
  BY <1>2, <1>3, RecordKeeps
<1>7. IsGood(u, a) => IsGood(t, a)
  BY <1>4, <1>5 DEF IsGood
<1> QED BY <1>6, <1>7 DEF u
-----------------------------------------------------------------------------
(* What holds of a candidate, whatever the others do.                          *)

\* The addresses its pool has taken from the list so far.
Taken(c) == {ordered[c][i] : i \in 1..(next[c] - 1)}

\* The list has no address twice, and none that rank() did not find.
ListSound(c) ==
  /\ IsInjective(ordered[c])
  /\ Range(ordered[c]) \subseteq Range(ranked[c].peers)
  /\ next[c] <= Len(ordered[c]) + 1

\* Whatever was taken is being asked, refused or proved itself; a race goes on
\* until somebody proves or the list is through.
PoolSound(c) ==
  /\ flight[c] \cup refusals[c] \cup proofs[c] = Taken(c)
  /\ flight[c] \cap (refusals[c] \cup proofs[c]) = {}
  /\ IsFiniteSet(flight[c])
  /\ Cardinality(flight[c]) <= Concurrency
  /\ flight[c] = {} /\ winner[c] = NoPeer => next[c] > Len(ordered[c])
  /\ winner[c] = NoPeer => proofs[c] = {}
  /\ winner[c] # NoPeer => winner[c] \in proofs[c]

\* What a verdict rests on.
VerdictSound(c) ==
  result[c] # NoResult =>
    /\ result[c].verdict = "verified" => winner[c] # NoPeer
    /\ result[c].refuted =>
         /\ flight[c] = {} /\ winner[c] = NoPeer /\ ~result[c].timedOut
         /\ result[c].verdict = "reachable"

\* Nothing is known of a candidate before its call starts.
UntouchedBefore(c) ==
  CallOf[c] \notin started =>
    /\ ordered[c] = <<>> /\ next[c] = 1
    /\ flight[c] = {} /\ refusals[c] = {} /\ proofs[c] = {}
    /\ winner[c] = NoPeer /\ result[c] = NoResult

CandidateInv(c) == ListSound(c) /\ PoolSound(c) /\ VerdictSound(c) /\ UntouchedBefore(c)

IInv == TypeOK /\ KnownGoodServed /\ \A c \in Candidate : CandidateInv(c)

\* A verdict has a type, and is verified only on a proof; it refutes only when
\* the race was lost.
LEMMA JudgeIs ==
  ASSUME TypeOK, NEW c \in Candidate, NEW asked \in BOOLEAN, NEW proved \in BOOLEAN,
         NEW timedOut \in BOOLEAN
  PROVE  LET r == Judge(c, asked, proved, timedOut)
         IN /\ r \in Result /\ r # NoResult
            /\ r.verdict = "verified" => proved
            /\ r.refuted => asked /\ ~proved /\ ~timedOut /\ r.verdict = "reachable"
            /\ r.timedOut = timedOut
<1>1. ranked[c].score \in Nat
  BY DEF TypeOK, RankEntry
<1>2. Damped(ranked[c].score) \in Nat
  BY <1>1 DEF Damped
<1>3. VerdictOf(c, proved) \in Verdict /\ (VerdictOf(c, proved) = "verified" => proved)
  BY DEF VerdictOf, Verdict
<1>4. Refuted(c, asked, proved, timedOut) \in BOOLEAN
      /\ (Refuted(c, asked, proved, timedOut) => asked /\ ~proved /\ ~timedOut)
  BY DEF Refuted
<1>9. Refuted(c, asked, proved, timedOut) => VerdictOf(c, proved) = "reachable"
  <2>1. ranked[c].peers = <<>> => Len(ranked[c].peers) = 0
    OBVIOUS
  <2>2. ~(0 >= RefutationMinPeers)
    BY PoolAssumption
  <2> QED BY <2>1, <2>2 DEF Refuted, VerdictOf
<1> DEFINE refuted == Refuted(c, asked, proved, timedOut)
           verdict == VerdictOf(c, proved)
           score == IF refuted THEN Damped(ranked[c].score) ELSE ranked[c].score
<1>5. score \in Nat
  BY <1>1, <1>2
<1>6. Judge(c, asked, proved, timedOut)
        = [verdict |-> verdict, refuted |-> refuted, timedOut |-> timedOut, score |-> score]
  BY DEF Judge
<1> HIDE DEF refuted, verdict, score
<1>7. Judge(c, asked, proved, timedOut) \in Result
  BY <1>3, <1>4, <1>5, <1>6 DEF Result, refuted, verdict
<1>8. /\ Judge(c, asked, proved, timedOut).verdict = verdict
      /\ Judge(c, asked, proved, timedOut).refuted = refuted
      /\ Judge(c, asked, proved, timedOut).timedOut = timedOut
  BY <1>6
<1> QED BY <1>3, <1>4, <1>7, <1>8, <1>9, NoResultAssumption DEF refuted, verdict

LEMMA InitEstablishes == Init => IInv
<1> SUFFICES ASSUME Init PROVE IInv
  OBVIOUS
<1>1. ranked \in [Candidate -> RankEntry]
  <2>1. \A c \in Candidate : ranked[c] \in Rankable[c] /\ Rankable[c] \subseteq RankEntry
    BY RankableAssumption DEF Init
  <2>2. ranked \in [Candidate -> UNION Range(Rankable)]
    BY DEF Init
  <2> QED BY <2>1, <2>2
<1>2. EmptyTable \in Table /\ \A a \in Addr : ~IsGood(EmptyTable, a)
  BY RttAssumption DEF EmptyTable, Table, Entry, Fresh, IsGood
<1>3. TypeOK
  BY <1>1, <1>2 DEF Init, TypeOK
<1>4. KnownGoodServed
  BY <1>2 DEF Init, KnownGoodServed
<1>5. ASSUME NEW c \in Candidate PROVE CandidateInv(c)
  <2>1. /\ ordered[c] = <<>> /\ next[c] = 1 /\ flight[c] = {} /\ refusals[c] = {}
        /\ proofs[c] = {} /\ winner[c] = NoPeer /\ result[c] = NoResult
    BY DEF Init
  <2>2. ListSound(c)
    BY <2>1 DEF ListSound, IsInjective, Range
  <2>3. Taken(c) = {}
    BY <2>1 DEF Taken
  <2>4. PoolSound(c)
    BY <2>1, <2>3, FS_EmptySet, PoolAssumption DEF PoolSound
  <2> QED BY <2>1, <2>2, <2>4 DEF CandidateInv, VerdictSound, UntouchedBefore
<1> QED BY <1>3, <1>4, <1>5 DEF IInv
-----------------------------------------------------------------------------
(* Every step keeps it.                                                        *)

\* A candidate no step touches.
LEMMA OthersKeep ==
  ASSUME NEW d \in Candidate, CandidateInv(d), started \subseteq started',
         ranked' = ranked,
         ordered'[d] = ordered[d], next'[d] = next[d], flight'[d] = flight[d],
         winner'[d] = winner[d], result'[d] = result[d], refusals'[d] = refusals[d],
         proofs'[d] = proofs[d]
  PROVE  CandidateInv(d)'
<1>1. Taken(d)' = Taken(d)
  BY DEF Taken
<1>2. ListSound(d)' /\ PoolSound(d)'
  BY <1>1 DEF CandidateInv, ListSound, PoolSound
<1>3. VerdictSound(d)' /\ UntouchedBefore(d)'
  BY DEF CandidateInv, VerdictSound, UntouchedBefore
<1> QED BY <1>2, <1>3 DEF CandidateInv

\* The first addresses of a list are no more than they are.
LEMMA WaveIsSmall ==
  ASSUME NEW list \in Seq(Addr), NEW n \in Nat, n <= Len(list)
  PROVE  LET wave == {list[i] : i \in 1..n}
         IN IsFiniteSet(wave) /\ Cardinality(wave) <= n
<1> DEFINE wave == {list[i] : i \in 1..n}
           f == [i \in 1..n |-> list[i]]
<1>1. f \in Surjection(1..n, wave)
  BY DEF Surjection
<1>2. ExistsSurjection(1..n, wave)
  BY <1>1 DEF ExistsSurjection
<1> HIDE DEF wave
<1>3. IsFiniteSet(wave) /\ Cardinality(wave) <= n
  BY <1>2, FS_NatSurjection, FS_SurjCardinalityBound
<1> QED BY <1>3 DEF wave

LEMMA FirstWaveFits ==
  ASSUME NEW list \in Seq(Addr)
  PROVE  /\ FirstWave(list) \in Nat
         /\ FirstWave(list) <= Len(list) /\ FirstWave(list) <= Concurrency
         /\ FirstWave(list) = 0 => Len(list) = 0
BY PoolAssumption DEF FirstWave, Lower

LEMMA StartVerifyingPreserves ==
  ASSUME IInv, NEW k \in Call, StartVerifying(k)
  PROVE  IInv'
<1> USE DEF IInv
<1> DEFINE mine == CandidatesOf(k)
           wave(l) == FirstWave(l)
<1>1. PICK list \in [mine -> AddrLists(MaxPeers)] :
        /\ k \notin started
        /\ \A c \in mine : list[c] \in Rankings(table, ranked[c].peers, MaxPeers, now)
        /\ started' = started \cup {k}
        /\ timed' \in {timed, timed \cup {k}}
        /\ ordered' = [c \in Candidate |-> IF c \in mine THEN list[c] ELSE ordered[c]]
        /\ next' = [c \in Candidate |-> IF c \in mine THEN FirstWave(list[c]) + 1 ELSE next[c]]
        /\ flight' = [c \in Candidate |-> IF c \in mine
                                          THEN {list[c][i] : i \in 1..FirstWave(list[c])}
                                          ELSE flight[c]]
        /\ result' = [c \in Candidate |-> IF c \in mine /\ list[c] = <<>>
                                          THEN Judge(c, TRUE, FALSE, FALSE)
                                          ELSE result[c]]
        /\ UNCHANGED <<table, now, ranked, winner, refusals, proofs>>
  BY DEF StartVerifying
<1>2. ASSUME NEW c \in mine
      PROVE  /\ c \in Candidate /\ CallOf[c] = k
             /\ list[c] \in Seq(Addr) /\ IsInjective(list[c])
             /\ Range(list[c]) \subseteq Range(ranked[c].peers)
  <2>1. list[c] \in AddrLists(MaxPeers)
    BY <1>1
  <2>2. IsInjective(list[c]) /\ \E n \in 0..MaxPeers : list[c] \in [1..n -> Addr]
    BY <2>1 DEF AddrLists
  <2>3. list[c] \in Seq(Addr)
    BY <2>2, PoolAssumption
  <2>4. list[c] \in Rankings(table, ranked[c].peers, MaxPeers, now)
    BY <1>1
  <2>5. Range(list[c]) \subseteq Range(ranked[c].peers)
    BY <2>4 DEF Rankings
  <2> QED BY <2>2, <2>3, <2>5 DEF CandidatesOf
<1>3. ASSUME NEW c \in mine
      PROVE  /\ FirstWave(list[c]) \in Nat
             /\ FirstWave(list[c]) <= Len(list[c]) /\ FirstWave(list[c]) <= Concurrency
             /\ FirstWave(list[c]) = 0 => Len(list[c]) = 0
             /\ Len(list[c]) \in Nat
             /\ {list[c][i] : i \in 1..FirstWave(list[c])} \subseteq Addr
  <2>1. list[c] \in Seq(Addr)
    BY <1>2
  <2>2. /\ FirstWave(list[c]) \in Nat
        /\ FirstWave(list[c]) <= Len(list[c]) /\ FirstWave(list[c]) <= Concurrency
        /\ FirstWave(list[c]) = 0 => Len(list[c]) = 0
    BY <2>1, FirstWaveFits
  <2> QED BY <2>1, <2>2
<1>4. ASSUME NEW c \in mine
      PROVE  LET r == Judge(c, TRUE, FALSE, FALSE)
             IN /\ r \in Result /\ r # NoResult /\ r.verdict # "verified" /\ ~r.timedOut
                /\ r.refuted => r.verdict = "reachable"
  BY <1>2, JudgeIs
<1>5. TypeOK'
  <2>1. ordered' \in [Candidate -> Seq(Addr)]
    BY <1>1, <1>2 DEF TypeOK
  <2>2. next' \in [Candidate -> Nat \ {0}]
    BY <1>1, <1>3 DEF TypeOK
  <2>3. flight' \in [Candidate -> SUBSET Addr]
    BY <1>1, <1>3 DEF TypeOK
  <2>4. result' \in [Candidate -> Result \cup {NoResult}]
    BY <1>1, <1>4 DEF TypeOK
  <2>5. started' \subseteq Call /\ timed' \subseteq started'
    BY <1>1 DEF TypeOK
  <2> QED BY <1>1, <2>1, <2>2, <2>3, <2>4, <2>5 DEF TypeOK
<1>6. KnownGoodServed'
  BY <1>1 DEF KnownGoodServed
<1>7. ASSUME NEW c \in Candidate, c \notin mine PROVE CandidateInv(c)'
  BY <1>1, <1>7, OthersKeep
<1>8. ASSUME NEW c \in mine PROVE CandidateInv(c)'
  <2>1. /\ c \in Candidate /\ CallOf[c] \notin started
        /\ refusals[c] = {} /\ proofs[c] = {} /\ winner[c] = NoPeer /\ result[c] = NoResult
    BY <1>1, <1>2 DEF CandidateInv, UntouchedBefore
  <2>2. /\ ordered'[c] = list[c] /\ next'[c] = FirstWave(list[c]) + 1
        /\ flight'[c] = {list[c][i] : i \in 1..FirstWave(list[c])}
        /\ result'[c] = IF list[c] = <<>> THEN Judge(c, TRUE, FALSE, FALSE) ELSE NoResult
        /\ refusals'[c] = {} /\ proofs'[c] = {} /\ winner'[c] = NoPeer
        /\ ranked' = ranked
    BY <1>1, <2>1
  <2>3. next'[c] - 1 = FirstWave(list[c]) /\ next'[c] > 0
    BY <1>3, <2>2
  <2>4. Taken(c)' = flight'[c]
    <3>1. Taken(c)' = {ordered'[c][i] : i \in 1..(next'[c] - 1)}
      BY DEF Taken
    <3> QED BY <2>2, <2>3, <3>1
  <2>5. ListSound(c)'
    BY <1>2, <1>3, <2>2 DEF ListSound
  <2>6. IsFiniteSet(flight'[c]) /\ Cardinality(flight'[c]) <= Concurrency
    <3>1. /\ IsFiniteSet(flight'[c]) /\ Cardinality(flight'[c]) <= FirstWave(list[c])
      BY <1>2, <1>3, <2>2, WaveIsSmall
    <3>2. Cardinality(flight'[c]) \in Nat
      BY <3>1, FS_CardinalityType
    <3> QED BY <1>3, <3>1, <3>2, PoolAssumption
  <2>7. flight'[c] = {} => Len(list[c]) = 0
    <3>1. ASSUME FirstWave(list[c]) # 0 PROVE list[c][1] \in flight'[c]
      BY <1>3, <2>2, <3>1
    <3> QED BY <1>3, <3>1
  <2>8. PoolSound(c)'
    <3>1. flight'[c] = {} => next'[c] > Len(ordered'[c])
      BY <2>2, <2>3, <2>7
    <3> QED BY <2>2, <2>4, <2>6, <3>1 DEF PoolSound
  <2>9. VerdictSound(c)'
    <3>1. CASE list[c] = <<>>
      <4>1. flight'[c] = {}
        BY <1>3, <2>2, <3>1
      <4> QED BY <1>4, <2>2, <3>1, <4>1 DEF VerdictSound
    <3>2. CASE list[c] # <<>>
      BY <2>2, <3>2 DEF VerdictSound
    <3> QED BY <3>1, <3>2
  <2>10. UntouchedBefore(c)'
    BY <1>1, <1>2 DEF UntouchedBefore
  <2> QED BY <2>5, <2>8, <2>9, <2>10 DEF CandidateInv
<1> QED BY <1>5, <1>6, <1>7, <1>8
LEMMA StartRankingPreserves ==
  ASSUME IInv, NEW k \in Call, StartRanking(k)
  PROVE  IInv'
<1> USE DEF IInv
<1>1. /\ k \notin started /\ started' = started \cup {k}
      /\ \A c \in Candidate : result'[c] = IF CallOf[c] = k THEN Judge(c, FALSE, FALSE, FALSE)
                                           ELSE result[c]
      /\ UNCHANGED <<table, now, ranked, timed, ordered, next, flight, winner, refusals, proofs>>
  BY DEF StartRanking, CandidatesOf, pool
<1>2. ASSUME NEW c \in Candidate
      PROVE  LET r == Judge(c, FALSE, FALSE, FALSE)
             IN r \in Result /\ r # NoResult /\ r.verdict # "verified" /\ ~r.refuted
  BY JudgeIs
<1>3. TypeOK'
  <2>1. result' \in [Candidate -> Result \cup {NoResult}]
    BY <1>2 DEF StartRanking, TypeOK
  <2> QED BY <1>1, <2>1 DEF TypeOK
<1>4. KnownGoodServed'
  BY <1>1 DEF KnownGoodServed
<1>5. ASSUME NEW c \in Candidate PROVE CandidateInv(c)'
  <2>1. CASE CallOf[c] # k
    BY <1>1, <2>1, OthersKeep
  <2>2. CASE CallOf[c] = k
    <3>1. result'[c] = Judge(c, FALSE, FALSE, FALSE) /\ CallOf[c] \in started'
      BY <1>1, <2>2
    <3>2. VerdictSound(c)' /\ UntouchedBefore(c)'
      BY <1>2, <3>1 DEF VerdictSound, UntouchedBefore
    <3>3. Taken(c)' = Taken(c)
      BY <1>1 DEF Taken
    <3>4. ListSound(c)' /\ PoolSound(c)'
      BY <1>1, <3>3 DEF CandidateInv, ListSound, PoolSound
    <3> QED BY <3>2, <3>4 DEF CandidateInv
  <2> QED BY <2>1, <2>2
<1> QED BY <1>3, <1>4, <1>5

\* What the end of a connection makes of the results.
LEMMA SettledIs ==
  ASSUME TypeOK, NEW c \in Candidate, NEW open, NEW proved \in BOOLEAN,
         result' = Settled(c, open, proved)
  PROVE  /\ result' \in [Candidate -> Result \cup {NoResult}]
         /\ \A d \in Candidate : d # c => result'[d] = result[d]
         /\ result[c] # NoResult => result'[c] = result[c]
         /\ result'[c] # result[c] =>
              /\ open = {} /\ result'[c] # NoResult
              /\ result'[c].verdict = "verified" => proved
              /\ result'[c].refuted => ~proved /\ result'[c].verdict = "reachable"
              /\ ~result'[c].timedOut
<1> DEFINE r == Judge(c, TRUE, proved, FALSE)
<1>1. /\ r \in Result /\ r # NoResult
      /\ r.verdict = "verified" => proved
      /\ r.refuted => ~proved /\ r.verdict = "reachable"
      /\ r.timedOut = FALSE
  BY JudgeIs
<1> HIDE DEF r
<1>2. \/ open = {} /\ result[c] = NoResult /\ result' = [result EXCEPT ![c] = r]
      \/ result' = result
  BY DEF Settled, r
<1>3. result \in [Candidate -> Result \cup {NoResult}]
  BY DEF TypeOK
<1>4. CASE result' = result
  BY <1>3, <1>4
<1>5. CASE open = {} /\ result[c] = NoResult /\ result' = [result EXCEPT ![c] = r]
  <2>1. result'[c] = r /\ \A d \in Candidate : d # c => result'[d] = result[d]
    BY <1>3, <1>5
  <2>2. result' \in [Candidate -> Result \cup {NoResult}]
    BY <1>1, <1>3, <1>5
  <2> QED BY <1>1, <1>5, <2>1, <2>2
<1> QED BY <1>2, <1>4, <1>5

\* One connection fewer.
LEMMA OneFewer ==
  ASSUME NEW S, IsFiniteSet(S), NEW a \in S
  PROVE  /\ IsFiniteSet(S \ {a}) /\ Cardinality(S) \in Nat
         /\ Cardinality(S \ {a}) = Cardinality(S) - 1 /\ Cardinality(S \ {a}) \in Nat
BY FS_RemoveElement, FS_CardinalityType

\* A connection ends, and the list is not gone on with.
LEMMA EndedIsSound ==
  ASSUME TypeOK, NEW c \in Candidate, NEW a \in flight[c], CandidateInv(c),
         flight'[c] = flight[c] \ {a},
         UNCHANGED <<ranked, ordered, started>>, next'[c] = next[c],
         \/ refusals'[c] = refusals[c] \cup {a} /\ proofs'[c] = proofs[c]
         \/ refusals'[c] = refusals[c] /\ proofs'[c] = proofs[c] \cup {a}
  PROVE  /\ Taken(c)' = flight'[c] \cup refusals'[c] \cup proofs'[c]
         /\ flight'[c] \cap (refusals'[c] \cup proofs'[c]) = {}
         /\ IsFiniteSet(flight'[c]) /\ Cardinality(flight'[c]) <= Concurrency
         /\ ListSound(c)' /\ UntouchedBefore(c)'
<1>1. Taken(c)' = Taken(c)
  BY DEF Taken
<1>2. Taken(c) = flight[c] \cup refusals[c] \cup proofs[c]
      /\ flight[c] \cap (refusals[c] \cup proofs[c]) = {}
      /\ IsFiniteSet(flight[c]) /\ Cardinality(flight[c]) <= Concurrency
  BY DEF CandidateInv, PoolSound
<1>3. IsFiniteSet(flight'[c]) /\ Cardinality(flight'[c]) <= Concurrency
  BY <1>2, OneFewer, PoolAssumption
<1>4. CallOf[c] \in started
  BY DEF CandidateInv, UntouchedBefore
<1>5. ListSound(c)' /\ UntouchedBefore(c)'
  BY <1>4 DEF CandidateInv, ListSound, UntouchedBefore
<1>6. Taken(c)' = flight'[c] \cup refusals'[c] \cup proofs'[c]
  BY <1>1, <1>2
<1>7. flight'[c] \cap (refusals'[c] \cup proofs'[c]) = {}
  BY <1>2
<1> QED BY <1>3, <1>5, <1>6, <1>7

LEMMA ServePreserves ==
  ASSUME IInv, NEW c \in Candidate, NEW a \in Addr, NEW rtt \in Rtts, Serve(c, a, rtt)
  PROVE  IInv'
<1> USE DEF IInv
<1>1. /\ a \in flight[c] /\ winner[c] = NoPeer
      /\ table' = Succeeded(table, a, rtt, now)
      /\ winner' = [winner EXCEPT ![c] = a]
      /\ flight' = [flight EXCEPT ![c] = flight[c] \ {a}]
      /\ result' = Settled(c, flight[c] \ {a}, TRUE)
      /\ proofs' = [proofs EXCEPT ![c] = proofs[c] \cup {a}]
      /\ UNCHANGED <<now, ranked, started, timed, ordered, next, refusals>>
  BY DEF Serve, Racing
<1>2. /\ winner'[c] = a /\ flight'[c] = flight[c] \ {a} /\ proofs'[c] = proofs[c] \cup {a}
      /\ \A d \in Candidate : d # c =>
           winner'[d] = winner[d] /\ flight'[d] = flight[d] /\ proofs'[d] = proofs[d]
  BY <1>1 DEF TypeOK
<1>3. /\ result' \in [Candidate -> Result \cup {NoResult}]
      /\ \A d \in Candidate : d # c => result'[d] = result[d]
      /\ result[c] # NoResult => result'[c] = result[c]
      /\ result'[c] # result[c] => ~result'[c].refuted
  BY <1>1, SettledIs
<1>4. table' \in Table /\ \A b \in Addr : b # a /\ IsGood(table', b) => IsGood(table, b)
  BY <1>1, SucceededKeeps DEF TypeOK
<1>5. TypeOK'
  <2>1. winner' \in [Candidate -> Addr \cup {NoPeer}] /\ flight' \in [Candidate -> SUBSET Addr]
        /\ proofs' \in [Candidate -> SUBSET Addr]
    BY <1>1 DEF TypeOK
  <2> QED BY <1>1, <1>3, <1>4, <2>1 DEF TypeOK
<1>6. KnownGoodServed'
  <2> SUFFICES ASSUME NEW b \in Addr, IsGood(table', b)
               PROVE  \E d \in Candidate : b \in proofs'[d]
    BY DEF KnownGoodServed
  <2>1. CASE b = a
    BY <1>2, <2>1
  <2>2. CASE b # a
    <3>1. PICK d \in Candidate : b \in proofs[d]
      BY <1>4, <2>2 DEF KnownGoodServed
    <3> QED BY <1>2, <3>1
  <2> QED BY <2>1, <2>2
<1>7. ASSUME NEW d \in Candidate, d # c PROVE CandidateInv(d)'
  BY <1>1, <1>2, <1>3, <1>7, OthersKeep
<1>8. CandidateInv(c)'
  <2>1. /\ Taken(c)' = flight'[c] \cup refusals'[c] \cup proofs'[c]
        /\ flight'[c] \cap (refusals'[c] \cup proofs'[c]) = {}
        /\ IsFiniteSet(flight'[c]) /\ Cardinality(flight'[c]) <= Concurrency
        /\ ListSound(c)' /\ UntouchedBefore(c)'
    BY <1>1, <1>2, EndedIsSound
  <2>2. winner'[c] # NoPeer
    BY <1>2, NoPeerAssumption
  <2>3. PoolSound(c)'
    BY <1>2, <2>1, <2>2 DEF PoolSound
  <2>4. VerdictSound(c)'
    <3>1. result[c] # NoResult => ~result[c].refuted
      BY <1>1 DEF CandidateInv, VerdictSound
    <3> QED BY <1>3, <2>2, <3>1 DEF VerdictSound
  <2> QED BY <2>1, <2>3, <2>4 DEF CandidateInv
<1> QED BY <1>5, <1>6, <1>7, <1>8

LEMMA EndLatePreserves ==
  ASSUME IInv, NEW c \in Candidate, NEW a \in Addr, NEW served \in BOOLEAN, EndLate(c, a, served)
  PROVE  IInv'
<1> USE DEF IInv
<1>1. /\ a \in flight[c] /\ winner[c] # NoPeer
      /\ flight' = [flight EXCEPT ![c] = flight[c] \ {a}]
      /\ result' = Settled(c, flight[c] \ {a}, TRUE)
      /\ \/ /\ refusals' = [refusals EXCEPT ![c] = refusals[c] \cup {a}]
            /\ proofs' = [proofs EXCEPT ![c] = proofs[c]]
         \/ /\ refusals' = [refusals EXCEPT ![c] = refusals[c]]
            /\ proofs' = [proofs EXCEPT ![c] = proofs[c] \cup {a}]
      /\ UNCHANGED <<table, now, ranked, started, timed, ordered, next, winner>>
  BY DEF EndLate
<1>2. /\ flight'[c] = flight[c] \ {a}
      /\ \/ refusals'[c] = refusals[c] \cup {a} /\ proofs'[c] = proofs[c]
         \/ refusals'[c] = refusals[c] /\ proofs'[c] = proofs[c] \cup {a}
      /\ \A d \in Candidate : d # c =>
           flight'[d] = flight[d] /\ refusals'[d] = refusals[d] /\ proofs'[d] = proofs[d]
  BY <1>1 DEF TypeOK
<1>3. /\ result' \in [Candidate -> Result \cup {NoResult}]
      /\ \A d \in Candidate : d # c => result'[d] = result[d]
      /\ result[c] # NoResult => result'[c] = result[c]
      /\ result'[c] # result[c] => ~result'[c].refuted
  BY <1>1, SettledIs
<1>4. TypeOK'
  <2>1. \A f \in {flight, refusals, proofs} : f \in [Candidate -> SUBSET Addr]
    BY DEF TypeOK
  <2>2. /\ flight[c] \ {a} \in SUBSET Addr /\ refusals[c] \cup {a} \in SUBSET Addr
        /\ proofs[c] \cup {a} \in SUBSET Addr
        /\ refusals[c] \in SUBSET Addr /\ proofs[c] \in SUBSET Addr
    BY <2>1
  <2>3. flight' \in [Candidate -> SUBSET Addr]
    BY <1>1, <2>1, <2>2
  <2>4. refusals' \in [Candidate -> SUBSET Addr]
    BY <1>1, <2>1, <2>2
  <2>5. proofs' \in [Candidate -> SUBSET Addr]
    BY <1>1, <2>1, <2>2
  <2> QED BY <1>1, <1>3, <2>3, <2>4, <2>5 DEF TypeOK
<1>5. KnownGoodServed'
  <2>1. \A d \in Candidate : proofs[d] \subseteq proofs'[d]
    BY <1>2
  <2> QED BY <1>1, <2>1 DEF KnownGoodServed
<1>6. ASSUME NEW d \in Candidate, d # c PROVE CandidateInv(d)'
  BY <1>1, <1>2, <1>3, <1>6, OthersKeep
<1>7. CandidateInv(c)'
  <2>1. /\ Taken(c)' = flight'[c] \cup refusals'[c] \cup proofs'[c]
        /\ flight'[c] \cap (refusals'[c] \cup proofs'[c]) = {}
        /\ IsFiniteSet(flight'[c]) /\ Cardinality(flight'[c]) <= Concurrency
        /\ ListSound(c)' /\ UntouchedBefore(c)'
    BY <1>1, <1>2, EndedIsSound
  <2>2. winner'[c] = winner[c] /\ winner[c] # NoPeer /\ winner[c] \in proofs'[c]
    BY <1>1, <1>2 DEF CandidateInv, PoolSound
  <2>3. PoolSound(c)'
    BY <2>1, <2>2 DEF PoolSound
  <2>4. VerdictSound(c)'
    <3>1. result[c] # NoResult => ~result[c].refuted
      BY <1>1 DEF CandidateInv, VerdictSound
    <3> QED BY <1>3, <2>2, <3>1 DEF VerdictSound
  <2> QED BY <2>1, <2>3, <2>4 DEF CandidateInv
<1> QED BY <1>4, <1>5, <1>6, <1>7
\* A worker takes the next address of the list, which nobody has taken.
LEMMA NextIsNew ==
  ASSUME TypeOK, NEW c \in Candidate, CandidateInv(c), next[c] <= Len(ordered[c])
  PROVE  /\ ordered[c][next[c]] \in Addr
         /\ ordered[c][next[c]] \notin Taken(c)
         /\ {ordered[c][i] : i \in 1..next[c]} = Taken(c) \cup {ordered[c][next[c]]}
<1>1. ordered[c] \in Seq(Addr) /\ next[c] \in Nat \ {0} /\ Len(ordered[c]) \in Nat
  BY DEF TypeOK
<1>2. DOMAIN ordered[c] = 1..Len(ordered[c]) /\ next[c] \in DOMAIN ordered[c]
  BY <1>1
<1>3. \A i \in 1..(next[c] - 1) : i \in DOMAIN ordered[c] /\ i # next[c]
  BY <1>1, <1>2
<1>4. ordered[c][next[c]] \notin Taken(c)
  BY <1>2, <1>3 DEF Taken, CandidateInv, ListSound, IsInjective
<1>5. 1..next[c] = 1..(next[c] - 1) \cup {next[c]}
  BY <1>1
<1>6. {ordered[c][i] : i \in 1..next[c]} = Taken(c) \cup {ordered[c][next[c]]}
  BY <1>5 DEF Taken
<1> QED BY <1>1, <1>2, <1>4, <1>6

LEMMA RefusePreserves ==
  ASSUME IInv, NEW c \in Candidate, NEW a \in Addr, NEW connected \in BOOLEAN,
         Refuse(c, a, connected)
  PROVE  IInv'
<1> USE DEF IInv
<1> DEFINE more == next[c] <= Len(ordered[c])
           open == (flight[c] \ {a}) \cup (IF more THEN {ordered[c][next[c]]} ELSE {})
<1>1. /\ a \in flight[c] /\ winner[c] = NoPeer
      /\ table' = Failed(table, a, connected, now)
      /\ flight' = [flight EXCEPT ![c] = open]
      /\ next' = [next EXCEPT ![c] = IF more THEN next[c] + 1 ELSE next[c]]
      /\ result' = Settled(c, open, FALSE)
      /\ refusals' = [refusals EXCEPT ![c] = refusals[c] \cup {a}]
      /\ UNCHANGED <<now, ranked, started, timed, ordered, winner, proofs>>
  BY DEF Refuse, Racing
<1>2. /\ open \in SUBSET Addr
      /\ (IF more THEN next[c] + 1 ELSE next[c]) \in Nat \ {0}
      /\ next[c] \in Nat /\ Len(ordered[c]) \in Nat
  <2>1. flight[c] \subseteq Addr /\ next[c] \in Nat \ {0} /\ ordered[c] \in Seq(Addr)
    BY DEF TypeOK
  <2>2. more => ordered[c][next[c]] \in Addr
    BY NextIsNew
  <2> QED BY <2>1, <2>2
<1> HIDE DEF open
<1>3. /\ flight'[c] = open /\ refusals'[c] = refusals[c] \cup {a}
      /\ next'[c] = IF more THEN next[c] + 1 ELSE next[c]
      /\ \A d \in Candidate : d # c =>
           flight'[d] = flight[d] /\ refusals'[d] = refusals[d] /\ next'[d] = next[d]
  BY <1>1 DEF TypeOK
<1>4. /\ result' \in [Candidate -> Result \cup {NoResult}]
      /\ \A d \in Candidate : d # c => result'[d] = result[d]
      /\ result[c] # NoResult => result'[c] = result[c]
      /\ result'[c] # result[c] =>
           /\ open = {} /\ result'[c].verdict # "verified" /\ ~result'[c].timedOut
           /\ result'[c].refuted => result'[c].verdict = "reachable"
  BY <1>1, SettledIs
<1>5. table' \in Table /\ \A b \in Addr : IsGood(table', b) => IsGood(table, b)
  BY <1>1, FailedKeeps DEF TypeOK
<1>6. TypeOK'
  <2>1. flight' \in [Candidate -> SUBSET Addr]
    BY <1>1, <1>2 DEF TypeOK
  <2>2. refusals' \in [Candidate -> SUBSET Addr]
    BY <1>1 DEF TypeOK
  <2>3. next' \in [Candidate -> Nat \ {0}]
    BY <1>1, <1>2 DEF TypeOK
  <2> QED BY <1>1, <1>4, <1>5, <2>1, <2>2, <2>3 DEF TypeOK
<1>7. KnownGoodServed'
  BY <1>1, <1>5 DEF KnownGoodServed
<1>8. ASSUME NEW d \in Candidate, d # c PROVE CandidateInv(d)'
  BY <1>1, <1>3, <1>4, <1>8, OthersKeep
<1>9. CandidateInv(c)'
  <2>1. /\ flight[c] \cup refusals[c] \cup proofs[c] = Taken(c)
        /\ flight[c] \cap (refusals[c] \cup proofs[c]) = {}
        /\ IsFiniteSet(flight[c]) /\ Cardinality(flight[c]) <= Concurrency
        /\ proofs[c] = {}
    BY <1>1 DEF CandidateInv, PoolSound
  <2>2. CallOf[c] \in started
    BY <1>1 DEF CandidateInv, UntouchedBefore
  <2>3. UntouchedBefore(c)'
    BY <1>1, <2>2 DEF UntouchedBefore
  <2>4. ListSound(c)'
    BY <1>1, <1>2, <1>3 DEF CandidateInv, ListSound
  <2>5. VerdictSound(c)'
    <3>1. result[c] # NoResult => result[c].verdict # "verified" /\ ~result[c].refuted
      BY <1>1 DEF CandidateInv, VerdictSound
    <3> QED BY <1>1, <1>3, <1>4, <3>1 DEF VerdictSound
  <2>6. Taken(c)' = {ordered[c][i] : i \in 1..(next'[c] - 1)}
    BY <1>1 DEF Taken
  <2>7. PoolSound(c)'
    <3>1. CASE more
      <4> DEFINE x == ordered[c][next[c]]
      <4>1. open = (flight[c] \ {a}) \cup {x} /\ next'[c] - 1 = next[c]
        BY <1>2, <1>3, <3>1 DEF open
      <4>2. x \notin Taken(c) /\ {ordered[c][i] : i \in 1..next[c]} = Taken(c) \cup {x}
        BY <3>1, NextIsNew
      <4> HIDE DEF x
      <4>3. Taken(c)' = Taken(c) \cup {x}
        BY <2>6, <4>1, <4>2
      <4>4. flight'[c] \cup refusals'[c] \cup proofs'[c] = Taken(c)'
        BY <1>1, <1>3, <2>1, <4>1, <4>3
      <4>5. flight'[c] \cap (refusals'[c] \cup proofs'[c]) = {}
        BY <1>1, <1>3, <2>1, <4>1, <4>2
      <4>6. IsFiniteSet(flight'[c]) /\ Cardinality(flight'[c]) <= Concurrency
        <5>1. /\ IsFiniteSet(flight[c] \ {a}) /\ Cardinality(flight[c] \ {a}) \in Nat
              /\ Cardinality(flight[c] \ {a}) = Cardinality(flight[c]) - 1
              /\ Cardinality(flight[c]) \in Nat
          BY <1>1, <2>1, OneFewer
        <5>2. /\ IsFiniteSet(flight'[c])
              /\ Cardinality(flight'[c]) <= Cardinality(flight[c] \ {a}) + 1
              /\ Cardinality(flight'[c]) \in Nat
          <6> DEFINE rest == flight[c] \ {a}
          <6>1. flight'[c] = rest \cup {x}
            BY <1>3, <4>1
          <6>2. IsFiniteSet(rest) /\ Cardinality(rest) \in Nat
            BY <5>1
          <6> HIDE DEF rest
          <6>3. /\ IsFiniteSet(rest \cup {x})
                /\ Cardinality(rest \cup {x}) = IF x \in rest THEN Cardinality(rest)
                                                ELSE Cardinality(rest) + 1
            BY <6>2, FS_AddElement
          <6>4. /\ Cardinality(rest \cup {x}) <= Cardinality(rest) + 1
                /\ Cardinality(rest \cup {x}) \in Nat
            BY <6>2, <6>3
          <6> QED BY <6>1, <6>3, <6>4 DEF rest
        <5> QED BY <2>1, <5>1, <5>2, PoolAssumption
      <4>7. flight'[c] # {}
        BY <1>3, <4>1
      <4> QED BY <1>1, <2>1, <4>4, <4>5, <4>6, <4>7 DEF PoolSound
    <3>2. CASE ~more
      <4>1. open = flight[c] \ {a} /\ next'[c] = next[c]
        BY <1>3, <3>2 DEF open
      <4>2. Taken(c)' = Taken(c)
        BY <2>6, <4>1 DEF Taken
      <4>3. IsFiniteSet(flight'[c]) /\ Cardinality(flight'[c]) <= Concurrency
        <5>1. /\ IsFiniteSet(flight[c] \ {a}) /\ Cardinality(flight[c]) \in Nat
              /\ Cardinality(flight[c] \ {a}) = Cardinality(flight[c]) - 1
          BY <1>1, <2>1, OneFewer
        <5>2. flight'[c] = flight[c] \ {a}
          BY <1>3, <4>1
        <5> QED BY <2>1, <5>1, <5>2, PoolAssumption
      <4>4. next'[c] > Len(ordered'[c])
        BY <1>1, <1>2, <3>2, <4>1
      <4>5. flight'[c] \cup refusals'[c] \cup proofs'[c] = Taken(c)'
        BY <1>1, <1>3, <2>1, <4>1, <4>2
      <4>6. flight'[c] \cap (refusals'[c] \cup proofs'[c]) = {}
        BY <1>1, <1>3, <2>1, <4>1
      <4> QED BY <1>1, <2>1, <4>3, <4>4, <4>5, <4>6 DEF PoolSound
    <3> QED BY <3>1, <3>2
  <2> QED BY <2>3, <2>4, <2>5, <2>7 DEF CandidateInv
<1> QED BY <1>6, <1>7, <1>8, <1>9

LEMMA DeadlinePreserves ==
  ASSUME IInv, NEW c \in Candidate, Deadline(c)
  PROVE  IInv'
<1> USE DEF IInv
<1> DEFINE r == Judge(c, TRUE, FALSE, TRUE)
<1>1. /\ CallOf[c] \in timed /\ result[c] = NoResult
      /\ result' = [result EXCEPT ![c] = r]
      /\ UNCHANGED <<table, now, ranked, started, timed, ordered, next, flight, winner,
                     refusals, proofs>>
  BY DEF Deadline, DeadlineDue, pool
<1>2. r \in Result /\ r # NoResult /\ r.verdict # "verified" /\ ~r.refuted
  BY JudgeIs
<1> HIDE DEF r
<1>3. /\ result' \in [Candidate -> Result \cup {NoResult}] /\ result'[c] = r
      /\ \A d \in Candidate : d # c => result'[d] = result[d]
  BY <1>1, <1>2 DEF TypeOK
<1>4. TypeOK' /\ KnownGoodServed'
  BY <1>1, <1>3 DEF TypeOK, KnownGoodServed
<1>5. ASSUME NEW d \in Candidate, d # c PROVE CandidateInv(d)'
  BY <1>1, <1>3, <1>5, OthersKeep
<1>6. CandidateInv(c)'
  <2>1. CallOf[c] \in started
    BY <1>1 DEF TypeOK
  <2>2. Taken(c)' = Taken(c)
    BY <1>1 DEF Taken
  <2>3. ListSound(c)' /\ PoolSound(c)' /\ UntouchedBefore(c)'
    BY <1>1, <2>1, <2>2 DEF CandidateInv, ListSound, PoolSound, UntouchedBefore
  <2>4. VerdictSound(c)'
    BY <1>2, <1>3 DEF VerdictSound
  <2> QED BY <2>3, <2>4 DEF CandidateInv
<1> QED BY <1>4, <1>5, <1>6

LEMMA StepPreserves == IInv /\ [Next]_vars => IInv'
<1> SUFFICES ASSUME IInv, [Next]_vars PROVE IInv'
  OBVIOUS
<1>1. ASSUME NEW k \in Call, StartVerifying(k) \/ StartRanking(k) PROVE IInv'
  BY <1>1, StartVerifyingPreserves, StartRankingPreserves
<1>2. ASSUME NEW c \in Candidate, NEW a \in Addr, EndConnection(c, a) PROVE IInv'
  BY <1>2, ServePreserves, RefusePreserves, EndLatePreserves DEF EndConnection
<1>3. ASSUME NEW c \in Candidate, Deadline(c) PROVE IInv'
  BY <1>3, DeadlinePreserves
<1>4. CASE Tick \/ UNCHANGED vars
  <2>1. /\ now' \in Nat
        /\ UNCHANGED <<table, ranked, started, timed, ordered, next, flight, winner, result,
                       refusals, proofs>>
    BY <1>4 DEF Tick, vars, pool, IInv, TypeOK
  <2>2. TypeOK' /\ KnownGoodServed'
    BY <2>1 DEF IInv, TypeOK, KnownGoodServed
  <2>3. \A c \in Candidate : CandidateInv(c)'
    BY <2>1, OthersKeep DEF IInv
  <2> QED BY <2>2, <2>3 DEF IInv
<1> QED BY <1>1, <1>2, <1>3, <1>4 DEF Next
THEOREM Invariance == Spec => []IInv
BY InitEstablishes, StepPreserves, PTL DEF Spec

-----------------------------------------------------------------------------
(* What follows.                                                               *)

\* The table, the pools and the results keep their types, whatever is evicted,
\* asked twice over different torrents or answered late.
THEOREM TypeCorrect == Spec => []TypeOK
<1>1. IInv => TypeOK
  BY DEF IInv
<1> QED BY <1>1, Invariance, PTL

\* The pool's list is all there is to take.
LEMMA TakenIsListed ==
  ASSUME TypeOK, NEW c \in Candidate, ListSound(c)
  PROVE  /\ Taken(c) \subseteq Range(ordered[c])
         /\ next[c] > Len(ordered[c]) => Taken(c) = Range(ordered[c])
<1>1. ordered[c] \in Seq(Addr) /\ next[c] \in Nat \ {0} /\ Len(ordered[c]) \in Nat
  BY DEF TypeOK
<1>2. DOMAIN ordered[c] = 1..Len(ordered[c])
  BY <1>1
<1>3. next[c] - 1 <= Len(ordered[c])
  BY <1>1 DEF ListSound
<1>4. Taken(c) \subseteq Range(ordered[c])
  BY <1>1, <1>2, <1>3 DEF Taken, Range
<1>5. ASSUME next[c] > Len(ordered[c]) PROVE Taken(c) = Range(ordered[c])
  <2>1. next[c] - 1 = Len(ordered[c])
    BY <1>1, <1>3, <1>5
  <2> QED BY <1>2, <2>1 DEF Taken, Range
<1> QED BY <1>4, <1>5

\* A verified verdict rests on a proof of the candidate's own pool: on a shared
\* table, with any number of requests, no other pool's proof is taken for it.
THEOREM VerifiedRestsOnProof == Spec => []VerifiedOnlyOnProof
<1>1. IInv => VerifiedOnlyOnProof
  <2> SUFFICES ASSUME IInv, NEW c \in Candidate, result[c] # NoResult,
                      result[c].verdict = "verified"
               PROVE  winner[c] \in Range(ranked[c].peers) \cap proofs[c]
    BY DEF VerifiedOnlyOnProof
  <2>1. TypeOK /\ ListSound(c) /\ PoolSound(c) /\ VerdictSound(c)
    BY DEF IInv, CandidateInv
  <2>2. winner[c] \in proofs[c]
    BY <2>1 DEF VerdictSound, PoolSound
  <2>3. proofs[c] \subseteq Taken(c) /\ Taken(c) \subseteq Range(ordered[c])
    BY <2>1, TakenIsListed DEF PoolSound
  <2> QED BY <2>1, <2>2, <2>3 DEF ListSound
<1> QED BY <1>1, Invariance, PTL

\* A refuted verdict has asked every address on its list to the end.
THEOREM RefutedRestsOnRefusals == Spec => []RefutedMeansAllAsked
<1>1. IInv => RefutedMeansAllAsked
  <2> SUFFICES ASSUME IInv, NEW c \in Candidate, result[c] # NoResult, result[c].refuted
               PROVE  /\ Range(ordered[c]) \subseteq refusals[c]
                      /\ proofs[c] = {} /\ flight[c] = {} /\ ~result[c].timedOut
    BY DEF RefutedMeansAllAsked
  <2>1. TypeOK /\ ListSound(c) /\ PoolSound(c) /\ VerdictSound(c)
    BY DEF IInv, CandidateInv
  <2>2. flight[c] = {} /\ winner[c] = NoPeer /\ ~result[c].timedOut
    BY <2>1 DEF VerdictSound
  <2>3. proofs[c] = {} /\ next[c] > Len(ordered[c]) /\ Taken(c) = refusals[c]
    BY <2>1, <2>2 DEF PoolSound
  <2> QED BY <2>1, <2>2, <2>3, TakenIsListed
<1> QED BY <1>1, Invariance, PTL

\* An address the shared table promotes has served some torrent.
THEOREM GoodAddressesServed == Spec => []KnownGoodServed
<1>1. IInv => KnownGoodServed
  BY DEF IInv
<1> QED BY <1>1, Invariance, PTL

-----------------------------------------------------------------------------
(* The order of the list.                                                      *)

\* A strict total order on a set.
Orders(R, S) ==
  /\ \A x \in S : <<x, x>> \notin R
  /\ \A x, y, z \in S : <<x, y>> \in R /\ <<y, z>> \in R => <<x, z>> \in R
  /\ \A x, y \in S : x # y => <<x, y>> \in R \/ <<y, x>> \in R

SortedBy(list, R) == \A i, j \in DOMAIN list : i < j => <<list[i], list[j]>> \in R

\* An order on a finite set sorts it: an element's place is the number of those
\* up to and including it.
LEMMA SortedExists ==
  ASSUME NEW S, IsFiniteSet(S), NEW R, Orders(R, S)
  PROVE  \E list \in SetToSeqs(S) : SortedBy(list, R)
<1> USE DEF Orders
<1> DEFINE upTo(x) == {y \in S : y = x \/ <<y, x>> \in R}
           place == [x \in S |-> Cardinality(upTo(x))]
           places == 1..Cardinality(S)
<1>1. Cardinality(S) \in Nat
  BY FS_CardinalityType
<1>2. ASSUME NEW x \in S
      PROVE  IsFiniteSet(upTo(x)) /\ Cardinality(upTo(x)) \in places
  <2>1. upTo(x) \in SUBSET S /\ x \in upTo(x)
    OBVIOUS
  <2> HIDE DEF upTo
  <2>2. IsFiniteSet(upTo(x)) /\ Cardinality(upTo(x)) <= Cardinality(S)
    BY <2>1, FS_Subset
  <2>3. Cardinality(upTo(x)) \in Nat /\ Cardinality(upTo(x)) # 0
    BY <2>1, <2>2, FS_CardinalityType, FS_EmptySet
  <2> QED BY <1>1, <2>2, <2>3
<1>3. ASSUME NEW x \in S, NEW y \in S, <<x, y>> \in R
      PROVE  place[x] < place[y]
  <2>1. upTo(x) \subseteq upTo(y) /\ y \in upTo(y) /\ y \notin upTo(x)
    BY <1>3
  <2>2. place[x] = Cardinality(upTo(x)) /\ place[y] = Cardinality(upTo(y))
    OBVIOUS
  <2> HIDE DEF upTo, place
  <2>3. IsFiniteSet(upTo(y)) /\ Cardinality(upTo(x)) \in Nat /\ Cardinality(upTo(y)) \in Nat
    <3>1. /\ IsFiniteSet(upTo(y))
          /\ Cardinality(upTo(x)) \in places /\ Cardinality(upTo(y)) \in places
      BY <1>2
    <3> QED BY <1>1, <3>1
  <2>4. /\ Cardinality(upTo(x)) <= Cardinality(upTo(y))
        /\ Cardinality(upTo(y)) # Cardinality(upTo(x))
    BY <2>1, <2>3, FS_Subset
  <2> QED BY <2>2, <2>3, <2>4
<1>4. place \in [S -> places]
  BY <1>2
<1> HIDE DEF upTo, place
<1>5. IsFiniteSet(places) /\ Cardinality(places) = Cardinality(S)
  BY <1>1, FS_Interval
<1>6. \A x \in S : place[x] \in Nat
  BY <1>4
<1>7. place \in Injection(S, places)
  <2>1. ASSUME NEW x \in S, NEW y \in S, place[x] = place[y] PROVE x = y
    <3>1. place[x] \in Nat /\ place[y] \in Nat
      BY <1>6
    <3>2. ~(place[x] < place[y]) /\ ~(place[y] < place[x])
      BY <2>1, <3>1
    <3> QED BY <1>3, <3>2
  <2>2. \A x, y \in S : place[x] = place[y] => x = y
    BY <2>1
  <2> QED BY <1>4, <2>2 DEF Injection, IsInjective
<1>8. place \in Surjection(S, places)
  BY <1>5, <1>7, FS_Injection
<1>9. \A i \in places : \E x \in S : place[x] = i
  BY <1>8 DEF Surjection
<1> DEFINE at(i) == CHOOSE x \in S : place[x] = i
           list == [i \in places |-> at(i)]
<1>10. \A i \in places : at(i) \in S /\ place[at(i)] = i
  BY <1>9
<1> HIDE DEF at
<1>11. /\ list \in [places -> S]
       /\ \A i \in places : list[i] \in S /\ place[list[i]] = i
  BY <1>10
<1>12. DOMAIN list = places
  OBVIOUS
<1> HIDE DEF list
<1>13. \A i, j \in places : i # j => list[i] # list[j]
  BY <1>11
<1>14. list \in SetToSeqs(S)
  BY <1>11, <1>13 DEF SetToSeqs
<1>15. ASSUME NEW i \in places, NEW j \in places, i < j
       PROVE  <<list[i], list[j]>> \in R
  <2>1. list[i] \in S /\ list[j] \in S /\ place[list[i]] = i /\ place[list[j]] = j
    BY <1>11
  <2>2. list[i] # list[j] /\ ~(place[list[j]] < place[list[i]])
    BY <1>13, <1>15, <2>1
  <2> QED BY <1>3, <2>1, <2>2
<1> QED BY <1>12, <1>14, <1>15 DEF SortedBy

\* Once every candidate of a call has its verdict, their list is sorted.
LEMMA AssessedIsSorted ==
  ASSUME TypeOK, NEW k \in Call, Reported(k)
  PROVE  /\ \A i \in DOMAIN Assessed(k) : Assessed(k)[i] \in CandidatesOf(k)
         /\ \A i, j \in DOMAIN Assessed(k) :
              i < j => Before(Assessed(k)[i], Assessed(k)[j])
<1> DEFINE S == CandidatesOf(k)
           tier(c) == Tier(result[c])
           score(c) == result[c].score
           R == {p \in S \X S : Before(p[1], p[2])}
<1>1. S \subseteq Nat /\ IsFiniteSet(S)
  BY CandidateAssumption, FS_Subset DEF CandidatesOf
<1>2. ASSUME NEW c \in S PROVE tier(c) \in Nat /\ score(c) \in Nat
  <2>1. result[c] \in Result
    BY DEF Reported, TypeOK, CandidatesOf
  <2>2. score(c) \in Nat
    BY <2>1 DEF Result
  <2>3. tier(c) \in Nat
    BY DEF Tier
  <2> QED BY <2>2, <2>3
<1>3. \A c, d \in S :
        Before(c, d) <=> \/ tier(c) < tier(d)
                         \/ tier(c) = tier(d) /\ score(c) > score(d)
                         \/ tier(c) = tier(d) /\ score(c) = score(d) /\ c < d
  BY DEF Before
<1>4. \A c, d \in S : <<c, d>> \in R <=> Before(c, d)
  OBVIOUS
<1> HIDE DEF S, tier, score, R
<1>5. \A x \in S : <<x, x>> \notin R
  BY <1>1, <1>2, <1>3, <1>4
<1>6. ASSUME NEW x \in S, NEW y \in S, NEW z \in S, <<x, y>> \in R, <<y, z>> \in R
      PROVE  <<x, z>> \in R
  <2>1. /\ x \in Nat /\ y \in Nat /\ z \in Nat
        /\ tier(x) \in Nat /\ tier(y) \in Nat /\ tier(z) \in Nat
        /\ score(x) \in Nat /\ score(y) \in Nat /\ score(z) \in Nat
    BY <1>1, <1>2
  <2>2. Before(x, y) /\ Before(y, z)
    BY <1>4, <1>6
  <2>3. \/ tier(x) < tier(y)
        \/ tier(x) = tier(y) /\ score(x) > score(y)
        \/ tier(x) = tier(y) /\ score(x) = score(y) /\ x < y
    BY <1>3, <2>2
  <2>4. \/ tier(y) < tier(z)
        \/ tier(y) = tier(z) /\ score(y) > score(z)
        \/ tier(y) = tier(z) /\ score(y) = score(z) /\ y < z
    BY <1>3, <2>2
  <2>5. \/ tier(x) < tier(z)
        \/ tier(x) = tier(z) /\ score(x) > score(z)
        \/ tier(x) = tier(z) /\ score(x) = score(z) /\ x < z
    BY <2>1, <2>3, <2>4
  <2> QED BY <1>3, <1>4, <2>5
<1>7. ASSUME NEW x \in S, NEW y \in S, x # y
      PROVE  <<x, y>> \in R \/ <<y, x>> \in R
  <2>1. /\ x \in Nat /\ y \in Nat /\ tier(x) \in Nat /\ tier(y) \in Nat
        /\ score(x) \in Nat /\ score(y) \in Nat
    BY <1>1, <1>2
  <2>2. \/ \/ tier(x) < tier(y)
           \/ tier(x) = tier(y) /\ score(x) > score(y)
           \/ tier(x) = tier(y) /\ score(x) = score(y) /\ x < y
        \/ \/ tier(y) < tier(x)
           \/ tier(y) = tier(x) /\ score(y) > score(x)
           \/ tier(y) = tier(x) /\ score(y) = score(x) /\ y < x
    BY <1>7, <2>1
  <2> QED BY <1>3, <1>4, <2>2
<1>8. \E list \in SetToSeqs(S) : SortedBy(list, R)
  <2>1. \A x, y, z \in S : <<x, y>> \in R /\ <<y, z>> \in R => <<x, z>> \in R
    BY <1>6
  <2>2. \A x, y \in S : x # y => <<x, y>> \in R \/ <<y, x>> \in R
    BY <1>7
  <2>3. Orders(R, S)
    BY <1>5, <2>1, <2>2 DEF Orders
  <2> QED BY <1>1, <2>3, SortedExists
<1>9. \A list \in SetToSeqs(S) : \A i \in DOMAIN list : list[i] \in S
  BY DEF SetToSeqs
<1>10. \E list \in SetToSeqs(S) :
         \A i, j \in DOMAIN list : i < j => Before(list[i], list[j])
  BY <1>4, <1>8, <1>9 DEF SortedBy
<1>11. /\ Assessed(k) \in SetToSeqs(S)
       /\ \A i, j \in DOMAIN Assessed(k) :
            i < j => Before(Assessed(k)[i], Assessed(k)[j])
  BY <1>10 DEF Assessed, S
<1> QED BY <1>9, <1>11 DEF S

\* Whatever the scores, the candidates and the order their verdicts came in, no
\* unproven swarm is listed above a proven one, and a refuted one only above
\* those nothing at all is known of.
THEOREM EvidenceComesFirst == Spec => []EvidenceOrder
<1>1. IInv => EvidenceOrder
  <2> SUFFICES ASSUME IInv, NEW k \in Call, k \in started, Reported(k),
                      NEW i \in DOMAIN Assessed(k), NEW j \in DOMAIN Assessed(k), i < j
               PROVE  LET above == result[Assessed(k)[i]]
                          below == result[Assessed(k)[j]]
                      IN /\ below.verdict = "verified" => above.verdict = "verified"
                         /\ above.refuted => below.refuted \/ below.verdict = "none"
    BY DEF EvidenceOrder
  <2> DEFINE c == Assessed(k)[i]
             d == Assessed(k)[j]
  <2>1. c \in CandidatesOf(k) /\ d \in CandidatesOf(k) /\ Before(c, d)
    BY AssessedIsSorted DEF IInv
  <2> HIDE DEF c, d
  <2>2. /\ result[c] \in Result /\ result[d] \in Result
        /\ result[c].refuted => result[c].verdict = "reachable"
    BY <2>1 DEF IInv, TypeOK, Reported, CandidatesOf, CandidateInv, VerdictSound
  <2>3. Tier(result[c]) \in 0..4 /\ Tier(result[d]) \in 0..4
    BY DEF Tier
  <2>4. Tier(result[c]) <= Tier(result[d])
    BY <2>1, <2>3 DEF Before
  <2>5. ASSUME NEW r \in Result
        PROVE  /\ r.verdict = "verified" <=> Tier(r) = 0
               /\ r.verdict = "reachable" /\ r.refuted => Tier(r) = 3
               /\ Tier(r) >= 3 => r.refuted \/ r.verdict = "none"
    BY DEF Result, Verdict, Tier
  <2>6. result[d].verdict = "verified" => result[c].verdict = "verified"
    BY <2>2, <2>3, <2>4, <2>5
  <2>7. result[c].refuted => result[d].refuted \/ result[d].verdict = "none"
    BY <2>2, <2>3, <2>4, <2>5
  <2> QED BY <2>6, <2>7 DEF c, d
<1> QED BY <1>1, Invariance, PTL

-----------------------------------------------------------------------------
(* What a step may not do.                                                     *)

\* A won race opens no more connections, whatever step comes next.
LEMMA WonOpensNone ==
  ASSUME IInv, [Next]_vars, NEW c \in Candidate, winner[c] # NoPeer
  PROVE  flight'[c] \subseteq flight[c]
<1>1. ASSUME NEW k \in Call, StartVerifying(k) PROVE flight'[c] \subseteq flight[c]
  <2>1. CallOf[c] # k
    BY <1>1 DEF StartVerifying, IInv, CandidateInv, UntouchedBefore
  <2>2. c \notin CandidatesOf(k)
    BY <2>1 DEF CandidatesOf
  <2> QED BY <1>1, <2>2 DEF StartVerifying
<1>2. ASSUME NEW d \in Candidate, NEW a \in Addr, EndConnection(d, a)
      PROVE  flight'[c] \subseteq flight[c]
  <2>1. flight \in [Candidate -> SUBSET Addr]
    BY DEF IInv, TypeOK
  <2>2. ASSUME NEW connected \in BOOLEAN, Refuse(d, a, connected) PROVE d # c
    BY <2>2 DEF Refuse, Racing
  <2>3. \/ d = c /\ flight' = [flight EXCEPT ![d] = flight[d] \ {a}]
        \/ d # c /\ \E open : flight' = [flight EXCEPT ![d] = open]
    BY <1>2, <2>2 DEF EndConnection, Serve, EndLate, Refuse
  <2> QED BY <2>1, <2>3
<1>3. CASE \/ \E k \in Call : StartRanking(k)
           \/ \E d \in Candidate : Deadline(d)
           \/ Tick
           \/ UNCHANGED vars
  BY <1>3 DEF StartRanking, Deadline, Tick, vars, pool
<1> QED BY <1>1, <1>2, <1>3 DEF Next

\* However the connections of all pools interleave, no torrent has more than
\* Concurrency of them, asks no address twice, and asks nobody once it is proved.
THEOREM PoolsAreDisciplined == Spec => PoolDiscipline
<1> DEFINE Disciplined ==
      \A c \in Candidate :
        LET dialled == flight'[c] \ flight[c]
        IN /\ Cardinality(flight'[c]) <= Concurrency
           /\ dialled \cap (refusals'[c] \cup proofs'[c]) = {}
           /\ winner[c] # NoPeer => dialled = {}
<1>1. IInv /\ [Next]_vars => [Disciplined]_vars
  <2> SUFFICES ASSUME IInv, [Next]_vars PROVE Disciplined
    OBVIOUS
  <2>1. IInv'
    BY StepPreserves
  <2>2. \A c \in Candidate : /\ Cardinality(flight'[c]) <= Concurrency
                             /\ flight'[c] \cap (refusals'[c] \cup proofs'[c]) = {}
    BY <2>1 DEF IInv, CandidateInv, PoolSound
  <2>3. \A c \in Candidate : winner[c] # NoPeer => flight'[c] \subseteq flight[c]
    BY WonOpensNone
  <2> QED BY <2>2, <2>3
<1> QED BY <1>1, Invariance, PTL DEF Spec, PoolDiscipline

\* A verdict that was given stands, whatever answers late or fires late.
THEOREM VerdictsAreFinal == Spec => VerdictIsFinal
<1> DEFINE Final == \A c \in Candidate : result[c] # NoResult => result'[c] = result[c]
<1>1. IInv /\ [Next]_vars => [Final]_vars
  <2> SUFFICES ASSUME IInv, [Next]_vars, NEW c \in Candidate, result[c] # NoResult
               PROVE  result'[c] = result[c]
    OBVIOUS
  <2>1. TypeOK /\ CallOf[c] \in started
    BY DEF IInv, CandidateInv, UntouchedBefore
  <2>2. ASSUME NEW k \in Call, StartVerifying(k) \/ StartRanking(k)
        PROVE  result'[c] = result[c]
    <3>1. c \notin CandidatesOf(k)
      BY <2>1, <2>2 DEF StartVerifying, StartRanking, CandidatesOf
    <3> QED BY <2>2, <3>1 DEF StartVerifying, StartRanking
  <2>3. ASSUME NEW d \in Candidate, NEW a \in Addr, EndConnection(d, a)
        PROVE  result'[c] = result[c]
    <3>1. ASSUME NEW open, NEW proved \in BOOLEAN, result' = Settled(d, open, proved)
          PROVE  result'[c] = result[c]
      BY <2>1, <3>1, SettledIs
    <3>2. ASSUME NEW rtt \in Rtts, Serve(d, a, rtt) PROVE result'[c] = result[c]
      BY <3>1, <3>2 DEF Serve
    <3>3. ASSUME NEW connected \in BOOLEAN, Refuse(d, a, connected)
          PROVE  result'[c] = result[c]
      BY <3>1, <3>3 DEF Refuse
    <3>4. ASSUME NEW served \in BOOLEAN, EndLate(d, a, served) PROVE result'[c] = result[c]
      BY <3>1, <3>4 DEF EndLate
    <3> QED BY <2>3, <3>2, <3>3, <3>4 DEF EndConnection
  <2>4. ASSUME NEW d \in Candidate, Deadline(d) PROVE result'[c] = result[c]
    BY <2>1, <2>4 DEF Deadline, DeadlineDue, TypeOK
  <2>5. CASE Tick \/ UNCHANGED vars
    BY <2>5 DEF Tick, vars
  <2> QED BY <2>2, <2>3, <2>4, <2>5 DEF Next
<1> QED BY <1>1, Invariance, PTL DEF Spec, VerdictIsFinal
-----------------------------------------------------------------------------
(* Nobody waits for nothing.                                                   *)

\* What the end of every call rests on, beside its timers: a candidate whose
\* verdict is awaited has a connection open, whose end is still to come.
SomebodyIsAsked ==
  \A c \in Candidate : CallOf[c] \in started /\ result[c] = NoResult => flight[c] # {}

LEMMA SomebodyAskedStep ==
  ASSUME IInv, SomebodyIsAsked, [Next]_vars
  PROVE  SomebodyIsAsked'
<1> SUFFICES ASSUME NEW c \in Candidate, CallOf[c] \in started', result'[c] = NoResult
             PROVE  flight'[c] # {}
  BY DEF SomebodyIsAsked
<1>0. TypeOK
  BY DEF IInv
<1>1. ASSUME NEW k \in Call, StartVerifying(k) PROVE flight'[c] # {}
  <2>1. CASE c \notin CandidatesOf(k)
    <3>1. flight'[c] = flight[c] /\ result'[c] = result[c] /\ started' = started \cup {k}
      BY <1>1, <2>1 DEF StartVerifying
    <3>2. CallOf[c] \in started
      BY <2>1, <3>1 DEF CandidatesOf
    <3> QED BY <3>1, <3>2 DEF SomebodyIsAsked
  <2>2. CASE c \in CandidatesOf(k)
    <3>1. PICK list \in [CandidatesOf(k) -> AddrLists(MaxPeers)] :
            /\ flight'[c] = {list[c][i] : i \in 1..FirstWave(list[c])}
            /\ result'[c] = IF list[c] = <<>> THEN Judge(c, TRUE, FALSE, FALSE) ELSE result[c]
      BY <1>1, <2>2 DEF StartVerifying
    <3>2. list[c] # <<>>
      BY <1>0, <3>1, JudgeIs
    <3>3. list[c] \in AddrLists(MaxPeers)
      BY <2>2
    <3>4. list[c] \in Seq(Addr)
      BY <3>3, PoolAssumption DEF AddrLists
    <3>5. FirstWave(list[c]) \in Nat /\ FirstWave(list[c]) # 0
      BY <3>2, <3>4, FirstWaveFits
    <3>6. 1 \in 1..FirstWave(list[c])
      BY <3>5
    <3> QED BY <3>1, <3>6
  <2> QED BY <2>1, <2>2
<1>2. ASSUME NEW k \in Call, StartRanking(k) PROVE flight'[c] # {}
  <2>1. c \notin CandidatesOf(k)
    BY <1>0, <1>2, JudgeIs DEF StartRanking
  <2>2. flight' = flight /\ result'[c] = result[c] /\ started' = started \cup {k}
    BY <1>2, <2>1 DEF StartRanking, pool
  <2>3. CallOf[c] \in started
    BY <2>1, <2>2 DEF CandidatesOf
  <2> QED BY <2>2, <2>3 DEF SomebodyIsAsked
<1>3. ASSUME NEW d \in Candidate, NEW open, NEW proved \in BOOLEAN,
             result' = Settled(d, open, proved), flight' = [flight EXCEPT ![d] = open],
             started' = started
      PROVE  flight'[c] # {}
  <2>1. result[c] = NoResult /\ flight[c] # {}
    BY <1>0, <1>3, SettledIs DEF SomebodyIsAsked
  <2>2. flight \in [Candidate -> SUBSET Addr] /\ result \in [Candidate -> Result \cup {NoResult}]
    BY <1>0 DEF TypeOK
  <2>3. CASE c # d
    BY <1>3, <2>1, <2>2, <2>3
  <2>4. CASE c = d
    <3>1. Judge(c, TRUE, proved, FALSE) # NoResult
      BY <1>0, JudgeIs
    <3>2. open # {}
      BY <1>3, <2>1, <2>2, <2>4, <3>1 DEF Settled
    <3> QED BY <1>3, <2>2, <2>4, <3>2
  <2> QED BY <2>3, <2>4
<1>4. ASSUME NEW d \in Candidate, NEW a \in Addr, EndConnection(d, a) PROVE flight'[c] # {}
  <2>1. ASSUME NEW rtt \in Rtts, Serve(d, a, rtt) PROVE flight'[c] # {}
    BY <1>3, <2>1 DEF Serve
  <2>2. ASSUME NEW connected \in BOOLEAN, Refuse(d, a, connected) PROVE flight'[c] # {}
    BY <1>3, <2>2 DEF Refuse
  <2>3. ASSUME NEW served \in BOOLEAN, EndLate(d, a, served) PROVE flight'[c] # {}
    BY <1>3, <2>3 DEF EndLate
  <2> QED BY <1>4, <2>1, <2>2, <2>3 DEF EndConnection
<1>5. ASSUME NEW d \in Candidate, Deadline(d) PROVE flight'[c] # {}
  <2>1. flight' = flight /\ started' = started
    BY <1>5 DEF Deadline, pool
  <2>2. result[c] = NoResult
    BY <1>0, <1>5, JudgeIs DEF Deadline, TypeOK
  <2> QED BY <2>1, <2>2 DEF SomebodyIsAsked
<1>6. CASE Tick \/ UNCHANGED vars
  BY <1>6 DEF Tick, vars, pool, SomebodyIsAsked
<1> QED BY <1>1, <1>2, <1>4, <1>5, <1>6 DEF Next

\* No call waits for nothing, whichever of its connections ends last and however
\* short its list.
THEOREM NobodyWaitsForNothing == Spec => []SomebodyIsAsked
<1>1. Init => SomebodyIsAsked
  BY DEF Init, SomebodyIsAsked
<1>2. IInv /\ SomebodyIsAsked /\ [Next]_vars => SomebodyIsAsked'
  BY SomebodyAskedStep
<1> QED BY <1>1, <1>2, Invariance, PTL DEF Spec
=============================================================================
