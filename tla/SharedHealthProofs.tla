-------------------------- MODULE SharedHealthProofs --------------------------
(* Theorems about the coalescer, for every set of counts, every interval and   *)
(* every bound on the clock; and about the loop it is part of, for every TTL   *)
(* and limit: the loop keeps what the coalescer promises, serves nothing older *)
(* than its bounds add up to, and pins no miss at the edge.                    *)
EXTENDS SharedHealth, TLAPS

(* The coalescer.                                                              *)


\* The gate remembers the last KV put: the durable entry carries its time.
PutRemembered ==
  /\ storage = None => lastPut = 0
  /\ storage # None => lastPut = storage.ts /\ storage.ts <= now

\* Durable storage is positive wherever the entry on its way to KV or the
\* published one is, and so is the former wherever the latter is.
PositivesCarried ==
  \A f \in Fields :
    /\ putting # None /\ Positive(putting, f) => storage # None /\ Positive(storage, f)
    /\ kv # None /\ Positive(kv, f) =>
         /\ storage # None /\ Positive(storage, f)
         /\ putting # None => Positive(putting, f)

IInv == TypeOK /\ StorageLeads /\ PutRemembered /\ PositivesCarried

-----------------------------------------------------------------------------
(* What a merge does.                                                          *)

\* A merge over a stored entry, or over none, is an entry stamped now.
LEMMA MergedType ==
  ASSUME now \in Nat \ {0}, NEW prev \in Entry \cup {None}, NEW obs \in Observation
  PROVE  /\ Merged(prev, obs) \in Entry
         /\ Merged(prev, obs) # None
         /\ Merged(prev, obs).ts = now
<1>1. ASSUME NEW f \in Fields
      PROVE  FieldMerged(prev, obs, f) \in Counts
  <2>1. CASE prev # None
    BY <2>1, NoneAssumption DEF FieldMerged, Entry, Observation
  <2>2. CASE prev = None
    BY <2>2 DEF FieldMerged, Observation
  <2> QED BY <2>1, <2>2
<1>2. Merged(prev, obs) \in Entry
  BY <1>1 DEF Merged, Entry
<1> QED BY <1>2, NoneAssumption DEF Merged

\* A merge erases no positive reading of what it merges over.
LEMMA MergedKeepsPositives ==
  ASSUME now \in Nat \ {0}, NEW prev \in Entry, NEW obs \in Observation,
         NEW f \in Fields, Positive(prev, f)
  PROVE  Positive(Merged(prev, obs), f)
<1>1. prev # None
  BY NoneAssumption
<1>2. obs[f] \in Nat
  BY CountsAssumption DEF Observation
<1>3. Merged(prev, obs).reading[f] = FieldMerged(prev, obs, f)
  BY DEF Merged
<1> QED BY <1>1, <1>2, <1>3 DEF FieldMerged, Positive

\* What the object works from is what its storage holds.
LEMMA LoadedIsStorage == ASSUME StorageLeads PROVE Loaded = storage
BY DEF StorageLeads, Loaded

-----------------------------------------------------------------------------
\* An object nobody has written to satisfies the invariant.
THEOREM InitEstablishes == Init => IInv
BY NoneAssumption DEF Init, IInv, TypeOK, StorageLeads, PutRemembered,
                      PositivesCarried, Outcomes

\* A report that passes the gate.
LEMMA CommitPreserves ==
  ASSUME IInv, NEW obs \in Observation, Report(obs), outcome' = "committed"
  PROVE  IInv'
<1> DEFINE next == Merged(storage, obs)
<1>1. Loaded = storage
  BY LoadedIsStorage DEF IInv
<1>2. /\ cached' = next
      /\ storage' = next
      /\ putting' = next
      /\ lastPut' = now
      /\ now' = now
      /\ kv' = kv
      /\ expires' = expires
  BY <1>1 DEF Report, Stored
<1>3. next \in Entry /\ next # None /\ next.ts = now
  BY MergedType DEF IInv, TypeOK
<1>4. TypeOK'
  BY <1>2, <1>3 DEF IInv, TypeOK, Outcomes
<1>5. StorageLeads'
  <2>1. kv # None => kv.ts <= now
    BY DEF IInv, TypeOK, StorageLeads, PutRemembered, Entry
  <2> QED BY <1>2, <1>3, <2>1 DEF StorageLeads, IInv, TypeOK
<1>6. PutRemembered'
  BY <1>2, <1>3 DEF PutRemembered, IInv, TypeOK
<1>7. PositivesCarried'
  <2>1. ASSUME NEW f \in Fields, kv # None, Positive(kv, f)
        PROVE  Positive(next, f)
    <3>1. storage \in Entry /\ Positive(storage, f)
      BY <2>1 DEF IInv, PositivesCarried, TypeOK
    <3> QED BY <3>1, MergedKeepsPositives DEF IInv, TypeOK
  <2> QED BY <1>2, <1>3, <2>1 DEF PositivesCarried, Positive
<1> QED BY <1>4, <1>5, <1>6, <1>7 DEF IInv

\* A report changes the durable entry only by passing the gate.
LEMMA ReportOutcomes ==
  ASSUME NEW obs \in Observation, Report(obs)
  PROVE  \/ outcome' = "committed"
         \/ /\ cached' = Loaded
            /\ outcome' \in Outcomes
            /\ UNCHANGED <<now, storage, putting, kv, expires, lastPut>>
BY DEF Report, Outcomes

\* No report, timer or restart leaves the invariant.
LEMMA StepPreserves == IInv /\ [Next]_vars => IInv'
<1> SUFFICES ASSUME IInv, [Next]_vars
             PROVE  IInv'
  OBVIOUS
<1> USE DEF IInv
<1>1. ASSUME NEW obs \in Observation, Report(obs)
      PROVE  IInv'
  <2>1. CASE outcome' = "committed"
    BY <1>1, <2>1, CommitPreserves
  <2>2. CASE outcome' # "committed"
    <3>1. cached' = storage /\ outcome' \in Outcomes
      BY <1>1, <2>2, ReportOutcomes, LoadedIsStorage
    <3>2. UNCHANGED <<now, storage, putting, kv, expires, lastPut>>
      BY <1>1, <2>2, ReportOutcomes
    <3> QED BY <3>1, <3>2 DEF TypeOK, StorageLeads, PutRemembered, PositivesCarried, Positive
  <2> QED BY <2>1, <2>2
<1>2. CASE PutAccepted
  <2>1. TypeOK'
    BY <1>2, TimesAssumption DEF PutAccepted, TypeOK, Outcomes
  <2>2. StorageLeads' /\ PutRemembered'
    BY <1>2 DEF PutAccepted, StorageLeads, PutRemembered
  <2>3. PositivesCarried'
    BY <1>2 DEF PutAccepted, PositivesCarried, Positive
  <2> QED BY <2>1, <2>2, <2>3
<1>3. CASE PutThrottled
  BY <1>3 DEF PutThrottled, TypeOK, StorageLeads, PutRemembered, PositivesCarried,
              Positive, Outcomes
<1>4. CASE ObjectLost
  BY <1>4 DEF ObjectLost, TypeOK, StorageLeads, PutRemembered, PositivesCarried, Positive
<1>5. CASE Expire
  BY <1>5 DEF Expire, TypeOK, StorageLeads, PutRemembered, PositivesCarried, Positive
<1>6. CASE Tick
  <2>1. now' = now + 1 /\ UNCHANGED <<cached, storage, putting, kv, expires, outcome, lastPut>>
    BY <1>6 DEF Tick
  <2>2. PutRemembered'
    BY <2>1 DEF PutRemembered, TypeOK, Entry
  <2> QED BY <2>1, <2>2 DEF TypeOK, StorageLeads, PositivesCarried, Positive
<1>7. CASE UNCHANGED vars
  BY <1>7 DEF vars, TypeOK, StorageLeads, PutRemembered, PositivesCarried, Positive
<1> QED BY <1>1, <1>2, <1>3, <1>4, <1>5, <1>6, <1>7 DEF Next

\* The inductive invariant holds in every reachable state.
THEOREM Invariance == Spec => []IInv
BY InitEstablishes, StepPreserves, PTL DEF Spec

\* The object's state stays well-formed: entries carry a time, the gate can
\* compute with them.
THEOREM TypeCorrect == Spec => []TypeOK
BY Invariance, PTL DEF IInv

\* The object never publishes what a restart could make it forget.
THEOREM StorageAlwaysLeads == Spec => []StorageLeads
BY Invariance, PTL DEF IInv

-----------------------------------------------------------------------------
\* At most one KV put per interval, through every loss of the object's memory.
THEOREM PutsAreSpaced == Spec => OneWritePerInterval
<1> DEFINE Spaced == lastPut' # lastPut => lastPut = 0 \/ lastPut' - lastPut >= Coalesce
<1>1. IInv /\ [Next]_vars => [Spaced]_vars
  <2> SUFFICES ASSUME IInv, Next, lastPut' # lastPut
               PROVE  lastPut = 0 \/ lastPut' - lastPut >= Coalesce
    BY DEF vars
  <2>1. PICK obs \in Observation : Report(obs)
    BY DEF Next, PutAccepted, PutThrottled, ObjectLost, Expire, Tick
  <2>2. ~TooSoon(storage) /\ lastPut' = now
    BY <2>1, LoadedIsStorage DEF Report, IInv
  <2> QED BY <2>2, TimesAssumption DEF TooSoon, IInv, PutRemembered, TypeOK
<1>2. QED
  BY <1>1, Invariance, PTL DEF Spec, OneWritePerInterval

\* No report erases a positive reading, stored or published.
THEOREM PositivesSurvive == Spec => PositiveSurvives
<1> DEFINE Kept ==
      \A f \in Fields :
        /\ storage # None /\ Positive(storage, f) => Positive(storage', f)
        /\ kv # None /\ kv' # None /\ Positive(kv, f) => Positive(kv', f)
<1>1. IInv /\ [Next]_vars => [Kept]_vars
  <2> SUFFICES ASSUME IInv, Next, NEW f \in Fields
               PROVE  /\ storage # None /\ Positive(storage, f) => Positive(storage', f)
                      /\ kv # None /\ kv' # None /\ Positive(kv, f) => Positive(kv', f)
    BY DEF vars
  <2>1. ASSUME NEW obs \in Observation, Report(obs), storage # None, Positive(storage, f)
        PROVE  Positive(storage', f)
    <3>1. storage' = storage \/ storage' = Merged(storage, obs)
      BY <2>1, LoadedIsStorage DEF Report, Stored, IInv
    <3> QED BY <2>1, <3>1, MergedKeepsPositives DEF IInv, TypeOK
  <2>2. storage # None /\ Positive(storage, f) => Positive(storage', f)
    BY <2>1 DEF Next, PutAccepted, PutThrottled, ObjectLost, Expire, Tick
  <2>3. kv' = kv \/ kv' = None \/ (putting # None /\ kv' = putting)
    BY DEF Next, Report, PutAccepted, PutThrottled, ObjectLost, Expire, Tick
  <2> QED BY <2>2, <2>3 DEF IInv, PositivesCarried
<1>2. QED
  BY <1>1, Invariance, PTL DEF Spec, PositiveSurvives
-----------------------------------------------------------------------------
(* The loop.                                                                   *)


\* A put, the published entry and an overdue read all end in time.
LifetimesInv ==
  /\ putting # None => now <= putting.ts + PutLimit
  /\ kv # None => now <= expires /\ expires <= kv.ts + PutLimit + HealthTtl
  /\ read # "idle" => asked <= now /\ now <= asked + ReadLimit

\* The edge holds readings only, and each leaves in time.
EdgeInv ==
  \A a \in edge :
    /\ a # None
    /\ now <= edgeUntil
    /\ edgeUntil <= a.ts + PutLimit + HealthTtl + EdgeTtl

\* What a read will answer, or has answered.
ReadInv ==
  /\ read = "fetching" /\ kv = None => lacking
  /\ read = "answered" /\ answer = None => lacking
  /\ read = "answered" /\ answer # None =>
       asked <= answer.ts + PutLimit + HealthTtl + EdgeTtl

SharedInv == IInv /\ SharedTypeOK /\ LifetimesInv /\ EdgeInv /\ ReadInv

-----------------------------------------------------------------------------
\* The loop's steps are the coalescer's, or none of its.
LEMMA CoalescerStep == [SharedNext]_allVars => [Next]_vars
BY DEF SharedNext, Coalescer, Ask, Fetch, EdgeExpires, Decide, GiveUp, allVars

\* With readers at work the coalescer does what HealthCoalescer says, so all
\* that is proved of it holds of the loop.
THEOREM LoopRunsCoalescer == SharedSpec => Spec
<1>1. SharedInit => Init
  BY DEF SharedInit
<1> QED BY <1>1, CoalescerStep, PTL DEF SharedSpec, Spec

\* An entry that leaves KV is described by its time and a tier.
LEMMA DescribeType ==
  ASSUME now \in Nat, NEW e \in Entry
  PROVE  Describe(e) \in Described /\ Describe(e).ts = e.ts /\ Describe(e) # None
<1>1. Describe(e).ts = e.ts /\ e.ts \in Nat \ {0}
  BY DEF Describe, Entry
<1>2. Tier(now - e.ts) \in Tiers
  BY DEF Tier, Tiers
<1>3. Describe(e) \in Described
  BY <1>1, <1>2 DEF Describe, Described
<1> QED BY <1>1, <1>3, NoneDescribed

-----------------------------------------------------------------------------
LEMMA SharedInitEstablishes == SharedInit => SharedInv
<1> SUFFICES ASSUME SharedInit PROVE SharedInv
  OBVIOUS
<1>1. IInv
  BY InitEstablishes DEF SharedInit
<1>2. SharedTypeOK
  BY <1>1 DEF SharedInit, SharedTypeOK, IInv
<1>3. LifetimesInv /\ EdgeInv /\ ReadInv
  BY DEF SharedInit, Init, LifetimesInv, EdgeInv, ReadInv
<1> QED BY <1>1, <1>2, <1>3 DEF SharedInv

\* What a step of the coalescer does to the entries' lifetimes.
LEMMA CoalescerKeepsLifetimes ==
  ASSUME SharedInv, Coalescer
  PROVE  LifetimesInv' /\ now <= now' /\ (edge # {} => now' <= edgeUntil \/ now' = now)
<1> USE DEF SharedInv, SharedTypeOK, TypeOK
<1>0. /\ now \in Nat /\ asked \in Nat /\ edgeUntil \in Nat /\ expires \in Nat
      /\ {PutLimit, HealthTtl, ReadLimit} \subseteq Nat
      /\ UNCHANGED <<read, asked>>
  BY TimesAssumption, ReadAssumption DEF Coalescer
<1>1. /\ putting # None => putting.ts \in Nat
      /\ kv # None => kv.ts \in Nat
  BY DEF Entry
<1>2. ASSUME now' = now,
             putting' # None => now <= putting'.ts + PutLimit,
             kv' # None => now <= expires' /\ expires' <= kv'.ts + PutLimit + HealthTtl
      PROVE  LifetimesInv' /\ now <= now' /\ (edge # {} => now' <= edgeUntil \/ now' = now)
  BY <1>0, <1>2 DEF LifetimesInv
<1>3. ASSUME NEW obs \in Observation, Report(obs)
      PROVE  LifetimesInv' /\ now <= now' /\ (edge # {} => now' <= edgeUntil \/ now' = now)
  <2>1. now' = now /\ UNCHANGED <<kv, expires>>
    BY <1>3 DEF Report
  <2>2. putting' = putting \/ (putting'.ts = now)
    BY <1>3 DEF Report, Merged
  <2>3. putting' # None => now <= putting'.ts + PutLimit
    BY <1>0, <2>2 DEF LifetimesInv
  <2> QED BY <1>2, <2>1, <2>3 DEF LifetimesInv
<1>4. CASE PutAccepted
  BY <1>0, <1>1, <1>2, <1>4 DEF PutAccepted, LifetimesInv
<1>5. CASE PutThrottled \/ ObjectLost \/ Expire
  BY <1>2, <1>5 DEF PutThrottled, ObjectLost, Expire, LifetimesInv
<1>6. CASE Tick
  <2>1. /\ now' = now + 1 /\ UNCHANGED <<putting, kv, expires>>
        /\ putting # None => now - putting.ts < PutLimit
        /\ kv # None => now < expires
        /\ read # "idle" => now - asked < ReadLimit
        /\ edge # {} => now < edgeUntil
    BY <1>0, <1>6 DEF Tick, Coalescer
  <2> QED BY <1>0, <1>1, <2>1 DEF LifetimesInv
<1> QED BY <1>3, <1>4, <1>5, <1>6 DEF Coalescer, Next

LEMMA CoalescerPreserves ==
  ASSUME SharedInv, Coalescer PROVE SharedInv'
<1>1. IInv'
  BY StepPreserves DEF SharedInv, Coalescer
<1>2. UNCHANGED <<edge, edgeUntil, read, asked, answer, decision>>
      /\ lacking' = (lacking \/ kv' = None)
  BY DEF Coalescer
<1>3. LifetimesInv' /\ now <= now' /\ (edge # {} => now' <= edgeUntil \/ now' = now)
  BY CoalescerKeepsLifetimes
<1>4. SharedTypeOK'
  BY <1>1, <1>2 DEF SharedInv, SharedTypeOK, IInv
<1>5. EdgeInv'
  BY <1>2, <1>3 DEF SharedInv, EdgeInv
<1>6. ReadInv'
  BY <1>2 DEF SharedInv, ReadInv
<1> QED BY <1>1, <1>3, <1>4, <1>5, <1>6 DEF SharedInv

LEMMA AskPreserves ==
  ASSUME SharedInv, Ask PROVE SharedInv'
<1> USE DEF SharedInv
<1>1. IInv'
  BY DEF Ask, vars, IInv, TypeOK, StorageLeads, PutRemembered, PositivesCarried, Positive
<1>2. /\ asked' = now /\ UNCHANGED <<now, putting, kv, expires, edge, edgeUntil, decision>>
      /\ read' \in {"fetching", "answered"} /\ lacking' \in BOOLEAN
  BY DEF Ask, vars
<1>3. now \in Nat /\ ReadLimit \in Nat
  BY ReadAssumption DEF SharedTypeOK, TypeOK
<1>4. LifetimesInv' /\ EdgeInv'
  BY <1>2, <1>3 DEF LifetimesInv, EdgeInv
<1>5. CASE edge # {}
  <2>1. read' = "answered" /\ answer' \in edge /\ lacking' = FALSE
    BY <1>5 DEF Ask
  <2>2. answer' # None /\ now <= edgeUntil
        /\ edgeUntil <= answer'.ts + PutLimit + HealthTtl + EdgeTtl
    BY <2>1 DEF EdgeInv
  <2>3. answer' \in Described /\ answer'.ts \in Nat /\ edgeUntil \in Nat
    BY <2>1, <2>2 DEF SharedTypeOK, Described
  <2>4. ReadInv'
    BY <1>2, <1>3, <2>1, <2>2, <2>3, ReadAssumption, TimesAssumption DEF ReadInv
  <2>5. SharedTypeOK'
    BY <1>1, <1>2, <1>3, <2>1, <2>3 DEF SharedTypeOK, IInv
  <2> QED BY <1>1, <1>4, <2>4, <2>5
<1>6. CASE edge = {}
  <2>1. read' = "fetching" /\ answer' = None /\ lacking' = (kv = None)
    BY <1>6 DEF Ask
  <2>2. ReadInv'
    BY <1>2, <2>1 DEF ReadInv
  <2>3. SharedTypeOK'
    BY <1>1, <1>2, <1>3, <2>1 DEF SharedTypeOK, IInv
  <2> QED BY <1>1, <1>4, <2>2, <2>3
<1> QED BY <1>5, <1>6

LEMMA FetchPreserves ==
  ASSUME SharedInv, Fetch PROVE SharedInv'
<1> USE DEF SharedInv
<1>1. IInv'
  BY DEF Fetch, vars, IInv, TypeOK, StorageLeads, PutRemembered, PositivesCarried, Positive
<1>2. /\ read = "fetching" /\ read' = "answered"
      /\ UNCHANGED <<now, putting, kv, expires, asked, decision, lacking>>
  BY DEF Fetch, vars
<1>3. /\ now \in Nat /\ asked \in Nat /\ expires \in Nat
      /\ {EdgeTtl, PutLimit, HealthTtl, ReadLimit} \subseteq Nat
      /\ edgeUntil \in Nat
  BY ReadAssumption, TimesAssumption DEF SharedTypeOK, TypeOK
<1>4. LifetimesInv'
  BY <1>2 DEF LifetimesInv
<1>5. CASE kv = None
  <2>1. answer' = None /\ UNCHANGED <<edge, edgeUntil>> /\ lacking
    BY <1>2, <1>5 DEF Fetch, Complete, ReadInv
  <2>2. EdgeInv' /\ ReadInv'
    BY <1>2, <2>1 DEF EdgeInv, ReadInv
  <2>3. SharedTypeOK'
    BY <1>1, <1>2, <1>3, <2>1 DEF SharedTypeOK, IInv
  <2> QED BY <1>1, <1>4, <2>2, <2>3
<1>6. CASE kv # None
  <2>1. kv \in Entry /\ answer' = Describe(kv)
    BY <1>6 DEF Fetch, SharedTypeOK, TypeOK
  <2>2. answer' \in Described /\ answer'.ts = kv.ts /\ answer' # None /\ kv.ts \in Nat
    BY <1>3, <2>1, DescribeType DEF Entry
  <2>3. now <= kv.ts + PutLimit + HealthTtl
    BY <1>3, <1>6, <2>2 DEF LifetimesInv
  <2>4. asked <= now
    BY <1>2 DEF LifetimesInv
  <2>5. ReadInv'
    BY <1>2, <1>3, <2>2, <2>3, <2>4 DEF ReadInv
  <2>6. \/ edge' = {answer'} /\ edgeUntil' = now + EdgeTtl
        \/ UNCHANGED <<edge, edgeUntil>>
    BY DEF Fetch
  <2>7. EdgeInv'
    <3>1. CASE edge' = {answer'} /\ edgeUntil' = now + EdgeTtl
      BY <1>2, <1>3, <2>2, <2>3, <3>1 DEF EdgeInv
    <3>2. CASE UNCHANGED <<edge, edgeUntil>>
      BY <1>2, <3>2 DEF EdgeInv
    <3> QED BY <2>6, <3>1, <3>2
  <2>8. SharedTypeOK'
    <3>1. edgeUntil' \in Nat
      BY <1>3, <2>6
    <3> QED BY <1>1, <1>2, <2>2, <2>6, <3>1 DEF SharedTypeOK, IInv
  <2> QED BY <1>1, <1>4, <2>5, <2>7, <2>8
<1> QED BY <1>5, <1>6

\* The entry leaves the edge; the client decides or gives up.
LEMMA EndPreserves ==
  ASSUME SharedInv, EdgeExpires \/ Decide \/ GiveUp PROVE SharedInv'
<1> USE DEF SharedInv
<1>1. IInv'
  BY DEF EdgeExpires, Decide, GiveUp, vars, IInv, TypeOK, StorageLeads, PutRemembered,
         PositivesCarried, Positive
<1>2. /\ UNCHANGED <<now, putting, kv, expires, edgeUntil, asked, answer, lacking>>
      /\ edge' \in {edge, {}} /\ read' \in {read, "idle"}
      /\ decision' \in {decision, "shared", "probe"}
  BY DEF EdgeExpires, Decide, GiveUp, vars
<1>3. SharedTypeOK'
  BY <1>1, <1>2 DEF SharedTypeOK, IInv
<1>4. LifetimesInv' /\ EdgeInv' /\ ReadInv'
  BY <1>2 DEF LifetimesInv, EdgeInv, ReadInv
<1> QED BY <1>1, <1>3, <1>4

LEMMA SharedStepPreserves == SharedInv /\ [SharedNext]_allVars => SharedInv'
<1> SUFFICES ASSUME SharedInv, [SharedNext]_allVars PROVE SharedInv'
  OBVIOUS
<1>1. CASE UNCHANGED allVars
  BY <1>1 DEF SharedInv, allVars, reader, vars, IInv, TypeOK, StorageLeads, PutRemembered,
              PositivesCarried, Positive, SharedTypeOK, LifetimesInv, EdgeInv, ReadInv
<1> QED BY <1>1, CoalescerPreserves, AskPreserves, FetchPreserves, EndPreserves
        DEF SharedNext

THEOREM SharedInvariance == SharedSpec => []SharedInv
BY SharedInitEstablishes, SharedStepPreserves, PTL DEF SharedSpec

\* Every variable of the loop keeps its type.
THEOREM SharedTypeCorrect == SharedSpec => []SharedTypeOK
<1>1. SharedInv => SharedTypeOK
  BY DEF SharedInv
<1> QED BY <1>1, SharedInvariance, PTL

\* GET /v1/health never pins one client's miss on the next: whoever is told that
\* there is no reading asked while KV was without one.
THEOREM NoMissIsPinned == SharedSpec => []NoPinnedMiss
<1>1. SharedInv => NoPinnedMiss
  BY DEF SharedInv, ReadInv, NoPinnedMiss
<1> QED BY <1>1, SharedInvariance, PTL

\* What a client is served is no older than a put, HEALTH_TTL_S, the edge's TTL
\* and its own read together allow, whatever is reported, throttled or lost.
THEOREM ServedAgeIsBounded == SharedSpec => []ServedInTime
<1>1. SharedInv => ServedInTime
  <2> SUFFICES ASSUME SharedInv, read = "answered", answer # None
               PROVE  now - answer.ts <= PutLimit + HealthTtl + EdgeTtl + ReadLimit
    BY DEF ServedInTime
  <2>1. asked <= answer.ts + PutLimit + HealthTtl + EdgeTtl /\ now <= asked + ReadLimit
    BY DEF SharedInv, ReadInv, LifetimesInv
  <2>2. now \in Nat /\ asked \in Nat /\ answer.ts \in Nat
        /\ {PutLimit, HealthTtl, EdgeTtl, ReadLimit} \subseteq Nat
    BY ReadAssumption, TimesAssumption DEF SharedInv, SharedTypeOK, TypeOK, Described
  <2> QED BY <2>1, <2>2
<1> QED BY <1>1, SharedInvariance, PTL
=============================================================================
