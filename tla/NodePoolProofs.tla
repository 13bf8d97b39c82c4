------------------------------ MODULE NodePoolProofs ------------------------------
(* Theorems about NodePool, for every set of addresses, every set of runs that *)
(* may overlap and every limit.                                                *)
EXTENDS NodePool, FiniteSetTheorems, TLAPS

\* A map whose entries are reports no older at t than the contribution TTL.
Recent(m, t) ==
  \A n \in DOMAIN m : ReportedAt(n, m[n].lastSeen) /\ t - m[n].lastSeen <= ContribTtl

\* What was published and what runs are working on is recent.
AllRecent ==
  /\ Recent(pool.nodes, pool.ts)
  /\ \A r \in Runs : Recent(seen[r], at[r])

\* An entry lost neither sources nor time.
NotBehind(a, b) == a.sources <= b.sources /\ a.lastSeen <= b.lastSeen

\* A run nobody has overtaken still holds what was fresh in the pool it read.
FreshHeld ==
  \A r \in Runs : pc[r] # "idle" /\ ~overtaken[r] =>
    \A n \in DOMAIN pool.nodes : at[r] - pool.nodes[n].lastSeen <= ContribTtl =>
      n \in DOMAIN seen[r] /\ NotBehind(pool.nodes[n], seen[r][n])

IInv ==
  /\ TypeOK
  /\ Cardinality(DOMAIN pool.nodes) <= MaxPool
  /\ AllRecent
  /\ FreshHeld

-----------------------------------------------------------------------------
(* Maps of nodes.                                                              *)

\* The empty map is a recent map of nodes at any time.
LEMMA EmptyIsRecent ==
  ASSUME NEW t PROVE NodeMap(Empty) /\ Recent(Empty, t) /\ DOMAIN Empty = {}
BY DEF NodeMap, Empty, Recent

\* What a run carries over from the pool is recent at its own time.
LEMMA CarriedIsRecent ==
  ASSUME IInv
  PROVE  /\ NodeMap(Carried(pool))
         /\ Recent(Carried(pool), now)
<1>1. NodeMap(pool.nodes) /\ Recent(pool.nodes, pool.ts)
  BY DEF IInv, TypeOK, AllRecent
<1> QED BY <1>1 DEF Carried, NodeMap, Recent

\* A contribution that is counted keeps a map recent, and takes nothing away.
LEMMA HeardIsRecent ==
  ASSUME NEW m, NodeMap(m), NEW k \in Keys, NEW t \in Nat,
         posted \in Seq(Contribution), Recent(m, t), t - posted[k].ts <= ContribTtl
  PROVE  /\ NodeMap(Heard(m, posted[k]))
         /\ Recent(Heard(m, posted[k]), t)
         /\ \A n \in DOMAIN m :
              n \in DOMAIN Heard(m, posted[k]) /\ NotBehind(m[n], Heard(m, posted[k])[n])
<1> DEFINE h == Heard(m, posted[k])
<1>1. posted[k] \in Contribution
  BY DEF Keys
<1>2. posted[k].nodes \subseteq Public /\ posted[k].ts \in Nat
  BY <1>1 DEF Contribution
<1>3. \A n \in posted[k].nodes : ReportedAt(n, posted[k].ts)
  BY DEF ReportedAt
<1>4. DOMAIN h = DOMAIN m \cup posted[k].nodes
  BY DEF Heard
<1>5. ASSUME NEW n \in DOMAIN h
      PROVE  /\ h[n] \in Entry
             /\ ReportedAt(n, h[n].lastSeen)
             /\ t - h[n].lastSeen <= ContribTtl
             /\ n \in DOMAIN m => NotBehind(m[n], h[n])
  <2>1. CASE n \notin posted[k].nodes
    <3>1. n \in DOMAIN m /\ h[n] = m[n]
      BY <1>4, <2>1 DEF Heard
    <3> QED BY <3>1 DEF NodeMap, Recent, NotBehind, Entry
  <2>2. CASE n \in posted[k].nodes /\ n \notin DOMAIN m
    <3>1. h[n] = [sources |-> 1, lastSeen |-> posted[k].ts]
      BY <1>4, <2>2 DEF Heard
    <3> QED BY <1>2, <1>3, <2>2, <3>1 DEF Entry
  <2>3. CASE n \in posted[k].nodes /\ n \in DOMAIN m
    <3>1. h[n] = [sources |-> m[n].sources + 1,
                  lastSeen |-> Later(m[n].lastSeen, posted[k].ts)]
      BY <1>4, <2>3 DEF Heard
    <3>2. m[n] \in Entry /\ ReportedAt(n, m[n].lastSeen) /\ t - m[n].lastSeen <= ContribTtl
      BY <2>3 DEF NodeMap, Recent
    <3>3. h[n].lastSeen = m[n].lastSeen \/ h[n].lastSeen = posted[k].ts
      BY <3>1 DEF Later
    <3>4. h[n].lastSeen >= m[n].lastSeen
      BY <1>2, <3>1, <3>2 DEF Later, Entry
    <3> QED BY <1>2, <1>3, <2>3, <3>1, <3>2, <3>3, <3>4 DEF Entry, NotBehind
  <2> QED BY <2>1, <2>2, <2>3
<1>6. h = [n \in DOMAIN h |-> h[n]]
  BY DEF Heard
<1>7. NodeMap(h)
  BY <1>2, <1>4, <1>5, <1>6 DEF NodeMap
<1>8. Recent(h, t)
  BY <1>5 DEF Recent
<1> QED BY <1>4, <1>5, <1>7, <1>8

\* A sweep lists live keys.
LEMMA ListedKeys ==
  ASSUME NEW live, NEW l \in Listed(live)
  PROVE  l.keys \subseteq live /\ l.truncated \in BOOLEAN
<1>1. CASE Cardinality(live) < MaxKeys
  <2>1. l = [keys |-> live, truncated |-> FALSE]
    BY <1>1 DEF Listed
  <2> QED BY <2>1
<1>2. CASE ~(Cardinality(live) < MaxKeys)
  <2>1. PICK K \in SUBSET live : l = [keys |-> K, truncated |-> TRUE]
    BY <1>2 DEF Listed
  <2> QED BY <2>1
<1> QED BY <1>1, <1>2

-----------------------------------------------------------------------------
\* Nothing contributed, nothing published.
THEOREM InitEstablishes == Init => IInv
<1> SUFFICES ASSUME Init PROVE IInv
  OBVIOUS
<1>1. NodeMap(Empty) /\ DOMAIN Empty = {} /\ \A t : Recent(Empty, t)
  BY EmptyIsRecent
<1>2. TypeOK
  BY <1>1 DEF Init, TypeOK
<1>3. Cardinality(DOMAIN pool.nodes) <= MaxPool
  BY <1>1, FS_EmptySet, LimitsAssumption DEF Init
<1>4. AllRecent /\ FreshHeld
  BY <1>1 DEF Init, AllRecent, FreshHeld
<1> QED BY <1>2, <1>3, <1>4 DEF IInv

\* A new contribution leaves what older ones reported where it is.
LEMMA PostPreserves ==
  ASSUME IInv, NEW raw \in SUBSET Nodes, Post(raw)
  PROVE  IInv'
<1> DEFINE c == [nodes |-> raw \cap Public, ts |-> now]
<1>1. /\ posted' = Append(posted, c)
      /\ UNCHANGED <<now, pool, pc, at, seen, todo, trunc, missed, overtaken, started>>
  BY DEF Post, Accepted, runVars
<1>2. c \in Contribution /\ posted \in Seq(Contribution)
  BY DEF IInv, TypeOK, Contribution
<1>3. /\ posted' \in Seq(Contribution)
      /\ Keys \subseteq Keys'
      /\ \A k \in Keys : posted'[k] = posted[k]
  BY <1>1, <1>2 DEF Keys
<1>4. \A n, t : ReportedAt(n, t) => ReportedAt(n, t)'
  BY <1>3 DEF ReportedAt
<1>5. TypeOK'
  BY <1>1, <1>3 DEF IInv, TypeOK, NodeMap
<1>6. AllRecent'
  BY <1>1, <1>4 DEF IInv, AllRecent, Recent
<1>7. FreshHeld'
  BY <1>1 DEF IInv, FreshHeld, NotBehind
<1> QED BY <1>1, <1>5, <1>6, <1>7 DEF IInv

\* A run starts from what is fresh in the pool.
LEMMA BeginPreserves ==
  ASSUME IInv, NEW r \in Runs, Begin(r)
  PROVE  IInv'
<1>1. /\ pc' = [pc EXCEPT ![r] = "list"]
      /\ at' = [at EXCEPT ![r] = now]
      /\ seen' = [seen EXCEPT ![r] = Carried(pool)]
      /\ missed' = [missed EXCEPT ![r] = {}]
      /\ overtaken' = [overtaken EXCEPT ![r] = FALSE]
      /\ started' = started + 1
      /\ UNCHANGED <<now, posted, pool, todo, trunc>>
  BY DEF Begin
<1>2. NodeMap(Carried(pool)) /\ Recent(Carried(pool), now)
  BY CarriedIsRecent
<1>3. TypeOK'
  <2>1. /\ seen' = [q \in Runs |-> seen'[q]]
        /\ \A q \in Runs : NodeMap(seen'[q])
    BY <1>1, <1>2 DEF IInv, TypeOK
  <2>2. /\ pc' \in [Runs -> {"idle", "list", "fetch"}]
        /\ at' \in [Runs -> Nat]
        /\ todo' \in [Runs -> SUBSET Nat]
        /\ trunc' \in [Runs -> BOOLEAN]
        /\ missed' \in [Runs -> SUBSET Nat]
        /\ overtaken' \in [Runs -> BOOLEAN]
        /\ started' \in Nat
        /\ \A q \in Runs : at'[q] <= now /\ todo'[q] \subseteq Keys
    BY <1>1 DEF IInv, TypeOK
  <2>3. /\ pool' = [nodes |-> pool'.nodes, ts |-> pool'.ts,
                    corroborated |-> pool'.corroborated, truncated |-> pool'.truncated]
        /\ NodeMap(pool'.nodes) /\ {pool'.ts, pool'.corroborated} \subseteq Nat
        /\ pool'.truncated \in BOOLEAN
    BY <1>1 DEF IInv, TypeOK
  <2>4. now' \in Nat /\ posted' \in Seq(Contribution) /\ Keys' = Keys /\ now' = now
    BY <1>1 DEF IInv, TypeOK, Keys
  <2> QED BY <2>1, <2>2, <2>3, <2>4 DEF TypeOK, NodeMap
<1>4. AllRecent'
  BY <1>1, <1>2 DEF IInv, TypeOK, AllRecent, Recent, ReportedAt, Keys
<1>5. FreshHeld'
  <2> SUFFICES ASSUME NEW q \in Runs, pc'[q] # "idle", ~overtaken'[q],
                      NEW n \in DOMAIN pool.nodes,
                      at'[q] - pool.nodes[n].lastSeen <= ContribTtl
               PROVE  n \in DOMAIN seen'[q] /\ NotBehind(pool.nodes[n], seen'[q][n])
    BY <1>1 DEF FreshHeld, NotBehind
  <2>1. CASE q = r
    <3>1. seen'[q] = Carried(pool) /\ at'[q] = now
      BY <1>1, <2>1 DEF IInv, TypeOK
    <3>2. n \in DOMAIN Carried(pool) /\ Carried(pool)[n] = pool.nodes[n]
      BY <3>1 DEF Carried
    <3> QED BY <3>1, <3>2 DEF NotBehind, IInv, TypeOK, NodeMap, Entry
  <2>2. CASE q # r
    BY <1>1, <2>2 DEF IInv, TypeOK, FreshHeld
  <2> QED BY <2>1, <2>2
<1> QED BY <1>1, <1>3, <1>4, <1>5 DEF IInv

\* A run counts a contribution that has not expired.
LEMMA FetchPreserves ==
  ASSUME IInv, NEW r \in Runs, NEW k \in todo[r], Fetch(r, k)
  PROVE  IInv'
<1> DEFINE h == Heard(seen[r], posted[k])
<1>1. /\ Live(k)
      /\ todo' = [todo EXCEPT ![r] = todo[r] \ {k}]
      /\ seen' = [seen EXCEPT ![r] = h]
      /\ UNCHANGED <<now, posted, pool, pc, at, trunc, started, missed, overtaken>>
  BY DEF Fetch
<1>2. k \in Keys /\ at[r] \in Nat /\ at[r] <= now /\ now \in Nat
  BY DEF IInv, TypeOK
<1>3. posted \in Seq(Contribution) /\ posted[k] \in Contribution
  BY <1>2 DEF IInv, TypeOK, Keys
<1>4. at[r] - posted[k].ts <= ContribTtl
  BY <1>1, <1>2, <1>3, LimitsAssumption DEF Live, Contribution
<1>5. /\ NodeMap(h) /\ Recent(h, at[r])
      /\ \A n \in DOMAIN seen[r] : n \in DOMAIN h /\ NotBehind(seen[r][n], h[n])
  BY <1>2, <1>3, <1>4, HeardIsRecent DEF IInv, TypeOK, AllRecent
<1> HIDE DEF h
<1>6. TypeOK'
  BY <1>1, <1>5 DEF IInv, TypeOK, NodeMap, Keys
<1>7. AllRecent'
  BY <1>1, <1>5 DEF IInv, TypeOK, AllRecent, Recent, ReportedAt, Keys
<1>8. FreshHeld'
  <2> SUFFICES ASSUME NEW q \in Runs, pc[q] # "idle", ~overtaken[q],
                      NEW n \in DOMAIN pool.nodes,
                      at[q] - pool.nodes[n].lastSeen <= ContribTtl
               PROVE  n \in DOMAIN seen'[q] /\ NotBehind(pool.nodes[n], seen'[q][n])
    BY <1>1 DEF FreshHeld, NotBehind
  <2>1. n \in DOMAIN seen[q] /\ NotBehind(pool.nodes[n], seen[q][n])
    BY DEF IInv, FreshHeld
  <2>2. CASE q = r
    <3>1. seen'[q] = h
      BY <1>1, <2>2 DEF IInv, TypeOK
    <3>2. n \in DOMAIN h /\ NotBehind(seen[q][n], h[n])
      BY <1>5, <2>1, <2>2
    <3>3. pool.nodes[n] \in Entry /\ seen[q][n] \in Entry /\ h[n] \in Entry
      BY <1>5, <2>1, <3>2 DEF IInv, TypeOK, NodeMap
    <3> QED BY <2>1, <3>1, <3>2, <3>3 DEF NotBehind, Entry
  <2>3. CASE q # r
    BY <1>1, <2>1, <2>3 DEF IInv, TypeOK
  <2> QED BY <2>2, <2>3
<1> QED BY <1>1, <1>6, <1>7, <1>8 DEF IInv

\* What sort and slice keep of a map of nodes.
LEMMA KeptIsWithin ==
  ASSUME NEW m, NodeMap(m), NEW D \in Kept(m)
  PROVE  /\ D \subseteq DOMAIN m
         /\ Cardinality(D) <= MaxPool
         /\ NodeMap([n \in D |-> m[n]])
BY DEF Kept, NodeMap

\* The nodes counted as corroborated are finitely many.
LEMMA CorroboratedCount ==
  ASSUME NEW m, NodeMap(m) PROVE Cardinality(Corroborated(m)) \in Nat
<1>1. Corroborated(m) \in SUBSET Nodes
  BY NodesAssumption DEF NodeMap, Corroborated
<1> QED BY <1>1, NodesAssumption, FS_Subset, FS_CardinalityType

\* A run that publishes overtakes the others.
LEMMA PublishPreserves ==
  ASSUME IInv, NEW r \in Runs, Publish(r)
  PROVE  IInv'
<1>1. PICK D \in Kept(seen[r]) :
        pool' = [nodes |-> [n \in D |-> seen[r][n]],
                 ts |-> at[r],
                 corroborated |-> Cardinality(Corroborated(seen[r])),
                 truncated |-> trunc[r]]
  BY DEF Publish
<1>2. /\ pc' = [pc EXCEPT ![r] = "idle"]
      /\ at' = [at EXCEPT ![r] = 0]
      /\ seen' = [seen EXCEPT ![r] = Empty]
      /\ todo' = [todo EXCEPT ![r] = {}]
      /\ trunc' = [trunc EXCEPT ![r] = FALSE]
      /\ missed' = [missed EXCEPT ![r] = {}]
      /\ overtaken' = [q \in Runs |-> q # r /\ (overtaken[q] \/ pc[q] # "idle")]
      /\ UNCHANGED <<now, posted, started>>
  BY DEF Publish, Over
<1>3. NodeMap(seen[r]) /\ Recent(seen[r], at[r])
  BY DEF IInv, TypeOK, AllRecent
<1>4. /\ D \subseteq DOMAIN seen[r]
      /\ Cardinality(D) <= MaxPool
      /\ NodeMap([n \in D |-> seen[r][n]])
  BY <1>3, KeptIsWithin
<1>5. Cardinality(Corroborated(seen[r])) \in Nat
  BY <1>3, CorroboratedCount
<1>6. NodeMap(Empty) /\ \A t : Recent(Empty, t)
  BY EmptyIsRecent
<1>7. TypeOK'
  <2>1. /\ pool' = [nodes |-> pool'.nodes, ts |-> pool'.ts,
                    corroborated |-> pool'.corroborated, truncated |-> pool'.truncated]
        /\ NodeMap(pool'.nodes) /\ {pool'.ts, pool'.corroborated} \subseteq Nat
        /\ pool'.truncated \in BOOLEAN
    BY <1>1, <1>4, <1>5 DEF IInv, TypeOK
  <2>2. /\ seen' = [q \in Runs |-> seen'[q]]
        /\ \A q \in Runs : NodeMap(seen'[q])
    BY <1>2, <1>6 DEF IInv, TypeOK
  <2>3. overtaken' \in [Runs -> BOOLEAN]
    BY <1>2
  <2>4. /\ pc' \in [Runs -> {"idle", "list", "fetch"}]
        /\ at' \in [Runs -> Nat]
        /\ todo' \in [Runs -> SUBSET Nat]
        /\ trunc' \in [Runs -> BOOLEAN]
        /\ missed' \in [Runs -> SUBSET Nat]
        /\ \A q \in Runs : at'[q] <= now /\ todo'[q] \subseteq Keys
    BY <1>2 DEF IInv, TypeOK
  <2> QED BY <1>2, <2>1, <2>2, <2>3, <2>4 DEF IInv, TypeOK, NodeMap, Keys
<1>8. (Cardinality(DOMAIN pool.nodes) <= MaxPool)'
  BY <1>1, <1>4
<1>9. AllRecent'
  <2>1. Recent(pool.nodes, pool.ts)'
    BY <1>1, <1>2, <1>3, <1>4 DEF Recent, ReportedAt, Keys
  <2>2. \A q \in Runs : Recent(seen[q], at[q])'
    BY <1>2, <1>6 DEF IInv, TypeOK, AllRecent, Recent, ReportedAt, Keys
  <2> QED BY <2>1, <2>2 DEF AllRecent
<1>10. FreshHeld'
  <2>1. \A q \in Runs : pc'[q] = "idle" \/ overtaken'[q]
    BY <1>2 DEF IInv, TypeOK
  <2> QED BY <2>1 DEF FreshHeld
<1> QED BY <1>7, <1>8, <1>9, <1>10 DEF IInv

\* A run that is given up leaves the pool alone.
LEMMA AbandonPreserves ==
  ASSUME IInv, NEW r \in Runs, Abandon(r)
  PROVE  IInv'
<1>1. /\ pc' = [pc EXCEPT ![r] = "idle"]
      /\ at' = [at EXCEPT ![r] = 0]
      /\ seen' = [seen EXCEPT ![r] = Empty]
      /\ todo' = [todo EXCEPT ![r] = {}]
      /\ trunc' = [trunc EXCEPT ![r] = FALSE]
      /\ missed' = [missed EXCEPT ![r] = {}]
      /\ overtaken' = [overtaken EXCEPT ![r] = FALSE]
      /\ UNCHANGED <<now, posted, pool, started>>
  BY DEF Abandon, Over
<1>2. NodeMap(Empty) /\ \A t : Recent(Empty, t)
  BY EmptyIsRecent
<1>3. TypeOK'
  <2>1. /\ seen' = [q \in Runs |-> seen'[q]]
        /\ \A q \in Runs : NodeMap(seen'[q])
    BY <1>1, <1>2 DEF IInv, TypeOK
  <2>2. /\ pc' \in [Runs -> {"idle", "list", "fetch"}]
        /\ at' \in [Runs -> Nat]
        /\ todo' \in [Runs -> SUBSET Nat]
        /\ trunc' \in [Runs -> BOOLEAN]
        /\ missed' \in [Runs -> SUBSET Nat]
        /\ overtaken' \in [Runs -> BOOLEAN]
        /\ started' \in Nat
        /\ \A q \in Runs : at'[q] <= now /\ todo'[q] \subseteq Keys
    BY <1>1 DEF IInv, TypeOK
  <2>3. /\ pool' = [nodes |-> pool'.nodes, ts |-> pool'.ts,
                    corroborated |-> pool'.corroborated, truncated |-> pool'.truncated]
        /\ NodeMap(pool'.nodes) /\ {pool'.ts, pool'.corroborated} \subseteq Nat
        /\ pool'.truncated \in BOOLEAN
    BY <1>1 DEF IInv, TypeOK
  <2>4. now' \in Nat /\ posted' \in Seq(Contribution) /\ Keys' = Keys /\ now' = now
    BY <1>1 DEF IInv, TypeOK, Keys
  <2> QED BY <2>1, <2>2, <2>3, <2>4 DEF TypeOK, NodeMap
<1>4. AllRecent'
  BY <1>1, <1>2 DEF IInv, TypeOK, AllRecent, Recent, ReportedAt, Keys
<1>5. FreshHeld'
  BY <1>1 DEF IInv, TypeOK, FreshHeld, NotBehind
<1> QED BY <1>1, <1>3, <1>4, <1>5 DEF IInv

\* No contribution, run or tick leaves the invariant.
LEMMA StepPreserves == IInv /\ [Next]_vars => IInv'
<1> SUFFICES ASSUME IInv, [Next]_vars PROVE IInv'
  OBVIOUS
<1>1. ASSUME NEW raw \in SUBSET Nodes, Post(raw) PROVE IInv'
  BY <1>1, PostPreserves
<1>2. ASSUME NEW r \in Runs, Begin(r) PROVE IInv'
  BY <1>2, BeginPreserves
<1>3. ASSUME NEW r \in Runs, List(r) PROVE IInv'
  <2>1. PICK l \in Listed({k \in Keys : Live(k)}) :
          /\ todo' = [todo EXCEPT ![r] = l.keys]
          /\ trunc' = [trunc EXCEPT ![r] = l.truncated]
    BY <1>3 DEF List
  <2>2. l.keys \subseteq Keys /\ l.truncated \in BOOLEAN
    BY ListedKeys
  <2>3. /\ pc' = [pc EXCEPT ![r] = "fetch"]
        /\ UNCHANGED <<now, posted, pool, at, seen, started, missed, overtaken>>
    BY <1>3 DEF List
  <2>4. Keys \subseteq Nat
    BY DEF IInv, TypeOK, Keys
  <2>5. TypeOK'
    BY <2>1, <2>2, <2>3, <2>4 DEF IInv, TypeOK, NodeMap, Keys
  <2>6. AllRecent'
    BY <2>3 DEF IInv, AllRecent, Recent, ReportedAt, Keys
  <2>7. pc[r] # "idle"
    BY <1>3 DEF List
  <2>8. FreshHeld'
    BY <2>3, <2>7 DEF IInv, TypeOK, FreshHeld, NotBehind
  <2> QED BY <2>3, <2>5, <2>6, <2>8 DEF IInv
<1>4. ASSUME NEW r \in Runs, NEW k \in todo[r], Fetch(r, k) PROVE IInv'
  BY <1>4, FetchPreserves
<1>5. ASSUME NEW r \in Runs, NEW k \in todo[r], FetchNothing(r, k) PROVE IInv'
  <2>1. /\ todo' = [todo EXCEPT ![r] = todo[r] \ {k}]
        /\ missed' = [missed EXCEPT ![r] = missed[r] \cup {k}]
        /\ UNCHANGED <<now, posted, pool, pc, at, seen, trunc, started, overtaken>>
    BY <1>5 DEF FetchNothing
  <2>2. TypeOK'
    BY <2>1 DEF IInv, TypeOK, NodeMap, Keys
  <2>3. AllRecent' /\ FreshHeld'
    BY <2>1 DEF IInv, AllRecent, Recent, ReportedAt, Keys, FreshHeld, NotBehind
  <2> QED BY <2>1, <2>2, <2>3 DEF IInv
<1>6. ASSUME NEW r \in Runs, Publish(r) PROVE IInv'
  BY <1>6, PublishPreserves
<1>7. ASSUME NEW r \in Runs, Abandon(r) PROVE IInv'
  BY <1>7, AbandonPreserves
<1>8. CASE Tick
  <2>1. now' = now + 1 /\ UNCHANGED <<posted, pool, pc, at, seen, todo, trunc, missed, overtaken, started>>
    BY <1>8 DEF Tick, runVars
  <2>2. TypeOK'
    BY <2>1 DEF IInv, TypeOK, NodeMap, Keys
  <2>3. AllRecent' /\ FreshHeld'
    BY <2>1 DEF IInv, AllRecent, Recent, ReportedAt, Keys, FreshHeld, NotBehind
  <2> QED BY <2>1, <2>2, <2>3 DEF IInv
<1>9. CASE UNCHANGED vars
  <2>1. UNCHANGED <<now, posted, pool, pc, at, seen, todo, trunc, missed, overtaken, started>>
    BY <1>9 DEF vars, runVars
  <2>2. TypeOK'
    BY <2>1 DEF IInv, TypeOK, NodeMap, Keys
  <2>3. AllRecent' /\ FreshHeld'
    BY <2>1 DEF IInv, AllRecent, Recent, ReportedAt, Keys, FreshHeld, NotBehind
  <2> QED BY <2>1, <2>2, <2>3 DEF IInv
<1> QED BY <1>1, <1>2, <1>3, <1>4, <1>5, <1>6, <1>7, <1>8, <1>9 DEF Next

-----------------------------------------------------------------------------
\* The inductive invariant holds in every reachable state.
THEOREM Invariance == Spec => []IInv
BY InitEstablishes, StepPreserves, PTL DEF Spec

\* Type correctness: pool, maps and program counters keep their types.
THEOREM TypeCorrect == Spec => []TypeOK
<1>1. IInv => TypeOK
  BY DEF IInv
<1> QED BY <1>1, Invariance, PTL

\* Through any number of runs that carry it over, overlap or fail: a pooled
\* node's lastSeen is the time of a contribution that named it, no older than
\* the contribution TTL, and a pool holds at most MAX_POOL_NODES.
THEOREM NothingStale == Spec => []NothingStaleIsPooled
<1>1. IInv => NothingStaleIsPooled
  BY DEF IInv, AllRecent, Recent, NothingStaleIsPooled
<1> QED BY <1>1, Invariance, PTL

\* A run that was not overtaken drops a fresh node only for better ones.
THEOREM FreshSurvive == Spec => FreshNodesSurvive
<1>1. ASSUME IInv, NEW r \in Runs, Publish(r), ~overtaken[r],
             NEW n \in DOMAIN pool.nodes,
             at[r] - pool.nodes[n].lastSeen <= ContribTtl
      PROVE  IF n \in DOMAIN pool'.nodes
             THEN ~Outranks(pool.nodes[n], pool'.nodes[n])
             ELSE CrowdedOut(pool.nodes[n], pool'.nodes)
  <2>1. pc[r] # "idle"
    BY <1>1 DEF Publish
  <2>2. n \in DOMAIN seen[r] /\ NotBehind(pool.nodes[n], seen[r][n])
    BY <1>1, <2>1 DEF IInv, FreshHeld
  <2>3. PICK D \in Kept(seen[r]) : pool'.nodes = [m \in D |-> seen[r][m]]
    BY <1>1 DEF Publish
  <2>4. /\ pool.nodes[n] \in Entry
        /\ \A m \in DOMAIN seen[r] : seen[r][m] \in Entry
    BY <1>1 DEF IInv, TypeOK, NodeMap
  <2>5. CASE n \in D
    BY <2>2, <2>3, <2>4, <2>5 DEF NotBehind, Outranks, Entry
  <2>6. CASE n \notin D
    <3>1. /\ D \subseteq DOMAIN seen[r]
          /\ Cardinality(D) = MaxPool
          /\ \A m \in D : ~Outranks(seen[r][n], seen[r][m])
      BY <2>2, <2>6 DEF Kept
    <3>2. ASSUME NEW m \in D PROVE ~Outranks(pool.nodes[n], seen[r][m])
      BY <2>2, <2>4, <3>1, <3>2 DEF NotBehind, Outranks, Entry
    <3> QED BY <2>3, <2>6, <3>1, <3>2 DEF CrowdedOut
  <2> QED BY <2>3, <2>5, <2>6
<1>2. IInv /\ [Next]_vars =>
        [\A r \in Runs : Publish(r) /\ ~overtaken[r] =>
           \A n \in DOMAIN pool.nodes :
             LET e == pool.nodes[n]
             IN at[r] - e.lastSeen <= ContribTtl =>
                  IF n \in DOMAIN pool'.nodes
                  THEN ~Outranks(e, pool'.nodes[n])
                  ELSE CrowdedOut(e, pool'.nodes)]_vars
  BY <1>1
<1> QED BY <1>2, Invariance, PTL DEF Spec, FreshNodesSurvive
-----------------------------------------------------------------------------
(* Nobody live is left out.                                                    *)

\* The contributions a run owes n: live, older than the run, read by now and
\* not missed.
Owed(r, n) ==
  {k \in Keys \ (missed[r] \cup todo[r]) :
     Live(k) /\ posted[k].ts < at[r] /\ n \in posted[k].nodes}

\* While it reads, a run whose sweep was not cut has counted what it owes.
CountedSoFar ==
  \A r \in Runs : pc[r] = "fetch" /\ ~trunc[r] =>
    \A n \in Public : Owed(r, n) # {} =>
      n \in DOMAIN seen[r] /\ seen[r][n].sources >= Cardinality(Owed(r, n))

\* What is owed is countable, and part of the debt is no larger than the debt.
LEMMA OwedIsFinite ==
  ASSUME TypeOK, NEW r \in Runs, NEW n
  PROVE  /\ IsFiniteSet(Owed(r, n))
         /\ Cardinality(Owed(r, n)) \in Nat
         /\ \A K \in SUBSET Owed(r, n) :
              IsFiniteSet(K) /\ Cardinality(K) \in Nat /\ Cardinality(K) <= Cardinality(Owed(r, n))
<1>1. Len(posted) \in Nat /\ Keys = 1..Len(posted)
  BY DEF TypeOK, Keys
<1>2. IsFiniteSet(Keys)
  BY <1>1, FS_Interval
<1>3. Owed(r, n) \subseteq Keys
  BY DEF Owed
<1>4. IsFiniteSet(Owed(r, n))
  BY <1>2, <1>3, FS_Subset
<1> QED BY <1>4, FS_Subset, FS_CardinalityType

\* A run whose map is as it was, and whose debts are no more than they were,
\* still has counted them.
LEMMA DebtShrinks ==
  ASSUME IInv, CountedSoFar, NEW r \in Runs, pc[r] = "fetch", ~trunc[r], NEW n \in Public,
         Owed(r, n)' \subseteq Owed(r, n), Owed(r, n)' # {}, seen'[r] = seen[r]
  PROVE  n \in DOMAIN seen'[r] /\ seen'[r][n].sources >= Cardinality(Owed(r, n)')
<1>1. n \in DOMAIN seen[r] /\ seen[r][n].sources >= Cardinality(Owed(r, n))
  BY DEF CountedSoFar
<1>2. seen[r][n].sources \in Nat
  BY <1>1 DEF IInv, TypeOK, NodeMap, Entry
<1>3. Cardinality(Owed(r, n)') <= Cardinality(Owed(r, n))
      /\ Cardinality(Owed(r, n)) \in Nat /\ Cardinality(Owed(r, n)') \in Nat
  BY OwedIsFinite DEF IInv
<1> QED BY <1>1, <1>2, <1>3

\* A fetched body is one more source for everybody it names.
LEMMA FetchCounts ==
  ASSUME IInv, CountedSoFar, NEW r \in Runs, NEW k \in todo[r], Fetch(r, k), ~trunc[r],
         NEW n \in Public, Owed(r, n)' # {}
  PROVE  n \in DOMAIN seen'[r] /\ seen'[r][n].sources >= Cardinality(Owed(r, n)')
<1>1. /\ pc[r] = "fetch"
      /\ todo' = [todo EXCEPT ![r] = todo[r] \ {k}]
      /\ seen' = [seen EXCEPT ![r] = Heard(seen[r], posted[k])]
      /\ UNCHANGED <<now, posted, at, missed>>
  BY DEF Fetch
<1>2. seen'[r] = Heard(seen[r], posted[k]) /\ todo'[r] = todo[r] \ {k}
  BY <1>1 DEF IInv, TypeOK
<1>3. Owed(r, n)' \subseteq Owed(r, n) \cup {k}
  BY <1>1, <1>2 DEF Owed, Keys, Live
<1>4. DOMAIN Heard(seen[r], posted[k]) = DOMAIN seen[r] \cup posted[k].nodes
  BY DEF Heard
<1>5. \A m \in DOMAIN seen[r] : seen[r][m].sources \in Nat
  BY DEF IInv, TypeOK, NodeMap, Entry
<1>6. Owed(r, n) # {} => n \in DOMAIN seen[r] /\ seen[r][n].sources >= Cardinality(Owed(r, n))
  BY <1>1 DEF CountedSoFar
<1>7. /\ IsFiniteSet(Owed(r, n)) /\ Cardinality(Owed(r, n)) \in Nat
      /\ \A K \in SUBSET Owed(r, n) :
           Cardinality(K) \in Nat /\ Cardinality(K) <= Cardinality(Owed(r, n))
  BY OwedIsFinite DEF IInv
<1>8. CASE n \notin posted[k].nodes
  <2>1. Owed(r, n)' \subseteq Owed(r, n)
    BY <1>1, <1>2, <1>8 DEF Owed, Keys, Live
  <2>2. n \in DOMAIN seen[r] /\ seen[r][n].sources >= Cardinality(Owed(r, n))
    BY <1>6, <2>1
  <2>3. Heard(seen[r], posted[k])[n] = seen[r][n]
    BY <1>8, <2>2 DEF Heard
  <2>4. Cardinality(Owed(r, n)') \in Nat /\ Cardinality(Owed(r, n)') <= Cardinality(Owed(r, n))
    BY <1>7, <2>1
  <2> QED BY <1>2, <1>4, <1>5, <1>7, <2>2, <2>3, <2>4
<1>9. CASE n \in posted[k].nodes
  <2>1. /\ Cardinality(Owed(r, n) \cup {k}) \in Nat
        /\ Cardinality(Owed(r, n) \cup {k}) <= Cardinality(Owed(r, n)) + 1
        /\ IsFiniteSet(Owed(r, n) \cup {k})
    <3>1. /\ IsFiniteSet(Owed(r, n) \cup {k})
          /\ Cardinality(Owed(r, n) \cup {k}) =
               IF k \in Owed(r, n) THEN Cardinality(Owed(r, n)) ELSE Cardinality(Owed(r, n)) + 1
      BY <1>7, FS_AddElement
    <3> QED BY <1>7, <3>1
  <2>2. /\ Cardinality(Owed(r, n)') \in Nat
        /\ Cardinality(Owed(r, n)') <= Cardinality(Owed(r, n)) + 1
    BY <1>3, <1>7, <2>1, FS_Subset, FS_CardinalityType
  <2>3. CASE n \in DOMAIN seen[r]
    <3>1. Heard(seen[r], posted[k])[n].sources = seen[r][n].sources + 1
      BY <1>9, <2>3 DEF Heard
    <3>2. Owed(r, n) = {} => Cardinality(Owed(r, n)) = 0
      BY FS_EmptySet
    <3> QED BY <1>2, <1>4, <1>5, <1>6, <1>7, <1>9, <2>2, <2>3, <3>1, <3>2
  <2>4. CASE n \notin DOMAIN seen[r]
    <3>1. Heard(seen[r], posted[k])[n].sources = 1
      BY <1>9, <2>4 DEF Heard
    <3>2. Owed(r, n) = {} /\ Cardinality(Owed(r, n)) = 0
      BY <1>6, <2>4, FS_EmptySet
    <3> QED BY <1>2, <1>4, <1>9, <2>2, <3>1, <3>2
  <2> QED BY <2>3, <2>4
<1> QED BY <1>8, <1>9

\* A sweep that was not cut lists whatever is live: nothing is owed yet.
LEMMA ListOwesNothing ==
  ASSUME IInv, NEW r \in Runs, List(r), ~trunc'[r], NEW n
  PROVE  Owed(r, n)' = {}
<1>1. PICK l \in Listed({k \in Keys : Live(k)}) :
        /\ todo' = [todo EXCEPT ![r] = l.keys]
        /\ trunc' = [trunc EXCEPT ![r] = l.truncated]
  BY DEF List
<1>2. UNCHANGED <<now, posted>>
  BY DEF List
<1>3. todo'[r] = l.keys /\ trunc'[r] = l.truncated
  BY <1>1 DEF IInv, TypeOK
<1>4. l.keys = {k \in Keys : Live(k)}
  BY <1>3 DEF Listed
<1> QED BY <1>2, <1>3, <1>4 DEF Owed, Keys, Live

\* No step leaves a live contribution uncounted.
LEMMA StepCounts == IInv /\ CountedSoFar /\ [Next]_vars => CountedSoFar'
<1> SUFFICES ASSUME IInv, CountedSoFar, [Next]_vars,
                    NEW q \in Runs, pc'[q] = "fetch", ~trunc'[q],
                    NEW n \in Public, Owed(q, n)' # {}
             PROVE  n \in DOMAIN seen'[q] /\ seen'[q][n].sources >= Cardinality(Owed(q, n)')
  BY DEF CountedSoFar
<1> DEFINE Goal == n \in DOMAIN seen'[q] /\ seen'[q][n].sources >= Cardinality(Owed(q, n)')
<1> HIDE DEF Goal
<1>0. Goal \/ ~(/\ pc[q] = "fetch" /\ ~trunc[q]
                /\ Owed(q, n)' \subseteq Owed(q, n) /\ seen'[q] = seen[q])
  BY DebtShrinks DEF Goal
<1>1. ASSUME NEW raw \in SUBSET Nodes, Post(raw) PROVE Goal
  <2> DEFINE c == [nodes |-> Accepted(raw), ts |-> now]
  <2>1. posted' = Append(posted, c) /\ UNCHANGED <<now, pc, at, seen, todo, trunc, missed>>
    BY <1>1 DEF Post, runVars
  <2>2. posted \in Seq(Contribution) /\ at[q] \in Nat /\ at[q] <= now /\ now \in Nat
    BY DEF IInv, TypeOK
  <2>3. ASSUME NEW k \in Keys' PROVE (k \in Keys /\ posted'[k] = posted[k]) \/ posted'[k].ts = now
    BY <2>1, <2>2, <2>3 DEF Keys
  <2>4. Owed(q, n)' \subseteq Owed(q, n)
    <3> SUFFICES ASSUME NEW k \in Owed(q, n)' PROVE k \in Owed(q, n)
      OBVIOUS
    <3>1. /\ k \in Keys' /\ k \notin missed[q] \cup todo[q]
          /\ now < posted'[k].ts + ContribTtl
          /\ posted'[k].ts < at[q] /\ n \in posted'[k].nodes
      BY <2>1 DEF Owed, Live
    <3>2. k \in Keys /\ posted'[k] = posted[k]
      BY <2>2, <2>3, <3>1
    <3> QED BY <3>1, <3>2 DEF Owed, Live
  <2> QED BY <1>0, <2>1, <2>4
<1>2. ASSUME NEW r \in Runs, Begin(r) PROVE Goal
  <2>1. q # r /\ pc'[q] = pc[q] /\ at'[q] = at[q] /\ seen'[q] = seen[q] /\ missed'[q] = missed[q]
        /\ UNCHANGED <<now, posted, todo, trunc>>
    BY <1>2 DEF Begin, IInv, TypeOK
  <2>2. Owed(q, n)' \subseteq Owed(q, n)
    BY <2>1 DEF Owed, Keys, Live
  <2> QED BY <1>0, <2>1, <2>2
<1>3. ASSUME NEW r \in Runs, List(r) PROVE Goal
  <2>1. CASE q = r
    BY <1>3, <2>1, ListOwesNothing
  <2>2. CASE q # r
    <3>1. pc'[q] = pc[q] /\ todo'[q] = todo[q] /\ trunc'[q] = trunc[q]
          /\ UNCHANGED <<now, posted, at, seen, missed>>
      BY <1>3, <2>2 DEF List, IInv, TypeOK
    <3>2. Owed(q, n)' \subseteq Owed(q, n)
      BY <3>1 DEF Owed, Keys, Live
    <3> QED BY <1>0, <3>1, <3>2
  <2> QED BY <2>1, <2>2
<1>4. ASSUME NEW r \in Runs, NEW k \in todo[r], Fetch(r, k) PROVE Goal
  <2>1. UNCHANGED <<now, posted, pc, at, trunc, missed>>
    BY <1>4 DEF Fetch
  <2>2. CASE q = r
    BY <1>4, <2>1, <2>2, FetchCounts DEF Goal
  <2>3. CASE q # r
    <3>1. seen'[q] = seen[q] /\ todo'[q] = todo[q]
      BY <1>4, <2>3 DEF Fetch, IInv, TypeOK
    <3>2. Owed(q, n)' \subseteq Owed(q, n)
      BY <2>1, <3>1 DEF Owed, Keys, Live
    <3> QED BY <1>0, <2>1, <3>1, <3>2
  <2> QED BY <2>2, <2>3
<1>5. ASSUME NEW r \in Runs, NEW k \in todo[r], FetchNothing(r, k) PROVE Goal
  <2>1. /\ missed' = [missed EXCEPT ![r] = missed[r] \cup {k}]
        /\ todo' = [todo EXCEPT ![r] = todo[r] \ {k}]
        /\ UNCHANGED <<now, posted, pc, at, seen, trunc>>
    BY <1>5 DEF FetchNothing
  <2>2. missed[q] \cup todo[q] \subseteq missed'[q] \cup todo'[q]
    BY <2>1 DEF IInv, TypeOK
  <2>3. Owed(q, n)' \subseteq Owed(q, n)
    BY <2>1, <2>2 DEF Owed, Keys, Live
  <2> QED BY <1>0, <2>1, <2>3
<1>6. ASSUME NEW r \in Runs, Publish(r) \/ Abandon(r) PROVE Goal
  <2>1. Over(r) /\ UNCHANGED <<now, posted>>
    BY <1>6 DEF Publish, Abandon
  <2>2. q # r
    BY <2>1 DEF Over, IInv, TypeOK
  <2>3. /\ pc'[q] = pc[q] /\ at'[q] = at[q] /\ seen'[q] = seen[q]
        /\ todo'[q] = todo[q] /\ trunc'[q] = trunc[q] /\ missed'[q] = missed[q]
    BY <2>1, <2>2 DEF Over, IInv, TypeOK
  <2>4. Owed(q, n)' \subseteq Owed(q, n)
    BY <2>1, <2>3 DEF Owed, Keys, Live
  <2> QED BY <1>0, <2>3, <2>4
<1>7. ASSUME Tick PROVE Goal
  <2>1. now' = now + 1 /\ UNCHANGED <<posted, pc, at, seen, todo, trunc, missed>>
    BY <1>7 DEF Tick, runVars
  <2>2. Owed(q, n)' \subseteq Owed(q, n)
    <3>1. now \in Nat /\ ContribTtl \in Nat /\ \A k \in Keys : posted[k].ts \in Nat
      <4>1. posted \in Seq(Contribution) /\ now \in Nat
        BY DEF IInv, TypeOK
      <4>2. \A k \in Keys : posted[k] \in Contribution
        BY <4>1 DEF Keys
      <4> QED BY LimitsAssumption, <4>1, <4>2 DEF Contribution
    <3> QED BY <2>1, <3>1 DEF Owed, Keys, Live
  <2> QED BY <1>0, <2>1, <2>2
<1>8. ASSUME UNCHANGED vars PROVE Goal
  <2>1. UNCHANGED <<now, posted, pc, at, seen, todo, trunc, missed>>
    BY <1>8 DEF vars, runVars
  <2>2. Owed(q, n)' \subseteq Owed(q, n)
    BY <2>1 DEF Owed, Keys, Live
  <2> QED BY <1>0, <2>1, <2>2
<1>9. Goal
  BY <1>1, <1>2, <1>3, <1>4, <1>5, <1>6, <1>7, <1>8 DEF Next
<1> QED BY <1>9 DEF Goal

\* A run about to publish has counted every contribution that was live when it
\* began and still is, unless it could not be read or the sweep says it was cut.
THEOREM LiveKeysAreCounted == Spec => []EveryLiveKeyIsCounted
<1>1. Init => CountedSoFar
  BY DEF Init, CountedSoFar
<1>2. IInv /\ CountedSoFar => EveryLiveKeyIsCounted
  <2> SUFFICES ASSUME IInv, CountedSoFar, NEW r \in Runs,
                      pc[r] = "fetch", todo[r] = {}, ~trunc[r], NEW k \in Keys \ missed[r],
                      Live(k), posted[k].ts < at[r], NEW n \in posted[k].nodes
               PROVE  /\ n \in DOMAIN seen[r]
                      /\ seen[r][n].sources >=
                           Cardinality({j \in {j \in Keys \ missed[r] : Live(j) /\ posted[j].ts < at[r]} :
                                          n \in posted[j].nodes})
    BY DEF EveryLiveKeyIsCounted
  <2>1. n \in Public
    <3>1. posted[k] \in Contribution
      BY DEF IInv, TypeOK, Keys
    <3> QED BY <3>1 DEF Contribution
  <2>2. Owed(r, n) = {j \in {j \in Keys \ missed[r] : Live(j) /\ posted[j].ts < at[r]} :
                        n \in posted[j].nodes}
    BY DEF Owed
  <2>3. Owed(r, n) # {}
    BY <2>2
  <2> QED BY <2>1, <2>2, <2>3 DEF CountedSoFar
<1> QED BY <1>1, <1>2, Invariance, StepCounts, PTL DEF Spec
=============================================================================
