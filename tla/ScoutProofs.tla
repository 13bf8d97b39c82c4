------------------------------ MODULE ScoutProofs ------------------------------
(* Theorems about Scout, for any number of processes, nodes and calls: what the *)
(* shared file may forget and renew, and what a dead control plane may cost.    *)
EXTENDS Scout, FiniteSetTheorems, TLAPS

\* No time on record lies ahead, and a routing table knows no later answer of a
\* node than the node has given.
PastInv ==
  /\ \A n \in Nodes :
       /\ nodes[n] # None => nodes[n] <= now
       /\ answered[n] # None => answered[n] <= now
  /\ \A e \in Engines, n \in Nodes :
       table[e][n] # None => answered[n] # None /\ table[e][n] <= answered[n]

\* A read the ranking waits for has its deadline.
ReadsInv ==
  \A e \in Engines, c \in Callers : reading[e][c] # None =>
    reading[e][c] <= now /\ now <= reading[e][c] + ReadTimeout

\* What a caller has waited for a dead control plane is paid for by the time the
\* breaker lets a read through again, whichever call's failure opened it; while
\* the caller waits once more, by when that wait began.
CostInv ==
  dead => \A e \in Engines :
    /\ openUntil[e] <= now + BreakerTime
    /\ \A c \in Callers :
         /\ waited[e][c] * (ReadTimeout + BreakerTime) <= ReadTimeout * openUntil[e]
         /\ reading[e][c] # None =>
              waited[e][c] * (ReadTimeout + BreakerTime) <= ReadTimeout * reading[e][c]

IInv == TypeOK /\ PastInv /\ ReadsInv /\ CostInv

-----------------------------------------------------------------------------
(* The rows a transaction may leave.                                           *)

\* Rows are stamped: those given are seen now, at most MaxNodes stay, and a row
\* that goes made room for MaxNodes seen no earlier.
LEMMA RowsAre ==
  ASSUME NEW fresh, fresh \subseteq Nodes,
         nodes \in Stamps, now \in Time,
         \A n \in Nodes : nodes[n] # None => nodes[n] <= now,
         NEW rows \in Rows(fresh)
  PROVE  /\ rows \in Stamps
         /\ \A n \in Nodes : rows[n] # None => rows[n] <= now
         /\ \A n \in Nodes : rows[n] \notin {nodes[n], None} => n \in fresh
         /\ Cardinality({n \in Nodes : rows[n] # None}) <= MaxNodes
         /\ \A n \in Known(nodes) \ Known(rows) :
              /\ Cardinality(Known(rows)) = MaxNodes
              /\ \A m \in Known(rows) : rows[m] >= nodes[n]
<1> DEFINE upserted == [n \in Nodes |-> IF n \in fresh THEN now ELSE nodes[n]]
           known == Known(upserted)
<1>1. PICK kept \in Freshest(upserted, MaxNodes) : rows = Only(kept, upserted)
  BY DEF Rows
<1>2. /\ upserted \in Stamps /\ DOMAIN upserted = Nodes
      /\ \A n \in Nodes : upserted[n] = IF n \in fresh THEN now ELSE nodes[n]
  BY DEF Stamps
<1>3. now # None /\ now \in Nat /\ MaxNow \in Nat
  BY TimesAssumption DEF Time
<1>4. /\ known = {n \in Nodes : upserted[n] # None}
      /\ known \subseteq Nodes /\ IsFiniteSet(known) /\ Cardinality(known) \in Nat
  BY <1>2, NodesAssumption, FS_Subset, FS_CardinalityType DEF Known
<1>5. \/ kept = known /\ Cardinality(known) <= MaxNodes
      \/ /\ kept \subseteq known /\ Cardinality(kept) = MaxNodes
         /\ \A n \in kept, m \in known \ kept : upserted[n] >= upserted[m]
  BY <1>1 DEF Freshest, kSubset
<1> HIDE DEF upserted, known
<1>6. kept \subseteq known /\ Cardinality(kept) <= MaxNodes
  BY <1>5, NodesAssumption
<1>7. /\ DOMAIN rows = Nodes
      /\ rows = [n \in Nodes |-> IF n \in kept THEN upserted[n] ELSE None]
  BY <1>1, <1>2 DEF Only
<1>8. \A n \in Nodes : rows[n] = IF n \in kept THEN upserted[n] ELSE None
  BY <1>7
<1>9. Known(rows) = kept /\ {n \in Nodes : rows[n] # None} = kept
  BY <1>4, <1>6, <1>7, <1>8 DEF Known
<1>10. rows \in Stamps
  BY <1>2, <1>7 DEF Stamps
<1>11. \A n \in Nodes : upserted[n] # None => upserted[n] <= now
  BY <1>2, <1>3
<1>12. \A n \in Nodes : rows[n] # None => rows[n] <= now
  BY <1>8, <1>11
<1>13. \A n \in Nodes : rows[n] \notin {nodes[n], None} => n \in fresh
  BY <1>2, <1>8
<1>14. ASSUME NEW n \in Known(nodes) \ Known(rows)
       PROVE  /\ Cardinality(Known(rows)) = MaxNodes
              /\ \A m \in Known(rows) : rows[m] >= nodes[n]
  <2>1. n \in Nodes /\ nodes[n] # None /\ n \notin kept
    BY <1>9, <1>14 DEF Known, Stamps
  <2>2. n \in known \ kept
    BY <1>2, <1>3, <1>4, <2>1
  <2>3. Cardinality(kept) = MaxNodes /\ \A m \in kept : upserted[m] >= upserted[n]
    BY <1>5, <2>2
  <2>4. upserted[n] >= nodes[n] /\ upserted[n] \in Nat /\ nodes[n] \in Nat
    BY <1>2, <1>3, <2>1 DEF Stamps, Time
  <2>5. ASSUME NEW m \in kept PROVE rows[m] >= nodes[n]
    <3>1. m \in Nodes /\ upserted[m] # None /\ rows[m] = upserted[m]
      BY <1>4, <1>6, <1>8, <2>5
    <3>2. upserted[m] \in Nat
      BY <1>2, <3>1 DEF Stamps, Time
    <3> QED BY <2>3, <2>4, <3>1, <3>2
  <2> QED BY <1>9, <2>3, <2>5
<1> QED BY <1>6, <1>9, <1>10, <1>12, <1>13, <1>14

\* What a step may do to the rows: nothing, or what one transaction does.
Stored(fresh) == nodes' = nodes \/ nodes' \in Rows(fresh)

\* A transaction that gives nodes answers, or those of the older file.
LEMMA MigrateStores ==
  ASSUME Migrate
  PROVE  \/ UNCHANGED <<nodes, swarms>>
         \/ /\ ~swarms /\ swarms'
            /\ \E fresh \in SUBSET Legacy : Stored(fresh)
<1>1. CASE Legacy = {} \/ swarms
  BY <1>1 DEF Migrate
<1>2. CASE ~(Legacy = {} \/ swarms)
  <2>1. PICK first \in Freshest([n \in Legacy |-> 0], MaxNodes) : SetNodes(first)
    BY <1>2 DEF Migrate
  <2>2. first \subseteq Legacy
    BY <2>1 DEF Freshest, Known, kSubset
  <2> QED BY <1>2, <2>1, <2>2 DEF Migrate, SetNodes, Stored
<1> QED BY <1>1, <1>2

LEMMA PersistStores ==
  ASSUME NEW e \in Engines, table \in [Engines -> Stamps], PersistNodes(e)
  PROVE  \E fresh \in SUBSET Responsive(e) : Stored(fresh)
<1> DEFINE responsive == Only(Responsive(e), table[e])
<1>1. DOMAIN table[e] = Nodes
  BY DEF Stamps
<1>2. Known(responsive) \subseteq Responsive(e)
  BY <1>1 DEF Known, Only
<1>3. CASE UNCHANGED nodes
  BY <1>3 DEF Stored
<1>4. CASE \E first \in Freshest(responsive, MaxNodes) : SetNodes(first)
  <2>1. PICK first \in Freshest(responsive, MaxNodes) : SetNodes(first)
    BY <1>4
  <2>2. first \subseteq Known(responsive)
    BY <2>1 DEF Freshest, kSubset
  <2> QED BY <1>2, <2>1, <2>2 DEF SetNodes, Stored
<1> QED BY <1>3, <1>4 DEF PersistNodes

\* The responsive nodes answered within the time.
LEMMA ResponsiveAreRecent ==
  ASSUME IInv, NEW e \in Engines, NEW n \in Responsive(e)
  PROVE  n \in Nodes /\ Recent(n)
<1> USE DEF IInv
<1>1. table[e] \in Stamps /\ DOMAIN table[e] = Nodes
  BY DEF TypeOK, Stamps
<1>2. n \in Nodes /\ table[e][n] # None /\ table[e][n] >= now - AnsweredWithin
  BY <1>1 DEF Responsive, Known
<1>3. answered[n] # None /\ table[e][n] <= answered[n]
  BY <1>2 DEF PastInv
<1>4. answered \in Stamps
  BY DEF TypeOK
<1>5. now \in Nat /\ AnsweredWithin \in Nat /\ table[e][n] \in Nat /\ answered[n] \in Nat
  BY <1>1, <1>2, <1>3, <1>4, TimesAssumption DEF TypeOK, Stamps, Time
<1> QED BY <1>2, <1>3, <1>5 DEF Recent

\* Every step stores nothing, nodes that answered, or, once, an older file's.
LEMMA StepStores ==
  ASSUME IInv, [Next]_vars
  PROVE  \/ nodes' = nodes
         \/ \E fresh \in SUBSET Nodes :
              /\ nodes' \in Rows(fresh)
              /\ \A n \in fresh : Recent(n) \/ (n \in Legacy /\ ~swarms /\ swarms')
<1>1. ASSUME NEW e \in Engines, Start(e)
      PROVE  \/ nodes' = nodes
             \/ \E fresh \in SUBSET Legacy : nodes' \in Rows(fresh) /\ ~swarms /\ swarms'
  BY <1>1, MigrateStores DEF Start, Stored
<1>2. ASSUME NEW e \in Engines, Persist(e) \/ Destroy(e)
      PROVE  \/ nodes' = nodes
             \/ \E fresh \in SUBSET Responsive(e) : nodes' \in Rows(fresh)
  <2>1. PersistNodes(e)
    BY <1>2 DEF Persist, Destroy
  <2> QED BY <2>1, PersistStores DEF IInv, TypeOK, Stored
<1>3. ASSUME NEW e \in Engines, \/ Crash(e)
                                \/ \E c \in Callers : \/ Read(e, c)
                                                     \/ \E ok \in BOOLEAN : ReadEnds(e, c, ok)
                                \/ \E ok \in BOOLEAN : FlyingEnds(e, ok)
                                \/ \E n \in Nodes : NodeAnswers(e, n) \/ NodeDropped(e, n)
      PROVE  nodes' = nodes
  BY <1>3 DEF Crash, Read, ReadEnds, FlyingEnds, NodeAnswers, NodeDropped, memory
<1>4. CASE Tick \/ Scored \/ SwarmsEvicted \/ UNCHANGED vars
  BY <1>4 DEF Tick, Scored, SwarmsEvicted, vars, memory
<1>5. ASSUME NEW e \in Engines, NEW fresh \in SUBSET Responsive(e)
      PROVE  fresh \subseteq Nodes /\ \A n \in fresh : Recent(n)
  BY <1>5, ResponsiveAreRecent
<1> QED BY <1>1, <1>2, <1>3, <1>4, <1>5, NodesAssumption DEF Next

-----------------------------------------------------------------------------
(* The arithmetic of the breaker.                                              *)

\* A longer time costs no less.
LEMMA TimesGrow ==
  ASSUME NEW a \in Nat, NEW b \in Nat, NEW k \in Nat, a <= b
  PROVE  k * a <= k * b
OBVIOUS

\* One more read of a dead control plane, paid for by the breaker time after it.
LEMMA OneMoreRead ==
  ASSUME NEW limit \in Nat, NEW rest \in Nat, NEW before \in Nat,
         NEW began \in Nat, NEW ended \in Nat, began <= ended, ended <= began + limit,
         before * (limit + rest) <= limit * began
  PROVE  (before + (ended - began)) * (limit + rest) <= limit * (ended + rest)
<1> DEFINE wait == ended - began
<1>1. wait \in Nat /\ wait <= limit /\ ended = began + wait
  OBVIOUS
<1> HIDE DEF wait
<1>2. (before + wait) * (limit + rest)
        = before * (limit + rest) + limit * wait + rest * wait
  BY <1>1
<1>3. rest * wait <= rest * limit
  BY <1>1, TimesGrow
<1>4. limit * (began + wait + rest) = limit * began + limit * wait + rest * limit
  BY <1>1
<1>5. /\ before * (limit + rest) \in Int /\ limit * began \in Int
      /\ limit * wait \in Int /\ rest * wait \in Int /\ rest * limit \in Int
  BY <1>1
<1>6. (before + wait) * (limit + rest) <= limit * (began + wait + rest)
  BY <1>2, <1>3, <1>4, <1>5
<1> QED BY <1>1, <1>6 DEF wait
-----------------------------------------------------------------------------
(* Every step keeps the invariant.                                             *)

LEMMA InitEstablishes == Init => IInv
<1> SUFFICES ASSUME Init PROVE IInv
  OBVIOUS
<1>1. 0 \in Time /\ Nobody \in Stamps /\ \A n \in Nodes : Nobody[n] = None
  BY TimesAssumption DEF Time, Stamps, Nobody
<1>2. Cardinality({n \in Nodes : nodes[n] # None}) <= MaxNodes
  <2>1. {n \in Nodes : nodes[n] # None} = {}
    BY <1>1 DEF Init
  <2> QED BY <2>1, FS_EmptySet, NodesAssumption
<1>3. 0 \in 0..MaxNow + BreakerTime
  BY TimesAssumption
<1>4. TypeOK
  <2>1. swarms \in BOOLEAN /\ dead \in BOOLEAN
    BY DEF Init
  <2>2. now \in Time /\ nodes \in Stamps /\ answered \in Stamps /\ running \subseteq Engines
        /\ table \in [Engines -> Stamps]
    BY <1>1 DEF Init
  <2>3. /\ openUntil \in [Engines -> 0..MaxNow + BreakerTime]
        /\ reading \in [Engines -> [Callers -> Time \cup {None}]]
        /\ flying \in [Engines -> Nat] /\ waited \in [Engines -> [Callers -> Nat]]
    BY <1>3 DEF Init, NoReads, NoWait
  <2> QED BY <1>2, <2>1, <2>2, <2>3 DEF TypeOK
<1>5. PastInv
  BY <1>1 DEF Init, PastInv
<1>6. ReadsInv /\ CostInv
  BY TimesAssumption DEF Init, NoReads, NoWait, ReadsInv, CostInv
<1> QED BY <1>4, <1>5, <1>6 DEF IInv

\* The rows after a step are rows, as a step stores them.
LEMMA RowsPreserved ==
  ASSUME IInv, [Next]_vars, now' = now
  PROVE  /\ nodes' \in Stamps
         /\ Cardinality({n \in Nodes : nodes'[n] # None}) <= MaxNodes
         /\ \A n \in Nodes : nodes'[n] # None => nodes'[n] <= now
<1>1. /\ nodes \in Stamps /\ now \in Time
      /\ \A n \in Nodes : nodes[n] # None => nodes[n] <= now
      /\ Cardinality({n \in Nodes : nodes[n] # None}) <= MaxNodes
  BY DEF IInv, TypeOK, PastInv
<1>2. CASE nodes' = nodes
  BY <1>1, <1>2
<1>3. ASSUME NEW fresh, fresh \subseteq Nodes, nodes' \in Rows(fresh)
      PROVE  /\ nodes' \in Stamps
             /\ Cardinality({n \in Nodes : nodes'[n] # None}) <= MaxNodes
             /\ \A n \in Nodes : nodes'[n] # None => nodes'[n] <= now
  BY <1>1, <1>3, RowsAre
<1> QED BY <1>2, <1>3, StepStores

\* A step that neither lets time pass nor touches a routing table or a client.
LEMMA StorePreserves ==
  ASSUME IInv, [Next]_vars, swarms' \in BOOLEAN, running' \subseteq Engines,
         UNCHANGED <<now, dead, answered>>,
         \/ UNCHANGED <<table, client>>
         \/ \E e \in Engines, calls \in Nat : Cleared(e, calls)
         \/ /\ UNCHANGED <<table, openUntil, reading, waited>>
            /\ flying' \in [Engines -> Nat]
  PROVE  IInv'
<1> USE DEF IInv
<1>1. /\ nodes' \in Stamps
      /\ Cardinality({n \in Nodes : nodes'[n] # None}) <= MaxNodes
      /\ \A n \in Nodes : nodes'[n] # None => nodes'[n] <= now
  BY RowsPreserved
<1>2. CASE \/ UNCHANGED <<table, client>>
           \/ /\ UNCHANGED <<table, openUntil, reading, waited>>
              /\ flying' \in [Engines -> Nat]
  <2>1. UNCHANGED <<table, openUntil, reading, waited>> /\ flying' \in [Engines -> Nat]
    BY <1>2 DEF client, TypeOK
  <2>2. TypeOK'
    BY <1>1, <2>1 DEF TypeOK
  <2>3. PastInv'
    BY <1>1, <2>1 DEF PastInv
  <2>4. ReadsInv' /\ CostInv'
    BY <2>1 DEF ReadsInv, CostInv
  <2> QED BY <2>2, <2>3, <2>4
<1>3. ASSUME NEW e \in Engines, NEW calls \in Nat, Cleared(e, calls) PROVE IInv'
  <2>1. Nobody \in Stamps /\ (\A n \in Nodes : Nobody[n] = None)
        /\ 0 \in 0..MaxNow + BreakerTime
    BY TimesAssumption DEF Stamps, Nobody
  <2>2. \A f \in Engines :
          /\ table'[f] = IF f = e THEN Nobody ELSE table[f]
          /\ openUntil'[f] = IF f = e THEN 0 ELSE openUntil[f]
          /\ reading'[f] = IF f = e THEN NoReads ELSE reading[f]
          /\ waited'[f] = IF f = e THEN NoWait ELSE waited[f]
    BY <1>3 DEF Cleared, TypeOK
  <2>3. TypeOK'
    BY <1>1, <1>3, <2>1 DEF Cleared, TypeOK, NoReads, NoWait
  <2>4. PastInv'
    BY <1>1, <2>1, <2>2 DEF PastInv
  <2>5. ReadsInv'
    BY <2>2 DEF ReadsInv, NoReads
  <2>6. CostInv'
    <3>1. \A f \in Engines : f = e =>
            /\ openUntil'[f] <= now + BreakerTime
            /\ \A c \in Callers :
                 /\ waited'[f][c] * (ReadTimeout + BreakerTime) <= ReadTimeout * openUntil'[f]
                 /\ reading'[f][c] = None
      BY <2>2, TimesAssumption DEF TypeOK, Time, NoReads, NoWait
    <3> QED BY <2>2, <3>1 DEF CostInv
  <2> QED BY <2>3, <2>4, <2>5, <2>6
<1> QED BY <1>2, <1>3

\* A node answers, or leaves a routing table.
LEMMA TablePreserves ==
  ASSUME IInv, NEW e \in Engines, NEW n \in Nodes, NodeAnswers(e, n) \/ NodeDropped(e, n)
  PROVE  IInv'
<1> USE DEF IInv
<1>1. UNCHANGED <<now, running, dead, nodes, swarms, openUntil, reading, flying, waited>>
  BY DEF NodeAnswers, NodeDropped, memory, client
<1>2. now \in Time /\ now \in Nat /\ now # None
  BY TimesAssumption DEF TypeOK, Time
<1>3. /\ table' \in [Engines -> Stamps] /\ answered' \in Stamps
      /\ \A f \in Engines, m \in Nodes :
           table'[f][m] \in {table[f][m], None} \/ (m = n /\ table'[f][m] = now /\ answered'[n] = now)
      /\ \A m \in Nodes : answered'[m] = answered[m] \/ (m = n /\ answered'[m] = now)
  <2>1. CASE NodeAnswers(e, n)
    BY <1>2, <2>1 DEF NodeAnswers, TypeOK, Stamps
  <2>2. CASE NodeDropped(e, n)
    BY <1>2, <2>2 DEF NodeDropped, TypeOK, Stamps, memory, client
  <2> QED BY <2>1, <2>2
<1>4. TypeOK'
  BY <1>1, <1>3 DEF TypeOK
<1>5. PastInv'
  <2>1. ASSUME NEW f \in Engines, NEW m \in Nodes, table'[f][m] # None
        PROVE  answered'[m] # None /\ table'[f][m] <= answered'[m]
    <3>1. CASE m = n /\ table'[f][m] = now /\ answered'[n] = now
      BY <1>2, <3>1
    <3>2. CASE table'[f][m] = table[f][m]
      <4>1. /\ answered[m] # None /\ table[f][m] <= answered[m] /\ answered[m] <= now
            /\ table[f][m] \in Nat /\ answered[m] \in Nat
        BY <2>1, <3>2 DEF PastInv, TypeOK, Stamps, Time
      <4> QED BY <1>2, <1>3, <3>2, <4>1
    <3> QED BY <1>3, <2>1, <3>1, <3>2
  <2> QED BY <1>1, <1>2, <1>3, <2>1 DEF PastInv
<1>6. ReadsInv' /\ CostInv'
  BY <1>1 DEF ReadsInv, CostInv
<1> QED BY <1>4, <1>5, <1>6

\* A ranking asks the control plane, others asking it or not.
LEMMA ReadPreserves ==
  ASSUME IInv, NEW e \in Engines, NEW c \in Callers, Read(e, c)
  PROVE  IInv'
<1> USE DEF IInv
<1>1. /\ UNCHANGED <<now, running, table, dead, answered, nodes, swarms, openUntil, flying, waited>>
      /\ reading' = [reading EXCEPT ![e][c] = now] /\ now >= openUntil[e]
  BY DEF Read, memory
<1>2. TypeOK'
  BY <1>1 DEF TypeOK
<1>3. \A f \in Engines, d \in Callers :
        reading'[f][d] = IF f = e /\ d = c THEN now ELSE reading[f][d]
  BY <1>1 DEF TypeOK
<1>4. now \in Nat /\ {ReadTimeout, BreakerTime} \subseteq Nat
  BY TimesAssumption DEF TypeOK, Time
<1>5. ReadsInv'
  BY <1>1, <1>3, <1>4 DEF ReadsInv
<1>6. CostInv'
  <2> SUFFICES ASSUME dead PROVE CostInv'
    BY <1>1 DEF CostInv
  <2>1. waited[e][c] * (ReadTimeout + BreakerTime) <= ReadTimeout * now
    <3>1. waited[e][c] * (ReadTimeout + BreakerTime) <= ReadTimeout * openUntil[e]
      BY DEF CostInv
    <3>2. waited[e][c] \in Nat /\ openUntil[e] \in Nat /\ openUntil[e] <= now
      BY <1>1 DEF TypeOK
    <3>3. ReadTimeout * openUntil[e] <= ReadTimeout * now
      BY <1>4, <3>2, TimesGrow
    <3>4. /\ waited[e][c] * (ReadTimeout + BreakerTime) \in Int
          /\ ReadTimeout * openUntil[e] \in Int /\ ReadTimeout * now \in Int
      BY <1>4, <3>2
    <3> QED BY <3>1, <3>3, <3>4
  <2> QED BY <1>1, <1>3, <2>1 DEF CostInv
<1>7. PastInv'
  BY <1>1 DEF PastInv
<1> QED BY <1>2, <1>5, <1>6, <1>7

\* What a call's end leaves of every caller's wait: as it was, or over, the time
\* since it began being added.
WaitGoesOn(f, d) == waited'[f][d] = waited[f][d] /\ reading'[f][d] = reading[f][d]

WaitIsOver(f, d) ==
  /\ reading[f][d] # None /\ reading'[f][d] = None
  /\ waited'[f][d] = waited[f][d] + (now - reading[f][d])

\* A failure opens the breaker for longer: whatever was paid for stays so.
LEMMA OutcomePreservesCost ==
  ASSUME IInv, NEW e \in Engines, NEW ok \in BOOLEAN, Outcome(e, ok), UNCHANGED <<now, dead>>,
         \A f \in Engines, d \in Callers : WaitGoesOn(f, d) \/ (f = e /\ WaitIsOver(f, d))
  PROVE  CostInv'
<1> USE DEF IInv
<1>1. now \in Nat /\ ReadTimeout \in Nat /\ BreakerTime \in Nat /\ now + BreakerTime \in Nat
  BY TimesAssumption DEF TypeOK, Time
<1> SUFFICES ASSUME dead, NEW f \in Engines, NEW d \in Callers
             PROVE  /\ openUntil'[f] <= now + BreakerTime
                    /\ waited'[f][d] * (ReadTimeout + BreakerTime) <= ReadTimeout * openUntil'[f]
                    /\ reading'[f][d] # None =>
                         waited'[f][d] * (ReadTimeout + BreakerTime) <= ReadTimeout * reading'[f][d]
  <2>1. \A f \in Engines : dead => openUntil'[f] <= now + BreakerTime
    BY <1>1 DEF Outcome, Tripped, TypeOK, CostInv
  <2> QED BY <2>1 DEF CostInv
<1>2. /\ openUntil[f] \in Nat /\ openUntil[f] <= now + BreakerTime
      /\ waited[f][d] \in Nat
      /\ waited[f][d] * (ReadTimeout + BreakerTime) <= ReadTimeout * openUntil[f]
  BY DEF TypeOK, CostInv
<1>3. openUntil'[f] = IF f = e THEN now + BreakerTime ELSE openUntil[f]
  BY DEF Outcome, Tripped, TypeOK
<1>4. CASE WaitGoesOn(f, d)
  <2>1. ReadTimeout * openUntil[f] <= ReadTimeout * openUntil'[f] /\ openUntil'[f] \in Nat
    BY <1>1, <1>2, <1>3, TimesGrow
  <2>2. /\ waited[f][d] * (ReadTimeout + BreakerTime) \in Int
        /\ ReadTimeout * openUntil[f] \in Int /\ ReadTimeout * openUntil'[f] \in Int
    BY <1>1, <1>2, <2>1
  <2>3. waited[f][d] * (ReadTimeout + BreakerTime) <= ReadTimeout * openUntil'[f]
    BY <1>2, <2>1, <2>2
  <2>4. openUntil'[f] <= now + BreakerTime
    BY <1>1, <1>2, <1>3
  <2> QED BY <1>4, <2>3, <2>4 DEF WaitGoesOn, CostInv
<1>5. CASE f = e /\ WaitIsOver(f, d)
  <2>1. /\ reading[f][d] \in Nat /\ reading[f][d] <= now /\ now <= reading[f][d] + ReadTimeout
        /\ waited[f][d] * (ReadTimeout + BreakerTime) <= ReadTimeout * reading[f][d]
    BY <1>5 DEF WaitIsOver, TypeOK, Time, ReadsInv, CostInv
  <2>2. (waited[f][d] + (now - reading[f][d])) * (ReadTimeout + BreakerTime)
          <= ReadTimeout * (now + BreakerTime)
    BY <1>1, <1>2, <2>1, OneMoreRead
  <2> QED BY <1>1, <1>3, <1>5, <2>2 DEF WaitIsOver
<1> QED BY <1>4, <1>5

\* A call ends: the breaker learns how, and a ranking goes on.
LEMMA CallPreserves ==
  ASSUME IInv, NEW e \in Engines, NEW ok \in BOOLEAN,
         (\E c \in Callers : ReadEnds(e, c, ok)) \/ FlyingEnds(e, ok)
  PROVE  IInv'
<1> USE DEF IInv
<1>1. /\ UNCHANGED <<now, running, table, dead, answered, nodes, swarms>>
      /\ Outcome(e, ok)
  BY DEF ReadEnds, FlyingEnds, memory
<1>2. /\ now \in Nat /\ MaxNow \in Nat /\ now <= MaxNow /\ BreakerTime \in Nat
  BY TimesAssumption DEF TypeOK, Time
<1>3. openUntil' \in [Engines -> 0..MaxNow + BreakerTime]
  <2>1. 0 \in 0..MaxNow + BreakerTime /\ now + BreakerTime \in 0..MaxNow + BreakerTime
    BY <1>2
  <2> QED BY <1>1, <2>1 DEF Outcome, Tripped, TypeOK
<1>4. PastInv'
  BY <1>1 DEF PastInv
<1>5. ASSUME NEW c \in Callers, ReadEnds(e, c, ok) PROVE IInv'
  <2>1. /\ reading[e][c] # None /\ flying' = flying
        /\ waited' = [waited EXCEPT ![e][c] = waited[e][c] + now - reading[e][c]]
        /\ reading' = [reading EXCEPT ![e][c] = None]
    BY <1>5 DEF ReadEnds
  <2>2. /\ waited[e][c] \in Nat /\ reading[e][c] \in Nat /\ reading[e][c] <= now
    BY <2>1 DEF TypeOK, Time, ReadsInv
  <2>3. waited[e][c] + now - reading[e][c] \in Nat
        /\ waited[e][c] + now - reading[e][c] = waited[e][c] + (now - reading[e][c])
    BY <1>2, <2>2
  <2>4. TypeOK'
    BY <1>1, <1>3, <2>1, <2>3 DEF TypeOK
  <2>5. \A f \in Engines, d \in Callers :
          IF f = e /\ d = c THEN WaitIsOver(f, d) ELSE WaitGoesOn(f, d)
    BY <2>1, <2>3 DEF TypeOK, WaitIsOver, WaitGoesOn
  <2>6. ReadsInv'
    BY <1>1, <2>5 DEF ReadsInv, WaitIsOver, WaitGoesOn
  <2>7. CostInv'
    BY <1>1, <2>5, OutcomePreservesCost
  <2> QED BY <1>4, <2>4, <2>6, <2>7
<1>6. CASE FlyingEnds(e, ok)
  <2>1. UNCHANGED <<reading, waited>> /\ flying' = [flying EXCEPT ![e] = flying[e] - 1]
        /\ flying[e] > 0
    BY <1>6 DEF FlyingEnds
  <2>2. TypeOK'
    BY <1>1, <1>3, <2>1 DEF TypeOK
  <2>3. ReadsInv'
    BY <1>1, <2>1 DEF ReadsInv
  <2>4. CostInv'
    BY <1>1, <2>1, OutcomePreservesCost DEF WaitGoesOn
  <2> QED BY <1>4, <2>2, <2>3, <2>4
<1> QED BY <1>5, <1>6

LEMMA TickPreserves ==
  ASSUME IInv, Tick
  PROVE  IInv'
<1> USE DEF IInv
<1>1. /\ now < MaxNow /\ now' = now + 1
      /\ \A e \in Engines, c \in Callers :
           reading[e][c] # None => now < reading[e][c] + ReadTimeout
      /\ UNCHANGED <<running, table, dead, answered, nodes, swarms, openUntil, reading,
                     flying, waited>>
  BY DEF Tick, memory, client
<1>2. now \in Nat /\ MaxNow \in Nat /\ {ReadTimeout, BreakerTime} \subseteq Nat
  BY TimesAssumption DEF TypeOK, Time
<1>3. TypeOK'
  BY <1>1, <1>2 DEF TypeOK, Time
<1>4. PastInv'
  <2>1. \A n \in Nodes : /\ nodes[n] # None => nodes[n] \in Nat
                         /\ answered[n] # None => answered[n] \in Nat
    BY DEF TypeOK, Stamps, Time
  <2> QED BY <1>1, <1>2, <2>1 DEF PastInv
<1>5. ReadsInv'
  <2>1. \A e \in Engines, c \in Callers : reading[e][c] # None => reading[e][c] \in Nat
    BY DEF TypeOK, Time
  <2> QED BY <1>1, <1>2, <2>1 DEF ReadsInv
<1>6. CostInv'
  <2>1. \A e \in Engines : openUntil[e] <= now + BreakerTime => openUntil[e] <= now' + BreakerTime
    BY <1>1, <1>2 DEF TypeOK
  <2> QED BY <1>1, <2>1 DEF CostInv
<1> QED BY <1>3, <1>4, <1>5, <1>6

LEMMA StepPreserves == IInv /\ [Next]_vars => IInv'
<1> SUFFICES ASSUME IInv, [Next]_vars PROVE IInv'
  OBVIOUS
<1>1. swarms \in BOOLEAN /\ running \subseteq Engines /\ flying \in [Engines -> Nat]
  BY DEF IInv, TypeOK
<1>2. ASSUME NEW e \in Engines, Start(e) PROVE IInv'
  <2>1. swarms' \in BOOLEAN
    BY <1>1, <1>2 DEF Start, Migrate
  <2>2. (IF e \in Clients THEN 1 ELSE 0) \in Nat
    OBVIOUS
  <2> QED BY <1>1, <1>2, <2>1, <2>2, StorePreserves DEF Start
<1>3. ASSUME NEW e \in Engines, Persist(e) PROVE IInv'
  <2>1. flying' \in [Engines -> Nat]
    BY <1>1, <1>3 DEF Persist
  <2> QED BY <1>1, <1>3, <2>1, StorePreserves DEF Persist
<1>4. ASSUME NEW e \in Engines, Destroy(e) \/ Crash(e) PROVE IInv'
  <2>1. Cleared(e, 0) /\ running' \subseteq Engines /\ UNCHANGED <<now, dead, answered, swarms>>
    BY <1>1, <1>4 DEF Destroy, Crash, memory
  <2> QED BY <1>1, <2>1, StorePreserves
<1>5. CASE Scored \/ SwarmsEvicted \/ UNCHANGED vars
  <2>1. /\ swarms' \in BOOLEAN /\ UNCHANGED <<now, running, dead, answered, table, client>>
    BY <1>1, <1>5 DEF Scored, SwarmsEvicted, vars, memory
  <2> QED BY <1>1, <2>1, StorePreserves
<1>6. ASSUME NEW e \in Engines, NEW n \in Nodes, NodeAnswers(e, n) \/ NodeDropped(e, n)
      PROVE  IInv'
  BY <1>6, TablePreserves
<1>7. ASSUME NEW e \in Engines, NEW c \in Callers, Read(e, c) PROVE IInv'
  BY <1>7, ReadPreserves
<1>8. ASSUME NEW e \in Engines, NEW ok \in BOOLEAN,
             (\E c \in Callers : ReadEnds(e, c, ok)) \/ FlyingEnds(e, ok)
      PROVE  IInv'
  BY <1>8, CallPreserves
<1> QED BY <1>2, <1>3, <1>4, <1>5, <1>6, <1>7, <1>8, TickPreserves DEF Next

THEOREM Invariance == Spec => []IInv
BY InitEstablishes, StepPreserves, PTL DEF Spec

\* Every variable keeps its type; the shared file never holds more than MaxNodes.
THEOREM TypeCorrect == Spec => []TypeOK
<1>1. IInv => TypeOK
  BY DEF IInv
<1> QED BY <1>1, Invariance, PTL

\* However many processes share the file, start, persist and crash, a row is
\* renewed only for a node that answered one of them in time.
THEOREM EvidenceRenews == Spec => OnlyEvidenceIsRenewed
<1> DEFINE Renewed ==
      \A n \in Nodes :
        nodes'[n] \notin {nodes[n], None} => Recent(n) \/ (n \in Legacy /\ ~swarms /\ swarms')
<1>1. IInv /\ [Next]_vars => [Renewed]_vars
  <2> SUFFICES ASSUME IInv, [Next]_vars PROVE Renewed
    OBVIOUS
  <2>1. CASE nodes' = nodes
    BY <2>1
  <2>2. ASSUME NEW fresh \in SUBSET Nodes, nodes' \in Rows(fresh),
               \A n \in fresh : Recent(n) \/ (n \in Legacy /\ ~swarms /\ swarms')
        PROVE  Renewed
    <3>1. \A n \in Nodes : nodes'[n] \notin {nodes[n], None} => n \in fresh
      BY <2>2, RowsAre DEF IInv, TypeOK, PastInv
    <3> QED BY <2>2, <3>1
  <2> QED BY <2>1, <2>2, StepStores
<1> QED BY <1>1, Invariance, PTL DEF Spec, OnlyEvidenceIsRenewed

\* No process discards what another has learned, unless MaxNodes that were seen
\* no earlier take its place.
THEOREM FresherDisplace == Spec => OnlyFresherDisplaces
<1> DEFINE Displaced ==
      \A n \in Known(nodes) \ Known(nodes') :
        /\ Cardinality(Known(nodes')) = MaxNodes
        /\ \A m \in Known(nodes') : nodes'[m] >= nodes[n]
<1>1. IInv /\ [Next]_vars => [Displaced]_vars
  <2> SUFFICES ASSUME IInv, [Next]_vars PROVE Displaced
    OBVIOUS
  <2>1. CASE nodes' = nodes
    <3>1. Known(nodes') = Known(nodes)
      BY <2>1
    <3> QED BY <3>1
  <2>2. ASSUME NEW fresh \in SUBSET Nodes, nodes' \in Rows(fresh) PROVE Displaced
    BY <2>2, RowsAre DEF IInv, TypeOK, PastInv
  <2> QED BY <2>1, <2>2, StepStores
<1> QED BY <1>1, Invariance, PTL DEF Spec, OnlyFresherDisplaces

\* A dead control plane never costs a caller more than one deadline for every
\* deadline and breaker time that pass, however many calls of an engine overlap
\* and whichever of them opens its breaker.
THEOREM DeadPlaneIsCheap == Spec => []DeadPlaneCost
<1>1. IInv => DeadPlaneCost
  <2> SUFFICES ASSUME IInv, dead, NEW e \in Engines, NEW c \in Callers
               PROVE  waited[e][c] * (ReadTimeout + BreakerTime)
                        <= ReadTimeout * (now + BreakerTime)
    BY DEF DeadPlaneCost
  <2>1. /\ openUntil[e] <= now + BreakerTime
        /\ waited[e][c] * (ReadTimeout + BreakerTime) <= ReadTimeout * openUntil[e]
    BY DEF IInv, CostInv
  <2>2. /\ waited[e][c] \in Nat /\ openUntil[e] \in Nat /\ now + BreakerTime \in Nat
        /\ ReadTimeout \in Nat /\ BreakerTime \in Nat
    BY TimesAssumption DEF IInv, TypeOK, Time
  <2>3. ReadTimeout * openUntil[e] <= ReadTimeout * (now + BreakerTime)
    BY <2>1, <2>2, TimesGrow
  <2>4. /\ waited[e][c] * (ReadTimeout + BreakerTime) \in Int
        /\ ReadTimeout * openUntil[e] \in Int /\ ReadTimeout * (now + BreakerTime) \in Int
    BY <2>2
  <2> QED BY <2>1, <2>3, <2>4
<1> QED BY <1>1, Invariance, PTL
=============================================================================
