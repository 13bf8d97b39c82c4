--------------------------------- MODULE Scout ---------------------------------
(* What the engines of one host remember of the DHT from one start to the next, *)
(* and what the control plane may cost them: swarmScout.js (construction,       *)
(* _persistNodes, destroy), the nodes of peerCache.js, one SQLite file for all  *)
(* processes, and the breaker of cloudCache.js.                                 *)
(*                                                                             *)
(* Who is asked is the DHT library's affair: it starts from the public domains, *)
(* the disk and the shared pool, and goes on to whatever it is told of. A node  *)
(* enters its routing table by answering, and only that renews its `seen`. The  *)
(* control plane is external: an answer of any kind, or none, at any time up to *)
(* the deadline of the call, unless it is down for good.                        *)
EXTENDS Integers, FiniteSetsExt

CONSTANTS
  Engines,        \* processes that share the file
  Clients,        \* those with a control plane configured
  Callers,        \* who ask an engine to rank, each one ranking at a time
  Nodes,          \* DHT nodes, as addresses
  Legacy,         \* the nodes in the JSON file of an older version, {} if none
  None,           \* not stored, not heard of, no call
  AnsweredWithin, \* NODE_ANSWERED_WITHIN_MS
  MaxNodes,       \* cap of the stored nodes
  ReadTimeout,    \* readTimeoutMs
  BreakerTime,    \* breakerMs
  MaxFlying,      \* bound on an engine's calls that nobody waits for
  MaxNow          \* bound on the clock

ASSUME NodesAssumption ==
  /\ Clients \subseteq Engines
  /\ Legacy \subseteq Nodes /\ IsFiniteSet(Nodes)
  /\ MaxNodes \in Nat \ {0}
ASSUME TimesAssumption ==
  /\ {AnsweredWithin, ReadTimeout, BreakerTime, MaxFlying, MaxNow} \subseteq Nat
  /\ None \notin Nat

VARIABLES
  now,
  nodes,     \* the table `nodes`: `seen` of every row
  swarms,    \* the table `swarms` has rows
  running,   \* engines between constructor and destroy
  table,     \* per engine: the routing table, when each node last answered
  dead,      \* the control plane answers nobody
  openUntil, \* per engine: the breaker
  reading,   \* per engine and caller: when the read its ranking waits for began
  flying,    \* per engine: other calls on their way
  waited,    \* per engine and caller: its share of stats.waitMs, which is their sum
  answered   \* history: when a node last answered any engine

memory == <<nodes, swarms>>
client == <<openUntil, reading, flying, waited>>
vars == <<now, running, table, dead, answered, memory, client>>

Time == 0..MaxNow
Stamps == [Nodes -> Time \cup {None}]
Nobody == [n \in Nodes |-> None]
NoReads == [c \in Callers |-> None]
NoWait == [c \in Callers |-> 0]

TypeOK ==
  /\ now \in Time
  /\ {nodes, answered} \subseteq Stamps
  /\ Cardinality({n \in Nodes : nodes[n] # None}) <= MaxNodes
  /\ {swarms, dead} \subseteq BOOLEAN
  /\ running \subseteq Engines
  /\ table \in [Engines -> Stamps]
  /\ openUntil \in [Engines -> 0..MaxNow + BreakerTime]
  /\ reading \in [Engines -> [Callers -> Time \cup {None}]]
  /\ flying \in [Engines -> Nat]
  /\ waited \in [Engines -> [Callers -> Nat]]

Init ==
  /\ now = 0
  /\ nodes = Nobody /\ answered = Nobody
  /\ swarms = FALSE
  /\ running = {}
  /\ table = [e \in Engines |-> Nobody]
  /\ dead \in BOOLEAN
  /\ openUntil = [e \in Engines |-> 0]
  /\ reading = [e \in Engines |-> NoReads]
  /\ flying = [e \in Engines |-> 0]
  /\ waited = [e \in Engines |-> NoWait]

-----------------------------------------------------------------------------
(* The nodes on disk.                                                          *)

Known(stamps) == {n \in DOMAIN stamps : stamps[n] # None}

\* The `size` of them seen last; of equals, any.
Freshest(stamps, size) ==
  LET known == Known(stamps) IN
  IF Cardinality(known) <= size THEN {known}
  ELSE {kept \in kSubset(size, known) :
          \A n \in kept, m \in known \ kept : stamps[n] >= stamps[m]}

Only(kept, stamps) == [n \in DOMAIN stamps |-> IF n \in kept THEN stamps[n] ELSE None]

\* Mutant: the table is replaced by what this process knows.
Replaced(fresh) == {[n \in Nodes |-> IF n \in fresh THEN now ELSE None]}

\* Mutant: the trim is forgotten.
Untrimmed(fresh) == {[n \in Nodes |-> IF n \in fresh THEN now ELSE nodes[n]]}

\* setNodes, at most MaxNodes of them: one transaction, upserts and a trim.
Rows(fresh) ==
  LET upserted == [n \in Nodes |-> IF n \in fresh THEN now ELSE nodes[n]] IN
  {Only(kept, upserted) : kept \in Freshest(upserted, MaxNodes)}

\* The transaction may fail, the database being busy or out of room: rolled back.
SetNodes(fresh) == nodes' \in Rows(fresh) \cup {nodes}

\* _migrate, at every start that finds no swarms: the file is left where it is.
Migrate ==
  IF Legacy = {} \/ swarms THEN UNCHANGED <<nodes, swarms>>
  ELSE /\ \E first \in Freshest([n \in Legacy |-> 0], MaxNodes) : SetNodes(first)
       /\ swarms' = TRUE

\* Mutant: whatever is in the routing table.
InTable(e) == Known(table[e])

\* _responsiveNodes
Responsive(e) == {n \in Known(table[e]) : table[e][n] >= now - AnsweredWithin}

\* _persistNodes: the freshest are stored; no responsive node, and nothing is
\* erased. The same list is contributed, which is module NodePool's affair.
PersistNodes(e) ==
  LET responsive == Only(Responsive(e), table[e]) IN
  IF Known(responsive) = {} THEN UNCHANGED nodes
  ELSE \E first \in Freshest(responsive, MaxNodes) : SetNodes(first)

-----------------------------------------------------------------------------
(* The control plane's client.                                                 *)

\* Mutant: a failure leaves the breaker as it was.
KeptOpen(e) == openUntil[e]

\* _trip
Tripped(e) == now + BreakerTime

\* A success closes the breaker, a failure opens it, however old the call.
Outcome(e, ok) ==
  /\ ok => ~dead
  /\ openUntil' = [openUntil EXCEPT ![e] = IF ok THEN 0 ELSE Tripped(e)]

\* getHealth, for a ranking; with the breaker open it returns at once. Those of
\* other callers may be on their way: nothing but the breaker holds one back.
Read(e, c) ==
  /\ e \in running \cap Clients
  /\ reading[e][c] = None
  /\ now >= openUntil[e]
  /\ reading' = [reading EXCEPT ![e][c] = now]
  /\ UNCHANGED <<now, running, table, dead, answered, memory, openUntil, flying, waited>>

ReadEnds(e, c, ok) ==
  /\ reading[e][c] # None
  /\ Outcome(e, ok)
  /\ waited' = [waited EXCEPT ![e][c] = @ + now - reading[e][c]]
  /\ reading' = [reading EXCEPT ![e][c] = None]
  /\ UNCHANGED <<now, running, table, dead, answered, memory, flying>>

\* getNodes, reportNodes, reportHealth: the breaker does not stop them.
FlyingEnds(e, ok) ==
  /\ flying[e] > 0
  /\ Outcome(e, ok)
  /\ flying' = [flying EXCEPT ![e] = @ - 1]
  /\ UNCHANGED <<now, running, table, dead, answered, memory, reading, waited>>

-----------------------------------------------------------------------------
(* The life of an engine.                                                      *)

\* What is left of a process that is over, and what one begins with.
Cleared(e, calls) ==
  /\ table' = [table EXCEPT ![e] = Nobody]
  /\ openUntil' = [openUntil EXCEPT ![e] = 0]
  /\ reading' = [reading EXCEPT ![e] = NoReads]
  /\ waited' = [waited EXCEPT ![e] = NoWait]
  /\ flying' = [flying EXCEPT ![e] = calls]

\* The constructor of the cache, then the scout's, which asks for shared nodes.
Start(e) ==
  /\ e \notin running
  /\ running' = running \cup {e}
  /\ Migrate
  /\ Cleared(e, IF e \in Clients THEN 1 ELSE 0)
  /\ UNCHANGED <<now, dead, answered>>

NodeAnswers(e, n) ==
  /\ e \in running
  /\ table' = [table EXCEPT ![e][n] = now]
  /\ answered' = [answered EXCEPT ![n] = now]
  /\ UNCHANGED <<now, running, dead, memory, client>>

\* The routing table makes room.
NodeDropped(e, n) ==
  /\ table[e][n] # None
  /\ table' = [table EXCEPT ![e][n] = None]
  /\ UNCHANGED <<now, running, dead, answered, memory, client>>

\* The end of a ranking or of a refresh.
Persist(e) ==
  /\ e \in running
  /\ Responsive(e) # {}
  /\ PersistNodes(e)
  /\ e \in Clients => flying[e] < MaxFlying
  /\ flying' = [flying EXCEPT ![e] = IF e \in Clients THEN @ + 1 ELSE 0]
  /\ UNCHANGED <<now, running, table, dead, answered, swarms, openUntil, reading, waited>>

\* A swarm is scored: any of the processes may store rows.
Scored ==
  /\ running # {} /\ ~swarms
  /\ swarms' = TRUE
  /\ UNCHANGED <<now, running, table, dead, answered, nodes, client>>

\* The last row has expired and is asked for.
SwarmsEvicted ==
  /\ running # {} /\ swarms
  /\ swarms' = FALSE
  /\ UNCHANGED <<now, running, table, dead, answered, nodes, client>>

\* destroy(), then the process exits.
Destroy(e) ==
  /\ e \in running
  /\ running' = running \ {e}
  /\ PersistNodes(e)
  /\ Cleared(e, 0)
  /\ UNCHANGED <<now, swarms, dead, answered>>

Crash(e) ==
  /\ e \in running
  /\ running' = running \ {e}
  /\ Cleared(e, 0)
  /\ UNCHANGED <<now, dead, answered, memory>>

\* A deadline is met: AbortSignal.timeout.
Tick ==
  /\ now < MaxNow
  /\ \A e \in Engines, c \in Callers :
       reading[e][c] # None => now < reading[e][c] + ReadTimeout
  /\ now' = now + 1
  /\ UNCHANGED <<running, table, dead, answered, memory, client>>

Next ==
  \/ Tick \/ Scored \/ SwarmsEvicted
  \/ \E e \in Engines :
       \/ Start(e) \/ Persist(e) \/ Destroy(e) \/ Crash(e)
       \/ \E c \in Callers : Read(e, c) \/ \E ok \in BOOLEAN : ReadEnds(e, c, ok)
       \/ \E ok \in BOOLEAN : FlyingEnds(e, ok)
       \/ \E n \in Nodes : NodeAnswers(e, n) \/ NodeDropped(e, n)

Spec == Init /\ [][Next]_vars

-----------------------------------------------------------------------------
(* Properties.                                                                 *)

Recent(n) == answered[n] # None /\ now - answered[n] <= AnsweredWithin

\* The loop that kept a bad routing table alive over every restart: a node that
\* no longer answers is written back as seen now, so that it never ages. However
\* many processes persist, start and crash, a row's time moves only if its node
\* answered one of them within NODE_ANSWERED_WITHIN_MS. The one exception is the
\* file of an older version, read by a start that finds no swarms.
OnlyEvidenceIsRenewed ==
  [][\A n \in Nodes :
       nodes'[n] \notin {nodes[n], None} => Recent(n) \/ (n \in Legacy /\ ~swarms /\ swarms')]_vars

\* The lost writes of the JSON cache: whoever wrote last discarded everything the
\* other processes had learned. A row another process left is only ever given up
\* for MaxNodes that were seen no earlier.
OnlyFresherDisplaces ==
  [][\A n \in Known(nodes) \ Known(nodes') :
       /\ Cardinality(Known(nodes')) = MaxNodes
       /\ \A m \in Known(nodes') : nodes'[m] >= nodes[n]]_vars

\* A dead control plane costs whoever ranks what the breaker lets through: one
\* deadline for every deadline and breaker time that pass, also when the rankings
\* of others began before the breaker opened and fail after. stats.waitMs, which
\* adds up what they waited at the same time, is at most that for every one of
\* them that overlap.
DeadPlaneCost ==
  dead => \A e \in Engines, c \in Callers :
            waited[e][c] * (ReadTimeout + BreakerTime) <= ReadTimeout * (now + BreakerTime)
=============================================================================
