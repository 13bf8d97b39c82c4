-------------------------------- MODULE NodePool --------------------------------
(* worker/src/index.js: the pool of DHT routing nodes. Clients contribute the  *)
(* nodes they found alive, each contribution under a key of its own that       *)
(* expires; a run of aggregateNodes merges the live ones over the pool that    *)
(* was published before and publishes the result. Runs are started by the cron *)
(* and by the admin route, and nothing keeps the two apart.                    *)
(*                                                                             *)
(* KV answers reads with what was last written. The edge cache in front of     *)
(* getNodes and the always appended PUBLIC_FLOOR are left out.                 *)
EXTENDS Integers, Sequences, FiniteSets

CONSTANTS
  Nodes,          \* addresses clients report
  Public,         \* those isPublicIPv4 and isValidPort accept
  Runs,           \* who starts aggregateNodes: the cron, the admin route
  ContribTtl,     \* CONTRIB_TTL_S, in ticks
  MaxPool,        \* MAX_POOL_NODES
  MaxKeys,        \* MAX_CONTRIB_KEYS
  MinSources,     \* MIN_DISTINCT_SOURCES
  RunLimit,       \* wall-clock budget of a run
  MaxNow,         \* bound on the clock
  MaxPosts,       \* bound on the contributions
  MaxRuns         \* bound on the runs started

ASSUME NodesAssumption == Public \subseteq Nodes /\ IsFiniteSet(Nodes)
ASSUME LimitsAssumption ==
  /\ ContribTtl \in Nat \ {0}
  /\ MaxPool \in Nat \ {0}
  /\ MaxKeys \in Nat \ {0}
  /\ MinSources \in Nat \ {0}
  /\ RunLimit \in Nat
  /\ {MaxNow, MaxPosts, MaxRuns} \subseteq Nat

VARIABLES
  now,      \* Date.now()
  posted,   \* the contributions, in order; the index stands for the key's UUID
  pool,     \* the value of POOL_KEY
  pc,       \* per run: "idle", "list" (sweeping the keys), "fetch" (reading bodies)
  at,       \* per run: its `now`
  seen,     \* per run: its map of nodes
  todo,     \* per run: the listed keys not read yet
  trunc,    \* per run: `truncated`
  \* history
  started,  \* runs started so far
  missed,   \* per run: keys whose body it asked for and did not get
  overtaken \* per run: another run has published since it read the pool

runVars == <<pc, at, seen, todo, trunc, missed, overtaken>>
vars == <<now, posted, pool, runVars, started>>

Entry == [sources : Nat \ {0}, lastSeen : Nat]

\* The maps from some of the public addresses to entries.
NodeMap(m) ==
  /\ m = [n \in DOMAIN m |-> m[n]]
  /\ DOMAIN m \subseteq Public
  /\ \A n \in DOMAIN m : m[n] \in Entry

Empty == [n \in {} |-> [sources |-> 1, lastSeen |-> 0]]

Contribution == [nodes : SUBSET Public, ts : Nat]
Keys == DOMAIN posted

\* KV drops a contribution when its TTL is over.
Live(k) == now < posted[k].ts + ContribTtl

TypeOK ==
  /\ now \in Nat
  /\ posted \in Seq(Contribution)
  /\ pool = [nodes |-> pool.nodes, ts |-> pool.ts,
             corroborated |-> pool.corroborated, truncated |-> pool.truncated]
  /\ NodeMap(pool.nodes) /\ {pool.ts, pool.corroborated} \subseteq Nat
  /\ pool.truncated \in BOOLEAN
  /\ pc \in [Runs -> {"idle", "list", "fetch"}]
  /\ at \in [Runs -> Nat]
  /\ seen = [r \in Runs |-> seen[r]] /\ \A r \in Runs : NodeMap(seen[r])
  /\ todo \in [Runs -> SUBSET Nat]
  /\ trunc \in [Runs -> BOOLEAN]
  /\ started \in Nat
  /\ missed \in [Runs -> SUBSET Nat]
  /\ overtaken \in [Runs -> BOOLEAN]
  /\ \A r \in Runs : at[r] <= now /\ todo[r] \subseteq Keys

-----------------------------------------------------------------------------
(* A node's place in the pool: agreement first, then the later report.         *)

Outranks(a, b) ==
  \/ a.sources > b.sources
  \/ a.sources = b.sources /\ a.lastSeen > b.lastSeen

\* What sort and slice may keep of a map: the map's order breaks ties.
Kept(s) ==
  {D \in SUBSET DOMAIN s :
     /\ Cardinality(D) <= MaxPool
     /\ D = DOMAIN s \/ Cardinality(D) = MaxPool
     /\ \A n \in D, m \in DOMAIN s \ D : ~Outranks(s[m], s[n])}

Corroborated(s) == {n \in DOMAIN s : s[n].sources >= MinSources}

\* Mutant: a run starts from the whole pool, however old.
CarriedForever(p) == p.nodes

\* Mutant: a run starts from an empty map.
CarriedNothing(p) == Empty

\* The entries of the published pool a run starts from.
Carried(p) ==
  [n \in {m \in DOMAIN p.nodes : now - p.nodes[m].lastSeen <= ContribTtl} |-> p.nodes[n]]

Later(a, b) == IF a > b THEN a ELSE b

\* Mutant: a report counts as made when it is read.
HeardNow(s, c) ==
  [n \in DOMAIN s \cup c.nodes |->
     IF n \notin c.nodes THEN s[n]
     ELSE [sources |-> IF n \in DOMAIN s THEN s[n].sources + 1 ELSE 1, lastSeen |-> now]]

\* A contribution is one more source for each node it names.
Heard(s, c) ==
  [n \in DOMAIN s \cup c.nodes |->
     IF n \notin c.nodes THEN s[n]
     ELSE IF n \in DOMAIN s
       THEN [sources |-> s[n].sources + 1, lastSeen |-> Later(s[n].lastSeen, c.ts)]
       ELSE [sources |-> 1, lastSeen |-> c.ts]]

\* Mutant: one page of the key space is all there is.
ListedFirstPage(live) == {[keys |-> K, truncated |-> FALSE] : K \in {{}} \cup {{k} : k \in live}}

\* The sweep pages through every key; the safety valve stops it at MaxKeys,
\* and says so even when that was the last page.
Listed(live) ==
  IF Cardinality(live) < MaxKeys
  THEN {[keys |-> live, truncated |-> FALSE]}
  ELSE {[keys |-> K, truncated |-> TRUE] : K \in {L \in SUBSET live : Cardinality(L) = MaxKeys}}

Accepted(raw) == raw \cap Public

-----------------------------------------------------------------------------
Init ==
  /\ now = 1
  /\ posted = <<>>
  /\ pool = [nodes |-> Empty, ts |-> 0, corroborated |-> 0, truncated |-> FALSE]
  /\ pc = [r \in Runs |-> "idle"]
  /\ at = [r \in Runs |-> 0]
  /\ seen = [r \in Runs |-> Empty]
  /\ todo = [r \in Runs |-> {}]
  /\ trunc = [r \in Runs |-> FALSE]
  /\ started = 0
  /\ missed = [r \in Runs |-> {}]
  /\ overtaken = [r \in Runs |-> FALSE]

\* postNodes: nothing is written when every node is refused.
Post(raw) ==
  /\ Len(posted) < MaxPosts
  /\ Accepted(raw) # {}
  /\ posted' = Append(posted, [nodes |-> Accepted(raw), ts |-> now])
  /\ UNCHANGED <<now, pool, runVars, started>>

\* aggregateNodes reads the clock and the pool.
Begin(r) ==
  /\ pc[r] = "idle"
  /\ started < MaxRuns
  /\ started' = started + 1
  /\ pc' = [pc EXCEPT ![r] = "list"]
  /\ at' = [at EXCEPT ![r] = now]
  /\ seen' = [seen EXCEPT ![r] = Carried(pool)]
  /\ missed' = [missed EXCEPT ![r] = {}]
  /\ overtaken' = [overtaken EXCEPT ![r] = FALSE]
  /\ UNCHANGED <<now, posted, pool, todo, trunc>>

List(r) ==
  /\ pc[r] = "list"
  /\ \E l \in Listed({k \in Keys : Live(k)}) :
       /\ todo' = [todo EXCEPT ![r] = l.keys]
       /\ trunc' = [trunc EXCEPT ![r] = l.truncated]
  /\ pc' = [pc EXCEPT ![r] = "fetch"]
  /\ UNCHANGED <<now, posted, pool, at, seen, started, missed, overtaken>>

\* A body of the batch arrives and is counted.
Fetch(r, k) ==
  /\ pc[r] = "fetch"
  /\ k \in todo[r]
  /\ Live(k)
  /\ todo' = [todo EXCEPT ![r] = @ \ {k}]
  /\ seen' = [seen EXCEPT ![r] = Heard(@, posted[k])]
  /\ UNCHANGED <<now, posted, pool, pc, at, trunc, started, missed, overtaken>>

\* The key expired between the listing and the read, or the read failed: null.
FetchNothing(r, k) ==
  /\ pc[r] = "fetch"
  /\ k \in todo[r]
  /\ todo' = [todo EXCEPT ![r] = @ \ {k}]
  /\ missed' = [missed EXCEPT ![r] = @ \cup {k}]
  /\ UNCHANGED <<now, posted, pool, pc, at, seen, trunc, started, overtaken>>

Over(r) ==
  /\ pc' = [pc EXCEPT ![r] = "idle"]
  /\ at' = [at EXCEPT ![r] = 0]
  /\ seen' = [seen EXCEPT ![r] = Empty]
  /\ todo' = [todo EXCEPT ![r] = {}]
  /\ trunc' = [trunc EXCEPT ![r] = FALSE]
  /\ missed' = [missed EXCEPT ![r] = {}]

\* The whole pool is replaced, whatever was published since this run read it.
Publish(r) ==
  /\ pc[r] = "fetch"
  /\ todo[r] = {}
  /\ \E D \in Kept(seen[r]) :
       pool' = [nodes |-> [n \in D |-> seen[r][n]],
                ts |-> at[r],
                corroborated |-> Cardinality(Corroborated(seen[r])),
                truncated |-> trunc[r]]
  /\ Over(r)
  /\ overtaken' = [q \in Runs |-> q # r /\ (overtaken[q] \/ pc[q] # "idle")]
  /\ UNCHANGED <<now, posted, started>>

\* A KV call other than a body's read failed, or the run ran out of budget.
Abandon(r) ==
  /\ pc[r] # "idle"
  /\ Over(r)
  /\ overtaken' = [overtaken EXCEPT ![r] = FALSE]
  /\ UNCHANGED <<now, posted, pool, started>>

\* A run is ended by the platform within its budget.
Tick ==
  /\ now < MaxNow
  /\ \A r \in Runs : pc[r] # "idle" => now + 1 - at[r] <= RunLimit
  /\ now' = now + 1
  /\ UNCHANGED <<posted, pool, runVars, started>>

Next ==
  \/ \E raw \in SUBSET Nodes : Post(raw)
  \/ \E r \in Runs :
       \/ Begin(r) \/ List(r) \/ Publish(r) \/ Abandon(r)
       \/ \E k \in todo[r] : Fetch(r, k) \/ FetchNothing(r, k)
  \/ Tick

Spec == Init /\ [][Next]_vars

-----------------------------------------------------------------------------
(* Properties.                                                                 *)

\* Some contribution made at t names n.
ReportedAt(n, t) == \E k \in Keys : n \in posted[k].nodes /\ posted[k].ts = t

\* Whatever is carried from pool to pool, a pooled node's lastSeen is the time
\* somebody reported it, never a time a run happened to look at it, and a node
\* nobody has reported for the contribution TTL is in no pool published from
\* then on: carrying the pool forward does not keep a dead node alive, and a run
\* that goes slow or reads late does not bring one back. The pool stays within
\* its size.
NothingStaleIsPooled ==
  /\ \A n \in DOMAIN pool.nodes :
       LET seenAt == pool.nodes[n].lastSeen
       IN ReportedAt(n, seenAt) /\ pool.ts - seenAt <= ContribTtl
  /\ Cardinality(DOMAIN pool.nodes) <= MaxPool

\* A run about to publish has counted every contribution that was live when it
\* began and still is, each as a source, unless its body could not be read or
\* the sweep was cut and says so: nobody is left out by where their key sorts.
EveryLiveKeyIsCounted ==
  \A r \in Runs : pc[r] = "fetch" /\ todo[r] = {} /\ ~trunc[r] =>
    LET counted == {k \in Keys \ missed[r] : Live(k) /\ posted[k].ts < at[r]}
    IN \A n \in UNION {posted[k].nodes : k \in counted} :
         /\ n \in DOMAIN seen[r]
         /\ seen[r][n].sources >= Cardinality({k \in counted : n \in posted[k].nodes})

\* n may be missing from a pool of these nodes only if it is full of nodes n
\* does not outrank.
CrowdedOut(e, nodes) ==
  /\ Cardinality(DOMAIN nodes) = MaxPool
  /\ \A m \in DOMAIN nodes : ~Outranks(e, nodes[m])

\* Even when contributions expire or cannot be read, a run that was not
\* overtaken drops no node reported within the TTL of its start except for
\* better ones, and takes nothing back from a node it keeps.
FreshNodesSurvive ==
  [][\A r \in Runs : Publish(r) /\ ~overtaken[r] =>
       \A n \in DOMAIN pool.nodes :
         LET e == pool.nodes[n]
         IN at[r] - e.lastSeen <= ContribTtl =>
              IF n \in DOMAIN pool'.nodes
              THEN ~Outranks(e, pool'.nodes[n])
              ELSE CrowdedOut(e, pool'.nodes)]_vars

\* What the comments of aggregateNodes say of `corroborated`: it counts nodes
\* that as many distinct contributor keys agree on.
CorroborationIsAgreement ==
  LET NamedBy(n) == {k \in Keys : n \in posted[k].nodes}
  IN pool.corroborated <= Cardinality({n \in Public : Cardinality(NamedBy(n)) >= MinSources})
=============================================================================
