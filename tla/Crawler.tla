-------------------------------- MODULE Crawler --------------------------------
(* dhtCrawler.js: four kinds of workers over shared queues and an index.       *)
(* Finders ask nodes for neighbours, samplers ask them for infohashes, lookers *)
(* ask the node that offered an infohash who has it, namers ask those peers    *)
(* for the metadata. A step is what a worker does between two awaits.          *)
(*                                                                             *)
(* Only the nodes in Nodes are followed; the crawl meets many more, and the    *)
(* node table, being bounded, is cleared by those (TableCleared). Time enters  *)
(* as a node's willingness to be asked (`rest`). The peers of a lead belong to *)
(* PeerTable, the asking of them to Verification; counters are left out. start()  *)
(* is called once: nothing restarts a stopped crawler. tools/filter-index.mjs  *)
(* is another process on the same index, for rows older than the filter.       *)
EXTENDS ContentFilter

CONSTANTS
  Nodes,        \* DHT nodes
  Hashes,       \* infohashes
  Samplers,     \* sampleConcurrency workers
  Finders,      \* discoveryConcurrency workers
  Lookers,      \* peerConcurrency workers
  Namers,       \* metadataConcurrency workers
  NodeQueueMax, \* NODE_QUEUE_MAX
  LeadQueueMax, \* LEAD_QUEUE_MAX
  MetaQueueMax, \* META_QUEUE_MAX
  MaxPaths,     \* MAX_PATHS, what metainfo.js hands over of a torrent's paths
  MaxListed,    \* bound on the nodes, and on the hashes, of one reply
  Metas,        \* metadata a torrent may turn out to have
  None          \* a worker waiting for nothing

ASSUME MetasAssumption == Metas \subseteq Meta /\ None \notin Metas
ASSUME WorkersAssumption ==
  /\ IsFiniteSet(Samplers) /\ IsFiniteSet(Lookers) /\ IsFiniteSet(Namers)
  /\ None \notin Nodes \cup Hashes
ASSUME LimitsAssumption ==
  /\ {NodeQueueMax, LeadQueueMax, MetaQueueMax} \subseteq Nat \ {0}
  /\ {MaxPaths, MaxListed} \subseteq Nat

VARIABLES
  running,     \* this.running
  queue,       \* nodes to sample
  discovery,   \* discoveryQueue: nodes to ask for neighbours
  leads,       \* hashes and the node to ask about each
  pendingMeta, \* hashes with peers, for the namers
  nodes,       \* per node: what is known of it
  sampling,    \* per sampler: the node whose answer it awaits
  linked,      \* samplers whose node's state is still the table's
  finding,     \* per finder: the node whose answer it awaits
  looking,     \* per looker: the lead whose answer it awaits
  holding,     \* per looker: the hash it has peers for and no room
  naming,      \* per namer: the hash it asks peers about
  index,       \* per hash: its row
  content,     \* per hash: its metadata, once somebody has seen it
  old,         \* hashes named before there was a filter
  swept        \* those have been checked

nodeVars == <<queue, discovery, nodes, sampling, linked, finding>>
hashVars == <<leads, pendingMeta, looking, holding, naming, index>>
filterVars == <<content, old, swept>>
vars == <<running, nodeVars, hashVars, filterVars>>

Lists(S) == UNION {[1..n -> S] : n \in 0..MaxListed}

\* The DHT's routing table holds a node once.
Tables == {t \in Lists(Nodes) : IsInjective(t)}

Lead == [hash : Hashes, node : Nodes]

\* `strikes` stops at the two that write a node off.
NodeState ==
  [supports : {"unknown", "yes", "no"}, strikes : 0..2, rest : {"none", "busy", "full"}]

\* `hits` tells only one offer from more; `failed`, which only a statistic
\* reads, is left out.
Row == [hits : 0..2, resolved : BOOLEAN, blocked : BOOLEAN, named : BOOLEAN]

Unknown == [supports |-> "unknown", strikes |-> 0, rest |-> "none"]
NoRow == [hits |-> 0, resolved |-> FALSE, blocked |-> FALSE, named |-> FALSE]
OldRow == [hits |-> 1, resolved |-> TRUE, blocked |-> FALSE, named |-> TRUE]

TypeOK ==
  /\ running \in BOOLEAN
  /\ queue \in Seq(Nodes) /\ Len(queue) <= NodeQueueMax
  /\ discovery \in Seq(Nodes) /\ Len(discovery) <= NodeQueueMax
  /\ leads \in Seq(Lead) /\ Len(leads) <= LeadQueueMax
  /\ pendingMeta \in Seq(Hashes) /\ Len(pendingMeta) <= MetaQueueMax
  /\ nodes \in [Nodes -> NodeState]
  /\ sampling \in [Samplers -> Nodes \cup {None}]
  /\ linked \subseteq Samplers
  /\ finding \in [Finders -> Nodes \cup {None}]
  /\ looking \in [Lookers -> Lead \cup {None}]
  /\ holding \in [Lookers -> Hashes \cup {None}]
  /\ naming \in [Namers -> Hashes \cup {None}]
  /\ index \in [Hashes -> Row]
  /\ content \in [Hashes -> Metas \cup {None}]
  /\ old \subseteq Hashes
  /\ swept \in BOOLEAN

-----------------------------------------------------------------------------
(* The queues.                                                                 *)

\* Mutant: only a node's interval keeps it out.
WillingToAll(state) == state.rest = "none"

\* A node written off, or asked too recently, is not queued.
Willing(state) == state.supports # "no" /\ state.rest = "none"

\* What a queue takes of a list before it is full.
Filled(q, list, max) ==
  LET room == max - Len(q)
  IN q \o (IF Len(list) <= room THEN list ELSE SubSeq(list, 1, room))

\* _enqueueNodes, given what is known of the nodes. Nobody looks for copies.
EnqueuedOne(known, q, n) ==
  IF Willing(known[n]) /\ Len(q) < NodeQueueMax THEN Append(q, n) ELSE q

Enqueued(known, found) == FoldLeft(LAMBDA q, n : EnqueuedOne(known, q, n), queue, found)

Discovered(list) == Filled(discovery, list, NodeQueueMax)

HasRoom == Len(pendingMeta) < MetaQueueMax

\* Mutant: a looker that has waited once pushes.
HasRoomOrWaited == TRUE

\* The test that ends a looker's wait.
WaitOver == HasRoom

-----------------------------------------------------------------------------
(* One reply to sample_infohashes: the rows it touches and the leads it adds.  *)

\* _seen, then a lead unless the hash is resolved; a repeat goes to the front.
Offered(stage, h, node) ==
  LET row == [stage.rows[h] EXCEPT !.hits = IF @ < 2 THEN @ + 1 ELSE @]
      lead == [hash |-> h, node |-> node]
      room == Len(stage.leads) < LeadQueueMax /\ ~row.resolved
  IN [rows |-> [stage.rows EXCEPT ![h] = row],
      fresh |-> stage.fresh \/ ~row.resolved,
      leads |-> IF room /\ row.hits > 1 THEN <<lead>> \o stage.leads
                ELSE IF room THEN Append(stage.leads, lead)
                ELSE stage.leads]

AfterSamples(samples, node) ==
  FoldLeft(LAMBDA stage, h : Offered(stage, h, node),
           [rows |-> index, leads |-> leads, fresh |-> FALSE], samples)

\* A long interval is cut short for a node that had something new.
Rest(fresh, interval) == IF fresh /\ interval = "long" THEN "busy" ELSE "full"

Failed(state) ==
  IF state.strikes >= 1 THEN [state EXCEPT !.strikes = 2, !.supports = "no"]
  ELSE [state EXCEPT !.strikes = 1]

\* fetchMetadata: the first paths go on to the filter, those after them nowhere.
Carried(meta) ==
  IF Len(meta.paths) <= MaxPaths THEN meta
  ELSE [meta EXCEPT !.paths = SubSeq(@, 1, MaxPaths)]

\* What the filter refuses, and what it refuses of a row that kept no paths.
Refused == {meta \in Metas : Blocked(Carried(meta))}
RefusedByName == {meta \in Metas : Blocked([meta EXCEPT !.paths = <<>>])}

\* The gate: the row of a resolved hash has a name, or is blocked and has none.
RowResolved(h, meta) ==
  IF meta \in Refused
  THEN [index[h] EXCEPT !.resolved = TRUE, !.blocked = TRUE, !.named = FALSE]
  ELSE [index[h] EXCEPT !.resolved = TRUE, !.named = TRUE]

-----------------------------------------------------------------------------
Init ==
  /\ running = TRUE
  /\ queue \in {Filled(<<>>, seed, NodeQueueMax) : seed \in Tables}
  /\ discovery = <<>>
  /\ leads = <<>>
  /\ pendingMeta = <<>>
  /\ nodes = [n \in Nodes |-> Unknown]
  /\ sampling = [w \in Samplers |-> None]
  /\ linked = {}
  /\ finding = [w \in Finders |-> None]
  /\ looking = [w \in Lookers |-> None]
  /\ holding = [w \in Lookers |-> None]
  /\ naming = [w \in Namers |-> None]
  /\ old \in SUBSET Hashes
  /\ swept = FALSE
  /\ index = [h \in Hashes |-> IF h \in old THEN OldRow ELSE NoRow]
  /\ content \in {c \in [Hashes -> Metas \cup {None}] : \A h \in Hashes : c[h] # None <=> h \in old}

(* Sampling.                                                                   *)

\* A sampler with nothing to do, or the timer, re-reads the routing table.
Reseed ==
  /\ running
  /\ Len(queue) < 4 * Cardinality(Samplers)
  /\ \E table \in Tables : queue' = Enqueued(nodes, table)
  /\ UNCHANGED <<running, discovery, nodes, sampling, linked, finding, hashVars, filterVars>>

\* What the node's state says now is not asked.
Sample(w) ==
  /\ running
  /\ sampling[w] = None
  /\ queue # <<>>
  /\ sampling' = [sampling EXCEPT ![w] = Head(queue)]
  /\ linked' = linked \cup {w}
  /\ queue' = Tail(queue)
  /\ UNCHANGED <<running, discovery, nodes, finding, hashVars, filterVars>>

\* A node's state, in the table or no longer in it, is what the sampler writes.
Noted(w, state) == IF w \in linked THEN [nodes EXCEPT ![sampling[w]] = state] ELSE nodes

SampleFails(w) ==
  /\ sampling[w] # None
  /\ nodes' = Noted(w, Failed(nodes[sampling[w]]))
  /\ sampling' = [sampling EXCEPT ![w] = None]
  /\ linked' = linked \ {w}
  /\ UNCHANGED <<running, queue, discovery, finding, hashVars, filterVars>>

Sampled(w, samples, interval, neighbours) ==
  LET node == sampling[w]
      stage == AfterSamples(samples, node)
  IN /\ node # None
     /\ index' = stage.rows
     /\ leads' = stage.leads
     /\ nodes' = Noted(w, [supports |-> "yes", strikes |-> 0,
                           rest |-> Rest(stage.fresh, interval)])
     /\ queue' = Enqueued(nodes', neighbours)
     /\ sampling' = [sampling EXCEPT ![w] = None]
     /\ linked' = linked \ {w}
     /\ UNCHANGED <<running, discovery, finding, pendingMeta, looking, holding, naming, filterVars>>

\* nextAt passes.
Rested(n) ==
  /\ nodes[n].rest # "none"
  /\ nodes' = [nodes EXCEPT ![n].rest = "none"]
  /\ UNCHANGED <<running, queue, discovery, sampling, linked, finding, hashVars, filterVars>>

\* One node too many: the table forgets them all.
TableCleared ==
  /\ running
  /\ nodes' = [n \in Nodes |-> Unknown]
  /\ linked' = {}
  /\ UNCHANGED <<running, queue, discovery, sampling, finding, hashVars, filterVars>>

(* Discovery.                                                                  *)

\* From the routing table and the sampling queue (its first 200).
SeedDiscovery(w) ==
  /\ running
  /\ finding[w] = None
  /\ discovery = <<>>
  /\ \E table \in Tables : discovery' = Discovered(table \o queue)
  /\ UNCHANGED <<running, queue, nodes, sampling, linked, finding, hashVars, filterVars>>

FindNode(w) ==
  /\ running
  /\ finding[w] = None
  /\ discovery # <<>>
  /\ finding' = [finding EXCEPT ![w] = Head(discovery)]
  /\ discovery' = Tail(discovery)
  /\ UNCHANGED <<running, queue, nodes, sampling, linked, hashVars, filterVars>>

\* No reply is a reply without nodes.
Found(w, neighbours) ==
  /\ finding[w] # None
  /\ finding' = [finding EXCEPT ![w] = None]
  /\ queue' = Enqueued(nodes, neighbours)
  /\ discovery' = Discovered(neighbours)
  /\ UNCHANGED <<running, nodes, sampling, linked, hashVars, filterVars>>

(* Who has it.                                                                 *)

GetPeers(w) ==
  /\ running
  /\ looking[w] = None
  /\ holding[w] = None
  /\ leads # <<>>
  /\ looking' = [looking EXCEPT ![w] = Head(leads)]
  /\ leads' = Tail(leads)
  /\ UNCHANGED <<running, nodeVars, pendingMeta, holding, naming, index, filterVars>>

NoPeers(w) ==
  /\ looking[w] # None
  /\ looking' = [looking EXCEPT ![w] = None]
  /\ UNCHANGED <<running, nodeVars, leads, pendingMeta, holding, naming, index, filterVars>>

\* Mutant: what does not fit is thrown away.
Overflow(h) == None

\* Without room the looker waits with its hash.
Held(h) == h

\* A hit: pushed in the same turn if there is room, let go if stopped.
HasPeers(w) ==
  LET h == looking[w].hash
  IN /\ looking[w] # None
     /\ looking' = [looking EXCEPT ![w] = None]
     /\ pendingMeta' = IF running /\ HasRoom THEN Append(pendingMeta, h) ELSE pendingMeta
     /\ holding' = IF running /\ ~HasRoom THEN [holding EXCEPT ![w] = Held(h)] ELSE holding
     /\ UNCHANGED <<running, nodeVars, leads, naming, index, filterVars>>

\* After a pause: the second test of the queue, in the same turn, finds room too.
Push(w) ==
  /\ running
  /\ holding[w] # None
  /\ WaitOver
  /\ pendingMeta' = Append(pendingMeta, holding[w])
  /\ holding' = [holding EXCEPT ![w] = None]
  /\ UNCHANGED <<running, nodeVars, leads, looking, naming, index, filterVars>>

\* Mutant: only room ends the wait.
LetGoNever == FALSE

\* What else ends a looker's wait.
LetGo == ~running

GiveUp(w) ==
  /\ holding[w] # None
  /\ LetGo
  /\ holding' = [holding EXCEPT ![w] = None]
  /\ UNCHANGED <<running, nodeVars, leads, pendingMeta, looking, naming, index, filterVars>>

(* What it is called.                                                          *)

FetchName(w) ==
  /\ running
  /\ naming[w] = None
  /\ pendingMeta # <<>>
  /\ naming' = [naming EXCEPT ![w] = Head(pendingMeta)]
  /\ pendingMeta' = Tail(pendingMeta)
  /\ UNCHANGED <<running, nodeVars, leads, looking, holding, index, filterVars>>

\* Metadata that hashes to the infohash, so the same whoever serves it.
Named(w) ==
  LET h == naming[w]
  IN /\ h # None
     /\ \E meta \in IF content[h] = None THEN Metas ELSE {content[h]} :
          /\ meta.name # <<>>
          /\ content' = [content EXCEPT ![h] = meta]
          /\ index' = [index EXCEPT ![h] = RowResolved(h, meta)]
     /\ naming' = [naming EXCEPT ![w] = None]
     /\ UNCHANGED <<running, nodeVars, leads, pendingMeta, looking, holding, old, swept>>

NotNamed(w) ==
  /\ naming[w] # None
  /\ naming' = [naming EXCEPT ![w] = None]
  /\ UNCHANGED <<running, nodeVars, leads, pendingMeta, looking, holding, index, filterVars>>

\* filter-index.mjs: rows that were named before there was a filter are checked
\* by what was kept of them, the name and the size.
Sweep ==
  /\ old # {}
  /\ ~swept
  /\ swept' = TRUE
  /\ index' = [h \in Hashes |->
       IF index[h].named /\ content[h] \in RefusedByName
       THEN [index[h] EXCEPT !.blocked = TRUE, !.named = FALSE]
       ELSE index[h]]
  /\ UNCHANGED <<running, nodeVars, leads, pendingMeta, looking, holding, naming, content, old>>

Stop ==
  /\ running
  /\ running' = FALSE
  /\ UNCHANGED <<nodeVars, hashVars, filterVars>>

SampleEnds(w) ==
  \/ SampleFails(w)
  \/ \E samples \in Lists(Hashes), interval \in {"short", "long"}, neighbours \in Lists(Nodes) :
       Sampled(w, samples, interval, neighbours)

FindEnds(w) == \E neighbours \in Lists(Nodes) : Found(w, neighbours)

LookEnds(w) == NoPeers(w) \/ HasPeers(w)

NameEnds(w) == Named(w) \/ NotNamed(w)

Next ==
  \/ Reseed \/ TableCleared \/ Sweep \/ Stop
  \/ \E n \in Nodes : Rested(n)
  \/ \E w \in Samplers : Sample(w) \/ SampleEnds(w)
  \/ \E w \in Finders : SeedDiscovery(w) \/ FindNode(w) \/ FindEnds(w)
  \/ \E w \in Lookers : GetPeers(w) \/ LookEnds(w) \/ Push(w) \/ GiveUp(w)
  \/ \E w \in Namers : FetchName(w) \/ NameEnds(w)

Spec == Init /\ [][Next]_vars

\* QUERY_TIMEOUT_MS ends every query, fetchMetadata's timers every fetch, and a
\* worker's loop goes on: a waiting looker polls, a sampler takes the next node.
Fairness ==
  /\ \A w \in Samplers : WF_vars(SampleEnds(w)) /\ WF_vars(Sample(w))
  /\ \A w \in Finders : WF_vars(FindEnds(w))
  /\ \A w \in Lookers : WF_vars(LookEnds(w)) /\ WF_vars(GiveUp(w))
  /\ \A w \in Namers : WF_vars(NameEnds(w))

FairSpec == Spec /\ Fairness

-----------------------------------------------------------------------------
(* Properties.                                                                 *)

\* What the gate has of a torrent: its name and its paths, as far as they reach it.
Texts(meta) ==
  LET reaching == {i \in DOMAIN meta.paths : i <= MaxPaths /\ meta.paths[i] # <<>>}
  IN {meta.name} \cup {meta.paths[i] : i \in reaching}

\* No longer word fits in the text.
BannedIn(text) == \E word \in Words(Len(text)) : StandsAlone(word, text)

\* What any of those texts gives away, and what its name does.
Banned == {meta \in Metas : \E text \in Texts(meta) : BannedIn(text)}
BannedByName == {meta \in Metas : BannedIn(meta.name)}
Innocent == {meta \in Metas : ~BannedIn(Subject(Carried(meta))) /\ ~Junk(Carried(meta))}

\* Whatever the order of duplicate leads, failed attempts and namers working on
\* the same hash, no torrent with a banned word standing alone in its name or in
\* one of its first MaxPaths paths has a name in the index, one from before the
\* filter excepted, whose name alone is checked when it is swept. No innocent one
\* is blocked, and a resolved row is one or the other. It is not true of "every
\* file path", as README.md:517 has it: a torrent whose only banned word is in a
\* path after those is named.
GatedNames ==
  \A h \in Hashes :
    /\ index[h].named /\ h \notin old => content[h] \notin Banned
    /\ index[h].named /\ swept => content[h] \notin BannedByName
    /\ index[h].blocked => content[h] \notin Innocent
    /\ index[h].resolved <=> index[h].named \/ index[h].blocked

\* The hash is with the namers, queued for them, or held by waiting lookers.
Jobs(h) ==
  Cardinality({w \in Namers : naming[w] = h})
  + Cardinality({i \in DOMAIN pendingMeta : pendingMeta[i] = h})
  + Cardinality({w \in Lookers : holding[w] = h})

\* Backpressure, not a silent drop: while the crawl runs, every hit becomes a
\* job, and a job ends only when a namer is done with it.
NoHitIsLost ==
  [][running =>
       \A h \in Hashes :
         /\ \A w \in Lookers :
              HasPeers(w) /\ looking[w].hash = h => Jobs(h)' = Jobs(h) + 1
         /\ Jobs(h)' < Jobs(h) => \E w \in Namers : naming[w] = h /\ naming'[w] = None]_vars

\* A node written off after two strikes is soon asked no more: the copies of it
\* that were queued are used up, unless one of them gets an answer.
WrittenOffNodesLeave ==
  \A n \in Nodes :
    nodes[n].supports = "no" ~>
      \/ nodes[n].supports # "no"
      \/ n \notin Range(queue) /\ \A w \in Samplers : sampling[w] # n
      \/ ~running

Waiting(w) == looking[w] # None \/ holding[w] # None

\* After stop() every worker comes to its end: also a looker that was waiting
\* for room nobody will make any more.
StopWindsDown ==
  ~running ~>
    /\ \A w \in Samplers : sampling[w] = None
    /\ \A w \in Finders : finding[w] = None
    /\ \A w \in Lookers : ~Waiting(w)
    /\ \A w \in Namers : naming[w] = None

=============================================================================
