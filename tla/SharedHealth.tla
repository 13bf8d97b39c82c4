----------------------------- MODULE SharedHealth -----------------------------
(* The loop that shares swarm health: clients report to the coalescer of the   *)
(* infohash (HealthCoalescer), and GET /v1/health serves what it published,    *)
(* through the edge cache, to a client that decides whether to rank on it.     *)
(*                                                                             *)
(* One reader asks at a time, about this infohash and others of the same       *)
(* query; the others are there or not, as they please. The answer is described *)
(* by its timestamp and its tier; its counts play no part here.                *)
EXTENDS HealthCoalescer

CONSTANTS
  EdgeTtl,    \* EDGE_CACHE_S
  ReadLimit,  \* longest a read takes: the client's timeout
  FreshAge,   \* FRESH_MS
  RecentAge,  \* RECENT_MS
  MaxAge      \* SHARED_HEALTH_MAX_AGE_MS

ASSUME ReadAssumption ==
  /\ EdgeTtl \in Nat \ {0}
  /\ ReadLimit \in Nat
  /\ FreshAge \in Nat /\ RecentAge \in Nat /\ FreshAge < RecentAge
  /\ MaxAge \in Nat \ {0}

Tiers == {"fresh", "recent", "stale"}
Described == [ts : Nat \ {0}, confidence : Tiers]

ASSUME NoneDescribed == None \notin Described

VARIABLES
  edge,      \* the edge cache's answer to the query; {} when it has none
  edgeUntil, \* when it leaves
  read,      \* the read: "idle", "fetching" from KV, "answered"
  asked,     \* when it was sent
  answer,    \* what the client is told about the infohash
  decision,  \* what the last answered client did: "none", "shared", "probe"
  \* history
  lacking    \* KV has been without the entry at some moment of the read

reader == <<edge, edgeUntil, read, asked, answer, decision, lacking>>
allVars == <<vars, reader>>

SharedTypeOK ==
  /\ TypeOK
  /\ edge \subseteq Described \cup {None}
  /\ \A a, b \in edge : a = b
  /\ edgeUntil \in Nat
  /\ read \in {"idle", "fetching", "answered"}
  /\ asked \in Nat
  /\ answer \in Described \cup {None}
  /\ decision \in {"none", "shared", "probe"}
  /\ lacking \in BOOLEAN

SharedInit ==
  /\ Init
  /\ edge = {}
  /\ edgeUntil = 0
  /\ read = "idle"
  /\ asked = 0
  /\ answer = None
  /\ decision = "none"
  /\ lacking = FALSE

-----------------------------------------------------------------------------
(* The Worker.                                                                 *)

Tier(age) == IF age <= FreshAge THEN "fresh" ELSE IF age <= RecentAge THEN "recent" ELSE "stale"

\* describe(): the tier is fixed when the entry leaves KV.
Describe(e) == [ts |-> e.ts, confidence |-> Tier(now - e.ts)]

\* getHealth() up to the KV reads: a cached answer goes out as it is.
Ask ==
  /\ read = "idle"
  /\ asked' = now
  /\ IF edge # {}
     THEN read' = "answered" /\ answer' \in edge /\ lacking' = FALSE
     ELSE read' = "fetching" /\ answer' = None /\ lacking' = (kv = None)
  /\ UNCHANGED <<vars, edge, edgeUntil, decision>>

\* Mutant: whatever was found is cached, a miss as well.
CachedAnyway(found, others) == TRUE

\* Only an answer that covers the whole query is cached.
Complete(found, others) == found /\ others

\* The KV reads end; `others` says whether the query's other entries were found.
Fetch ==
  /\ read = "fetching"
  /\ read' = "answered"
  /\ answer' = IF kv = None THEN None ELSE Describe(kv)
  /\ \E others \in BOOLEAN :
       IF Complete(kv # None, others)
       THEN edge' = {answer'} /\ edgeUntil' = now + EdgeTtl
       ELSE UNCHANGED <<edge, edgeUntil>>
  /\ UNCHANGED <<vars, asked, decision, lacking>>

\* max-age has passed.
EdgeExpires ==
  /\ edge # {}
  /\ now >= edgeUntil
  /\ edge' = {}
  /\ UNCHANGED <<vars, edgeUntil, read, asked, answer, decision, lacking>>

-----------------------------------------------------------------------------
(* The client.                                                                 *)

\* _coversAll(), about this infohash.
Covers(a) ==
  /\ a # None
  /\ a.confidence # "stale"
  /\ now - a.ts < MaxAge

\* The answer arrives: the client ranks on it, or probes. The query's other
\* entries may keep it from ranking on this one.
Decide ==
  /\ read = "answered"
  /\ read' = "idle"
  /\ \/ Covers(answer) /\ decision' = "shared"
     \/ decision' = "probe"
  /\ UNCHANGED <<vars, edge, edgeUntil, asked, answer, lacking>>

\* The client's timeout: the answer is not waited for.
GiveUp ==
  /\ read # "idle"
  /\ read' = "idle"
  /\ decision' = "probe"
  /\ UNCHANGED <<vars, edge, edgeUntil, asked, answer, lacking>>

-----------------------------------------------------------------------------
\* A step of the coalescer and its KV entry. Time stands still while a read is
\* overdue or the edge holds an entry whose time has come.
Coalescer ==
  /\ Next
  /\ now' # now =>
       /\ read # "idle" => now - asked < ReadLimit
       /\ edge # {} => now < edgeUntil
  /\ lacking' = (lacking \/ kv' = None)
  /\ UNCHANGED <<edge, edgeUntil, read, asked, answer, decision>>

SharedNext == Coalescer \/ Ask \/ Fetch \/ EdgeExpires \/ Decide \/ GiveUp

SharedSpec == SharedInit /\ [][SharedNext]_allVars

-----------------------------------------------------------------------------
\* A client is told there is no reading only if KV was without one at some
\* moment of its own read: no earlier client's miss is pinned at the edge.
NoPinnedMiss ==
  read = "answered" /\ answer = None => lacking

\* ARCHITECTURE: nothing older than HEALTH_TTL_S appears, plus the edge cache's
\* time on top, and what the put and the read took.
ServedInTime ==
  read = "answered" /\ answer # None =>
    now - answer.ts <= PutLimit + HealthTtl + EdgeTtl + ReadLimit
=============================================================================
