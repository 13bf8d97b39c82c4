---------------------------- MODULE HealthCoalescer ----------------------------
(* worker/src/index.js: the Durable Object that coalesces health reports for   *)
(* one infohash, and the KV entry it publishes. Objects of different           *)
(* infohashes share nothing, so one is modelled.                               *)
(*                                                                             *)
(* The object's storage operations hold its input gate: no other request is    *)
(* delivered between the read of its state and the storage write. The KV put   *)
(* is outside the gate, so requests, a throttled put, or the loss of the       *)
(* object (eviction, crash) may come while it is in flight.                    *)
EXTENDS Integers

CONSTANTS
  Counts,     \* reported counts, 0 among them
  Coalesce,   \* HEALTH_COALESCE_MS, in ticks
  HealthTtl,  \* HEALTH_TTL_S
  PutLimit,   \* longest a KV put stays unanswered
  MaxNow,     \* bound on the clock
  None,       \* null: no entry
  Unloaded    \* undefined: not read from storage yet

ASSUME CountsAssumption == Counts \subseteq Nat /\ 0 \in Counts
ASSUME TimesAssumption ==
  /\ Coalesce \in Nat \ {0}
  /\ HealthTtl \in Nat \ {0}
  /\ PutLimit \in Nat
  /\ MaxNow \in Nat
  /\ PutLimit < Coalesce

Fields == {"seeders", "leechers", "dhtPeerCount"}
Entry == [reading : [Fields -> Counts], ts : Nat \ {0}]

ASSUME NoneAssumption == None \notin Entry /\ Unloaded \notin Entry /\ None # Unloaded

VARIABLES
  now,      \* Date.now()
  cached,   \* this.cached
  storage,  \* the object's durable entry 'v'
  putting,  \* the KV put in flight
  kv,       \* the published entry
  expires,  \* when KV drops it
  outcome,  \* what the last report was told
  \* history
  lastPut   \* when the last KV put was sent; 0 before the first

vars == <<now, cached, storage, putting, kv, expires, outcome, lastPut>>

Outcomes == {"none", "ignoredZero", "coalesced", "committed", "kvThrottled", "written"}

TypeOK ==
  /\ now \in Nat \ {0}
  /\ cached \in Entry \cup {None, Unloaded}
  /\ storage \in Entry \cup {None}
  /\ putting \in Entry \cup {None}
  /\ kv \in Entry \cup {None}
  /\ expires \in Nat
  /\ outcome \in Outcomes
  /\ lastPut \in Nat

-----------------------------------------------------------------------------
(* Merging a report over the stored entry.                                     *)

\* An observation is a count per field, measured now.
Observation == [Fields -> Counts]

Positive(e, f) == e.reading[f] > 0

\* An all-zero report says nothing against a swarm with seeders or DHT peers.
Discarded(prev, obs) ==
  /\ \A f \in Fields : obs[f] = 0
  /\ prev # None
  /\ Positive(prev, "seeders") \/ Positive(prev, "dhtPeerCount")

\* Mutant: a zero replaces what was stored.
FieldTaken(prev, obs, f) == obs[f]

\* A zero keeps what was stored.
FieldMerged(prev, obs, f) ==
  IF obs[f] = 0 /\ prev # None THEN prev.reading[f] ELSE obs[f]

Merged(prev, obs) == [reading |-> [f \in Fields |-> FieldMerged(prev, obs, f)], ts |-> now]

\* Mutant: an interval one short.
TooSoonByOne(prev) == prev # None /\ now - prev.ts < Coalesce - 1

TooSoon(prev) == prev # None /\ now - prev.ts < Coalesce

-----------------------------------------------------------------------------
Init ==
  /\ now = 1
  /\ cached = Unloaded
  /\ storage = None
  /\ putting = None
  /\ kv = None
  /\ expires = 0
  /\ outcome = "none"
  /\ lastPut = 0

Loaded == IF cached = Unloaded THEN storage ELSE cached

\* Mutant: the commit stays in memory.
StoredNowhere(next) == storage

\* The entry goes to durable storage before the KV put is sent.
Stored(next) == next

\* fetch(), up to the KV put.
Report(obs) ==
  LET prev == Loaded
      next == Merged(prev, obs)
  IN \/ /\ Discarded(prev, obs)
        /\ cached' = prev
        /\ outcome' = "ignoredZero"
        /\ UNCHANGED <<now, storage, putting, kv, expires, lastPut>>
     \/ /\ ~Discarded(prev, obs)
        /\ TooSoon(prev)
        /\ cached' = prev
        /\ outcome' = "coalesced"
        /\ UNCHANGED <<now, storage, putting, kv, expires, lastPut>>
     \/ /\ ~Discarded(prev, obs)
        /\ ~TooSoon(prev)
        /\ cached' = next
        /\ storage' = Stored(next)
        /\ putting' = next
        /\ outcome' = "committed"
        /\ lastPut' = now
        /\ UNCHANGED <<now, kv, expires>>

\* Mutant: the put carries no TTL.
PutForever ==
  /\ putting # None
  /\ kv' = putting
  /\ expires' = now + MaxNow
  /\ putting' = None
  /\ outcome' = "written"
  /\ UNCHANGED <<now, cached, storage, lastPut>>

\* KV takes the entry; its TTL starts now.
PutAccepted ==
  /\ putting # None
  /\ kv' = putting
  /\ expires' = now + HealthTtl
  /\ putting' = None
  /\ outcome' = "written"
  /\ UNCHANGED <<now, cached, storage, lastPut>>

\* KV answers 429: a throttled write is a skipped write.
PutThrottled ==
  /\ putting # None
  /\ putting' = None
  /\ outcome' = "kvThrottled"
  /\ UNCHANGED <<now, cached, storage, kv, expires, lastPut>>

\* The object is evicted or its machine dies; a put in flight is lost.
ObjectLost ==
  /\ cached # Unloaded
  /\ cached' = Unloaded
  /\ putting' = None
  /\ UNCHANGED <<now, storage, kv, expires, outcome, lastPut>>

\* KV's expirationTtl.
Expire ==
  /\ kv # None
  /\ now >= expires
  /\ kv' = None
  /\ UNCHANGED <<now, cached, storage, putting, expires, outcome, lastPut>>

\* Time passes; a put in flight is answered within PutLimit, and KV drops an
\* entry when its time has come.
Tick ==
  /\ now < MaxNow
  /\ putting # None => now - putting.ts < PutLimit
  /\ kv # None => now < expires
  /\ now' = now + 1
  /\ UNCHANGED <<cached, storage, putting, kv, expires, outcome, lastPut>>

Next ==
  \/ \E obs \in Observation : Report(obs)
  \/ PutAccepted
  \/ PutThrottled
  \/ ObjectLost
  \/ Expire
  \/ Tick

Spec == Init /\ [][Next]_vars

-----------------------------------------------------------------------------
(* Safety.                                                                     *)

\* The object never publishes what it could forget: whatever is on its way to
\* KV or was published is not newer than durable storage, and its memory, when
\* loaded, is its storage.
StorageLeads ==
  /\ cached # Unloaded => cached = storage
  /\ \A e \in {putting, kv} \ {None} : storage # None /\ e.ts <= storage.ts

(* What a step may never do.                                                   *)

\* KV sees at most one write per interval for the key, whatever is reported,
\* throttled or lost in between.
OneWritePerInterval ==
  [][lastPut' # lastPut => lastPut = 0 \/ lastPut' - lastPut >= Coalesce]_vars

\* No report erases a positive reading: not in storage, and not in the entry
\* readers see, which only expiry removes.
PositiveSurvives ==
  [][\A f \in Fields :
       /\ storage # None /\ Positive(storage, f) => Positive(storage', f)
       /\ kv # None /\ kv' # None /\ Positive(kv, f) => Positive(kv', f)]_vars

=============================================================================
