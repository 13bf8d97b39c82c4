------------------------------ MODULE PeerTable ------------------------------
(* The address book of peerTable.js: what the process knows about the          *)
(* liveness of peer addresses, across every torrent it has looked at.          *)
(* The table is a value; the module that owns one (Verification) keeps it in a *)
(* variable and applies these operators to it.                                 *)
(*                                                                             *)
(* A table is [order |-> keys in insertion order, at |-> entry per address].   *)
(* The JavaScript Map holds only the addresses in `order`; here `at` is total  *)
(* and an untracked address has a Fresh entry, which every method treats the   *)
(* way the code treats a missing one.                                          *)
EXTENDS Integers, Sequences, FiniteSets, Functions

CONSTANTS
  Addr,        \* host:port keys
  MaxAddrs,    \* bound on the table (MAX_ADDRS)
  DeadAfter,   \* failed connects before an address is skipped
  DeadTtl,     \* how long the dead verdict stands, in clock ticks
  Rtts,        \* connect times that can be measured
  NoRtt        \* the rtt of an address never reached; orders last (Infinity)

ASSUME MaxAddrsAssumption == MaxAddrs \in Nat \ {0}
ASSUME DeadAfterAssumption == DeadAfter \in Nat \ {0}
ASSUME DeadTtlAssumption == DeadTtl \in Nat \ {0}
ASSUME RttAssumption ==
  /\ Rtts \subseteq Nat
  /\ NoRtt \in Nat
  /\ \A r \in Rtts : r < NoRtt

Entry == [ok : Nat, fail : Nat, lastOk : Nat, lastFail : Nat,
          rtt : Rtts \cup {NoRtt}]
Table == [order : Seq(Addr), at : [Addr -> Entry]]

Fresh == [ok |-> 0, fail |-> 0, lastOk |-> 0, lastFail |-> 0, rtt |-> NoRtt]
EmptyTable == [order |-> <<>>, at |-> [a \in Addr |-> Fresh]]

Tracked(t) == Range(t.order)

-----------------------------------------------------------------------------
(* Inserting and evicting.                                                     *)

EvictCount == IF MaxAddrs < 10 THEN 1 ELSE MaxAddrs \div 10

\* The oldest-created tenth goes, whatever is known about it.
Evict(t) ==
  LET gone == {t.order[i] : i \in 1..EvictCount}
  IN [order |-> SubSeq(t.order, EvictCount + 1, Len(t.order)),
      at |-> [a \in Addr |-> IF a \in gone THEN Fresh ELSE t.at[a]]]

\* _entry(): a tracked address as it is, an unknown one appended.
Touch(t, a) ==
  IF a \in Tracked(t) THEN t
  ELSE LET room == IF Len(t.order) >= MaxAddrs THEN Evict(t) ELSE t
       IN [room EXCEPT !.order = Append(@, a)]

-----------------------------------------------------------------------------
(* Recording what a connection showed.                                         *)

Succeeded(t, a, rtt, now) ==
  [Touch(t, a) EXCEPT !.at[a].ok = @ + 1,
                      !.at[a].lastOk = now,
                      !.at[a].rtt = IF rtt < @ THEN rtt ELSE @]

\* Mutant: connecting is taken for serving.
FailedButGood(t, a, connected, now) ==
  IF connected
  THEN [Touch(t, a) EXCEPT !.at[a].ok = @ + 1, !.at[a].lastOk = now]
  ELSE [Touch(t, a) EXCEPT !.at[a].fail = @ + 1, !.at[a].lastFail = now]

\* A peer that connected and then served nothing leaves no mark on liveness.
Failed(t, a, connected, now) ==
  IF connected
  THEN [Touch(t, a) EXCEPT !.at[a].lastOk = now]
  ELSE [Touch(t, a) EXCEPT !.at[a].fail = @ + 1, !.at[a].lastFail = now]

-----------------------------------------------------------------------------
(* Reading it.                                                                 *)

IsGood(t, a) == t.at[a].ok > 0

IsDead(t, a, now) ==
  /\ ~IsGood(t, a)
  /\ t.at[a].fail >= DeadAfter
  /\ now - t.at[a].lastFail < DeadTtl

\* Every list of at most n distinct addresses.
AddrLists(n) == {s \in UNION {[1..k -> Addr] : k \in 0..n} : IsInjective(s)}

\* rank(): the offered addresses that are not dead, at most `limit` of them.
\* Good addresses come first, fastest first; the rest, and ties, keep the order
\* of the offer. `offer` has no duplicates (dedupePeers), so exactly one list
\* qualifies.
Rankings(t, offer, limit, now) ==
  LET live == {a \in Range(offer) : ~IsDead(t, a, now)}
      size == Cardinality(live)
      place(a) == CHOOSE i \in DOMAIN offer : offer[i] = a
      before(a, b) ==
        \/ IsGood(t, a) /\ ~IsGood(t, b)
        \/ IsGood(t, a) /\ IsGood(t, b) /\ t.at[a].rtt < t.at[b].rtt
        \/ /\ IsGood(t, a) = IsGood(t, b)
           /\ IsGood(t, a) => t.at[a].rtt = t.at[b].rtt
           /\ place(a) < place(b)
  IN {s \in AddrLists(limit) :
        /\ Range(s) \subseteq live
        /\ Len(s) = IF size < limit THEN size ELSE limit
        /\ \A i, j \in DOMAIN s : i < j => before(s[i], s[j])
        /\ \A a \in live \ Range(s), i \in DOMAIN s : before(s[i], a)}
=============================================================================
