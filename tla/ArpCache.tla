------------------------------ MODULE ArpCache ------------------------------
(***************************************************************************)
(* What the ARP table of net/arp/arp_table.c promises, with no slots, no   *)
(* scan and no wrapping clock: a map from (IP address, device) keys to a   *)
(* link-layer address and the (unbounded) time it was last written.        *)
(*                                                                         *)
(*  - at most Capacity keys are cached;                                    *)
(*  - writing a cached key refreshes it in place;                          *)
(*  - writing a new key into a full cache drops a key whose last write is  *)
(*    the oldest of all cached keys (least recently refreshed);            *)
(*  - a key is removed by Delete, or with every key of its device by       *)
(*    Purge;                                                               *)
(*  - Resolve answers from a cached key, and when asked to check expiry,   *)
(*    only from a key written at most MaxAge time units ago.               *)
(*                                                                         *)
(* ArpTable is shown to implement this module under a refinement mapping.  *)
(***************************************************************************)
EXTENDS Integers, FiniteSets, TLC

CONSTANTS
    Capacity,   \* number of keys the cache may hold
    Keys,       \* the <<ip, dev>> pairs a caller may write
    MacVals,    \* link-layer addresses, the "unreachable" one included
    MaxAge,     \* entries older than this are not returned when expiry is checked
    MaxClock,   \* last time unit explored
    NoEntry     \* the answer of Resolve for a key with no usable mapping

VARIABLES cache, clock

vars == <<cache, clock>>

Entry == [mac : MacVals, born : 0..MaxClock]

TypeOK ==
    /\ DOMAIN cache \subseteq Keys
    /\ \A k \in DOMAIN cache : cache[k] \in Entry
    /\ clock \in 0..MaxClock

Init ==
    /\ cache = [k \in {} |-> [mac |-> NoEntry, born |-> 0]]
    /\ clock = 0

\* The keys whose last write is the oldest of the cache.
Oldest == {k \in DOMAIN cache : \A j \in DOMAIN cache : cache[k].born <= cache[j].born}

\* cache with key k (re)written to m at the current time, and the keys in
\* gone removed.
Put(k, m, gone) ==
    [j \in (DOMAIN cache \ gone) \cup {k} |->
        IF j = k THEN [mac |-> m, born |-> clock] ELSE cache[j]]

Write(k, m) ==
    /\ \/ k \in DOMAIN cache /\ cache' = Put(k, m, {})
       \/ /\ k \notin DOMAIN cache
          /\ Cardinality(DOMAIN cache) < Capacity
          /\ cache' = Put(k, m, {})
       \/ /\ k \notin DOMAIN cache
          /\ Cardinality(DOMAIN cache) = Capacity
          /\ \E victim \in Oldest : cache' = Put(k, m, {victim})
    /\ UNCHANGED clock

Delete(k) ==
    /\ k \in DOMAIN cache
    /\ cache' = [j \in DOMAIN cache \ {k} |-> cache[j]]
    /\ UNCHANGED clock

Purge(d) ==
    /\ cache' = [j \in {j \in DOMAIN cache : j[2] # d} |-> cache[j]]
    /\ UNCHANGED clock

Tick ==
    /\ clock < MaxClock
    /\ clock' = clock + 1
    /\ UNCHANGED cache

Next ==
    \/ \E k \in Keys, m \in MacVals : Write(k, m)
    \/ \E k \in Keys : Delete(k)
    \/ \E d \in {k[2] : k \in Keys} : Purge(d)
    \/ Tick

Spec == Init /\ [][Next]_vars

\* The address cached for key k, or NoEntry when there is none or, with
\* check, when it was written more than MaxAge time units ago.
Resolve(k, check) ==
    IF k \in DOMAIN cache /\ (~check \/ clock - cache[k].born <= MaxAge)
    THEN cache[k].mac
    ELSE NoEntry

=============================================================================
