------------------------------ MODULE ArpTable ------------------------------
(***************************************************************************)
(* The ARP table of net/arp/arp_table.c: g_arptable, a fixed array of      *)
(* CONFIG_NET_ARPTAB_SIZE entries, and the operations arp_update,          *)
(* arp_delete and arp_cleanup that change it, arp_find and arp_snapshot    *)
(* that read it, and the netlink neighbour notifications that arp_update   *)
(* and arp_delete emit (CONFIG_NETLINK_ROUTE).  Every operation runs with  *)
(* the network locked, so each one is a single atomic step.                *)
(*                                                                         *)
(* Time: clock is the number of ticks since boot (a ghost, unbounded in    *)
(* the code's terms); clock_systime_ticks() is clock modulo 2^TickBits,    *)
(* the width of clock_t.  An entry keeps the real time it was written      *)
(* (born); its at_time field is born modulo 2^TickBits.                    *)
(*                                                                         *)
(* Notifications: neigh is the neighbour table a netlink listener builds   *)
(* from RTM_NEWNEIGH / RTM_DELNEIGH, keyed by <<ip, dev>>.  unannounced is *)
(* a ghost: the keys arp_cleanup dropped without telling the listener.     *)
(***************************************************************************)
EXTENDS Integers, Sequences, FiniteSets, TLC

CONSTANTS
    N,          \* CONFIG_NET_ARPTAB_SIZE
    Devs,       \* network devices (struct net_driver_s *)
    NoDev,      \* the NULL device pointer of a zeroed entry
    Addrs,      \* non-zero IPv4 addresses
    Macs,       \* non-zero Ethernet addresses a neighbour may have
    ZeroMac,    \* g_zero_ethaddr, the "unreachable" address
    NullEth,    \* a NULL ethaddr argument of arp_update
    TickBits,   \* width of clock_t
    IntBits,    \* width of int, for the (int) cast in arp_return_old_entry
    MaxAge,     \* ARP_MAXAGE_TICK
    MaxClock,   \* last tick explored
    EthDevs,    \* devices whose d_lltype is NET_LL_ETHERNET or NET_LL_IEEE80211
    DevIp,      \* d_ipaddr of each device, 0 when none
    DevMac      \* d_mac.ether of each device

ASSUME /\ N \in Nat \ {0}
       /\ 0 \notin Addrs /\ Addrs \subseteq Nat
       /\ ZeroMac \notin Macs /\ NullEth \notin Macs \cup {ZeroMac}
       /\ NoDev \notin Devs
       /\ IntBits \in 1..TickBits
       /\ EthDevs \subseteq Devs
       /\ DevIp \in [Devs -> Addrs \cup {0}]
       /\ \A d \in Devs : DevMac[d] \notin {ZeroMac, NullEth}

VARIABLES tab, clock, neigh, unannounced

vars == <<tab, clock, neigh, unannounced>>

Slots == 0..(N - 1)
NoSlot == -1
MacVals == Macs \cup {ZeroMac}
Keys == Addrs \X Devs

\* struct arp_entry_s, with born standing for at_time (see above).
ArpEntry == [ipaddr : Addrs \cup {0}, ethaddr : MacVals,
             dev : Devs \cup {NoDev}, born : 0..MaxClock]

\* A zeroed entry: the static initial value and what memset leaves.
ZeroEntry == [ipaddr |-> 0, ethaddr |-> ZeroMac, dev |-> NoDev, born |-> 0]

Init ==
    /\ tab = [i \in Slots |-> ZeroEntry]
    /\ clock = 0
    /\ neigh = [k \in {} |-> ZeroMac]
    /\ unannounced = {}

-----------------------------------------------------------------------------
(* Clock arithmetic.                                                       *)

\* clock_systime_ticks()
Ticks == clock % (2 ^ TickBits)

AtTime(i) == tab[i].born % (2 ^ TickBits)

\* clock_systime_ticks() - tabptr->at_time, computed in clock_t.
Age(i) == (Ticks - AtTime(i)) % (2 ^ TickBits)

\* (int)(a - b) for two clock_t values a and b.
SignedDiff(a, b) ==
    LET d == (a - b) % (2 ^ IntBits)
    IN  IF d >= 2 ^ (IntBits - 1) THEN d - 2 ^ IntBits ELSE d

-----------------------------------------------------------------------------
(* Helpers of arp_table.c.                                                 *)

\* A plausible bug in arp_return_old_entry, for mutation testing of
\* CacheRefinement: the signed difference tested the wrong way round, so the
\* newer of two entries is reused.
ArpReturnNewerEntry(e1, e2) ==
    CASE tab[e1].ipaddr = 0                             -> e1
      [] tab[e2].ipaddr = 0                             -> e2
      [] SignedDiff(AtTime(e1), AtTime(e2)) >= 0        -> e1
      [] OTHER                                          -> e2

\* arp_return_old_entry: the slot to prefer for reuse of e1 and e2.
ArpReturnOldEntry(e1, e2) ==
    CASE tab[e1].ipaddr = 0                             -> e1
      [] tab[e2].ipaddr = 0                             -> e2
      [] SignedDiff(AtTime(e1), AtTime(e2)) <= 0        -> e1
      [] OTHER                                          -> e2

\* The first slot of a non-empty set of slots.
First(S) == CHOOSE i \in S : \A j \in S : i <= j

\* A plausible bug in arp_lookup, for mutation testing of
\* FindAgreesWithCache: an entry exactly ARP_MAXAGE_TICK old counted as expired.
NotExpiredStrict(i) == Age(i) < MaxAge

\* The expiry test of arp_lookup.
NotExpired(i) == Age(i) <= MaxAge

\* arp_lookup: the first slot holding <<ip, dev>>, or NoSlot when there is
\* none or, with check_expiry, when that slot is older than ARP_MAXAGE_TICK.
ArpLookup(ip, dev, check) ==
    LET hits == {i \in Slots : tab[i].dev = dev /\ tab[i].ipaddr = ip}
    IN  IF hits = {} THEN NoSlot
        ELSE IF ~check \/ NotExpired(First(hits)) THEN First(hits)
        ELSE NoSlot

\* arp_match: device d is an Ethernet device that owns ip.
ArpMatch(d, ip) == d \in EthDevs /\ DevIp[d] = ip

\* arp_get_arpreq: what a notification or a snapshot reports of slot i.
ArpGetArpreq(i) ==
    [ip |-> tab[i].ipaddr, mac |-> tab[i].ethaddr, dev |-> tab[i].dev]

\* netlink_neigh_notify as seen by the listener.
NewNeigh(v, r) == [k \in DOMAIN v \cup {<<r.ip, r.dev>>} |->
                      IF k = <<r.ip, r.dev>> THEN r.mac ELSE v[k]]
DelNeigh(v, r) == [k \in DOMAIN v \ {<<r.ip, r.dev>>} |-> v[k]]

\* True when slot i holds <<ip, dev>>, as arp_update tests it.
UpdateMatch(dev, ip, i) ==
    tab[i].dev = dev /\ tab[i].ipaddr # 0 /\ tab[i].ipaddr = ip

\* A plausible bug in the loop of arp_update, for mutation testing of
\* NoDuplicateBinding: the break after a match is missing, so the scan
\* goes on folding the matched slot with the later ones.
RECURSIVE UpdateScanNoBreak(_, _, _, _)
UpdateScanNoBreak(dev, ip, i, tabptr) ==
    IF i = N THEN [slot |-> tabptr, found |-> \E j \in Slots : UpdateMatch(dev, ip, j)]
    ELSE UpdateScanNoBreak(dev, ip, i + 1,
            IF UpdateMatch(dev, ip, i) THEN i ELSE ArpReturnOldEntry(tabptr, i))

\* The loop of arp_update from index i on, tabptr being the oldest slot of
\* 0..i-1: the matching slot, or else the slot to overwrite.
RECURSIVE UpdateScan(_, _, _, _)
UpdateScan(dev, ip, i, tabptr) ==
    IF i = N THEN [slot |-> tabptr, found |-> FALSE]
    ELSE IF UpdateMatch(dev, ip, i) THEN [slot |-> i, found |-> TRUE]
    ELSE UpdateScan(dev, ip, i + 1, ArpReturnOldEntry(tabptr, i))

-----------------------------------------------------------------------------
(* Operations that change the table.                                       *)

\* A plausible bug in arp_update, for mutation testing of TypeOK: the
\* NULL ethaddr is stored as it is instead of as g_zero_ethaddr.
EthOrZeroUnchecked(eth) == eth

\* The address arp_update stores: g_zero_ethaddr for a NULL ethaddr.
EthOrZero(eth) == IF eth = NullEth THEN ZeroMac ELSE eth

\* A plausible bug in arp_update, for mutation testing of
\* NeighViewMatchesTable: new_entry compared against the entry after it is
\* overwritten, where the address always equals the new one.
NewEntryAfterWrite(t, mac) == ~t.found

\* new_entry of arp_update: the scan result t needs an RTM_NEWNEIGH for mac.
NewEntry(t, mac) == ~t.found \/ tab[t.slot].ethaddr # mac

\* arp_update(dev, ipaddr, ethaddr); ethaddr = NullEth records ipaddr as
\* unreachable.
ArpUpdate(dev, ip, eth) ==
    LET t     == UpdateScan(dev, ip, 0, 0)
        old   == tab[t.slot]
        mac   == EthOrZero(eth)
        new   == [ipaddr |-> ip, ethaddr |-> mac, dev |-> dev, born |-> clock]
        evict == ~t.found /\ old.ipaddr # 0
        v1    == IF evict THEN DelNeigh(neigh, ArpGetArpreq(t.slot)) ELSE neigh
    IN  /\ tab' = [tab EXCEPT ![t.slot] = new]
        /\ neigh' = IF NewEntry(t, mac)
                    THEN NewNeigh(v1, [ip |-> ip, mac |-> mac, dev |-> dev])
                    ELSE v1
        /\ unannounced' = unannounced \ {<<ip, dev>>}
        /\ UNCHANGED clock

\* net_ip4addr_conv32: the in_addr_t held in the two 16-bit halves of an
\* IP header address field (pip[1] is the low half on this target).
Conv32(pip) == pip[2] * 2 ^ 16 + pip[1]

\* arp_hdr_update(dev, pipaddr, ethaddr): arp_update of the converted address.
ArpHdrUpdate(dev, pip, eth) == ArpUpdate(dev, Conv32(pip), eth)

\* arp_delete(ipaddr, dev) when the entry is present; when it is not, the
\* call returns -ENOENT and changes nothing.
ArpDelete(ip, dev) ==
    LET s == ArpLookup(ip, dev, FALSE)
    IN  /\ s # NoSlot
        /\ neigh' = DelNeigh(neigh, ArpGetArpreq(s))
        /\ tab' = [tab EXCEPT ![s].ipaddr = 0]
        /\ UNCHANGED <<clock, unannounced>>

\* arp_cleanup(dev): zero every entry of dev, with no notification.
ArpCleanup(dev) ==
    LET gone == {i \in Slots : tab[i].dev = dev}
    IN  /\ tab' = [i \in Slots |-> IF i \in gone THEN ZeroEntry ELSE tab[i]]
        /\ unannounced' = unannounced \cup
                            {<<tab[i].ipaddr, dev>> : i \in {j \in gone : tab[j].ipaddr # 0}}
        /\ UNCHANGED <<clock, neigh>>

\* The system timer: one tick passes.
Tick ==
    /\ clock < MaxClock
    /\ clock' = clock + 1
    /\ UNCHANGED <<tab, neigh, unannounced>>

Next ==
    \/ \E d \in Devs, ip \in Addrs, eth \in Macs \cup {NullEth} :
          ArpUpdate(d, ip, eth)
    \/ \E d \in Devs, a \in Addrs, eth \in Macs \cup {NullEth} :
          ArpHdrUpdate(d, <<a % 2 ^ 16, a \div 2 ^ 16>>, eth)
    \/ \E d \in Devs, ip \in Addrs : ArpDelete(ip, d)
    \/ \E d \in Devs : ArpCleanup(d)
    \/ Tick

Spec == Init /\ [][Next]_vars

-----------------------------------------------------------------------------
(* Operations that read the table.                                         *)

\* arp_find(ipaddr, ethaddr, dev, check_expiry): the return code and the
\* address written to ethaddr.
ArpFind(ip, dev, check) ==
    LET s      == ArpLookup(ip, dev, check)
        owners == {d \in Devs : ArpMatch(d, ip)}
    IN  IF s # NoSlot
        THEN IF tab[s].ethaddr = ZeroMac
             THEN [res |-> "ENETUNREACH", mac |-> ZeroMac]
             ELSE [res |-> "OK", mac |-> tab[s].ethaddr]
        ELSE IF owners # {}
        THEN [res |-> "OK", mac |-> DevMac[CHOOSE d \in owners : TRUE]]
        ELSE [res |-> "ENOENT", mac |-> ZeroMac]

\* A plausible bug in the loop of arp_snapshot, for mutation testing of
\* SnapshotAgreesWithCache: the bound test lets one entry too many through.
RECURSIVE SnapshotLoopOverrun(_, _, _)
SnapshotLoopOverrun(nentries, i, copied) ==
    IF ~(nentries >= Len(copied) /\ i < N) THEN copied
    ELSE SnapshotLoopOverrun(nentries, i + 1,
            IF tab[i].ipaddr # 0 /\ Age(i) <= MaxAge
            THEN Append(copied, ArpGetArpreq(i))
            ELSE copied)

\* The loop of arp_snapshot from index i on, with the entries copied so far.
RECURSIVE SnapshotLoop(_, _, _)
SnapshotLoop(nentries, i, copied) ==
    IF ~(nentries > Len(copied) /\ i < N) THEN copied
    ELSE SnapshotLoop(nentries, i + 1,
            IF tab[i].ipaddr # 0 /\ Age(i) <= MaxAge
            THEN Append(copied, ArpGetArpreq(i))
            ELSE copied)

\* arp_snapshot(snapshot, nentries): the entries copied, in order.
ArpSnapshot(nentries) == SnapshotLoop(nentries, 0, <<>>)

-----------------------------------------------------------------------------
(* Properties.                                                             *)

TypeOK ==
    /\ tab \in [Slots -> ArpEntry]
    /\ clock \in 0..MaxClock
    /\ DOMAIN neigh \subseteq Keys /\ \A k \in DOMAIN neigh : neigh[k] \in MacVals
    /\ unannounced \subseteq Keys

Bound(i) == tab[i].ipaddr # 0
KeyOf(i) == <<tab[i].ipaddr, tab[i].dev>>
BoundKeys == {KeyOf(i) : i \in {j \in Slots : Bound(j)}}
SlotOf(k) == First({i \in Slots : Bound(i) /\ KeyOf(i) = k})

\* arp_update never creates a second entry for an <<ip, dev>> pair: after
\* any sequence of updates, deletes and cleanups, two in-use slots never
\* hold the same pair (the scan must stop at the match it finds).
NoDuplicateBinding ==
    \A i, j \in Slots : i # j /\ Bound(i) /\ Bound(j) => KeyOf(i) # KeyOf(j)

\* The neighbour table a netlink listener builds from the notifications of
\* arp_update and arp_delete is the ARP table: every in-use entry was
\* announced with its current address, and every announced pair is still
\* in the table unless arp_cleanup (which notifies nothing) dropped it.
\* Eviction must send RTM_DELNEIGH before the slot is reused, and
\* new_entry must be computed from the entry before it is overwritten.
NeighViewMatchesTable ==
    /\ \A i \in Slots : Bound(i) =>
          KeyOf(i) \in DOMAIN neigh /\ neigh[KeyOf(i)] = tab[i].ethaddr
    /\ \A k \in DOMAIN neigh : k \in BoundKeys \/ k \in unannounced

\* The cache the table implements: each in-use pair with its address and
\* the time it was last written.
CacheView == [k \in BoundKeys |-> [mac |-> tab[SlotOf(k)].ethaddr,
                                   born |-> tab[SlotOf(k)].born]]

Cache == INSTANCE ArpCache WITH
    Capacity <- N, NoEntry <- NullEth, cache <- CacheView

\* g_arptable implements the abstract cache: at most N pairs, an update of
\* a cached pair refreshes it, and an update of a new pair into a full
\* table replaces the least recently written pair (arp_return_old_entry's
\* wrap-safe comparison of at_time).
CacheRefinement == Cache!Spec

\* arp_find answers from the cache: the cached address of <<ip, dev>> when
\* it is usable (written at most MaxAge ticks ago, if check_expiry), with
\* -ENETUNREACH for an address recorded as unreachable; otherwise the
\* address of a local Ethernet device owning ip, else -ENOENT.
FindAgreesWithCache ==
    \A ip \in Addrs, d \in Devs, check \in BOOLEAN :
        LET r      == Cache!Resolve(<<ip, d>>, check)
            owners == {o \in EthDevs : DevIp[o] = ip}
        IN  ArpFind(ip, d, check) =
              IF r = ZeroMac THEN [res |-> "ENETUNREACH", mac |-> ZeroMac]
              ELSE IF r # NullEth THEN [res |-> "OK", mac |-> r]
              ELSE IF owners # {}
              THEN [res |-> "OK", mac |-> DevMac[CHOOSE o \in owners : TRUE]]
              ELSE [res |-> "ENOENT", mac |-> ZeroMac]

\* arp_snapshot with room for nentries entries returns the first nentries
\* in-use entries written at most MaxAge ticks ago, in slot order, and
\* nothing else.
SnapshotAgreesWithCache ==
    \A n \in 0..(N + 1) :
        LET fresh == SelectSeq([j \in 1..N |-> j - 1],
                        LAMBDA i : Bound(i) /\ clock - tab[i].born <= MaxAge)
            taken == SubSeq(fresh, 1, IF n < Len(fresh) THEN n ELSE Len(fresh))
        IN  ArpSnapshot(n) = [j \in 1..Len(taken) |-> ArpGetArpreq(taken[j])]

=============================================================================
