---------------------------- MODULE MC_ArpTable ----------------------------
(***************************************************************************)
(* ArpTable instantiated for TLC: two table slots shared by four           *)
(* <<ip, dev>> pairs, so the table fills and evicts; a 4-bit clock_t and    *)
(* int with at most 3 ticks of uptime, so no tick difference wraps.        *)
(* d1 is an Ethernet device owning address 2; d2 owns address 1 but is not *)
(* Ethernet, so arp_match must reject it.  Neighbours have one address m1 *)
(* besides the unreachable one; the devices' own address m2 differs, so  *)
(* an answer from the local-device fallback is told apart from a cached *)
(* one.                                                                   *)
(***************************************************************************)
EXTENDS ArpTable

CONSTANTS d1, d2, m1, m2

MC_Devs == {d1, d2}
MC_Macs == {m1}
MC_DevIp == (d1 :> 2) @@ (d2 :> 1)
MC_DevMac == (d1 :> m2) @@ (d2 :> m2)

=============================================================================
