---------------------------- MODULE MCWpaSupplicant ---------------------------
(* Three profiles of two networks: one for any access point of the first, one  *)
(* for a single access point of it, and one of the second.  Ids are given out  *)
(* in any order, so they are interchangeable.                                  *)
EXTENDS WpaSupplicant, TLC

CONSTANTS home, cafe, ap1, p1, s1, u1, id1, id2

HomeAny   == [ssid |-> home, security |-> "Psk", bssid |-> None]
HomeAp    == [ssid |-> home, security |-> "Psk", bssid |-> ap1]
CafeEap   == [ssid |-> cafe, security |-> "Eap", bssid |-> None]
MCProfile == {HomeAny, HomeAp, CafeEap}
MCNetId   == {id1, id2}
Symmetry  == Permutations(MCNetId)
MCLoads   == {{}, {HomeAp, CafeEap}}
===============================================================================
