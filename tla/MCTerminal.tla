----------------------------- MODULE MCTerminal -----------------------------
(***************************************************************************)
(* A wired interface and the Wi-Fi interface, one SSID with and without a  *)
(* secret.  A form may hold two IPv4 addresses and one IPv6 address, so    *)
(* that the two lists of changes have different lengths.                   *)
(***************************************************************************)
EXTENDS Terminal, TLC

CONSTANTS em0, wlan0, home, a1, a2, c1

MCDevice == {em0, wlan0}
MCSsid   == {home}
MCLists4 == {<<>>, <<a1, a2>>}
MCLists6 == {<<>>, <<c1>>}
MCProfiles == {[ssid |-> home, security |-> "Psk"]}
MCLinks  ==
  (em0 :> [NewLink EXCEPT !.dhcp = FALSE, !.v4 = {a1, a2}]) @@ (wlan0 :> NewLink)
===============================================================================
