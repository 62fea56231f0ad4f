---------------------------- MODULE MCNetworkDaemon ---------------------------
(* One wireless interface, which needs both managers.                          *)
EXTENDS NetworkDaemon

CONSTANTS wlan0, c1
===============================================================================
