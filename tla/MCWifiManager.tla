----------------------------- MODULE MCWifiManager ----------------------------
(* Processes are numbered in the order in which they are started.             *)
EXTENDS WifiManager, TLC
===============================================================================
