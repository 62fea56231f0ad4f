----------------------------- MODULE MCProfileStore ---------------------------
(* One access point, saved with and without a password.                        *)
EXTENDS ProfileStore, TLC

CONSTANTS home, good, short, client1, client2

MCProfile == [ssid : {home}, security : {"Open", "Psk"}]
Symmetry  == Permutations(Handler)
===============================================================================
