---------------------------- MODULE MCWatchPage ----------------------------
(* WatchPage for TLC: two runs at different endpoints, one of them in      *)
(* another spelling than it may be listed with.                            *)
EXTENDS WatchPage
CONSTANTS u1, u1slash, u2
MCNorm == [u \in Urls |-> IF u = u1slash THEN u1 ELSE u]
MCEndpoint == <<u1slash, u2>>
=============================================================================
