----------------------------- MODULE MCCapture -----------------------------
(* Instances of ConnectorCapture.                                          *)
EXTENDS ConnectorCapture

CONSTANTS c1, c2, acc1, acc2, p, q, r

(* The saved places shrink or are replaced while they are collected.       *)
TwoVersions == <<<<p, q>>, <<r>>>>
OneListing == <<<<p>>>>
=============================================================================
