----------------------------- MODULE MCReplica -----------------------------
\* Four requests from one address: three of them changes.
EXTENDS Replica, TLC

CONSTANTS q1, q2, q3, q4, ip1

Origins == q1 :> ip1 @@ q2 :> ip1 @@ q3 :> ip1 @@ q4 :> ip1
============================================================================
