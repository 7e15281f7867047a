------------------------------ MODULE MCReplica ------------------------------
(* A small instance of Replica for TLC.                                    *)
EXTENDS Replica

CONSTANTS c1, c2

TwoConnections == {c1, c2}

\* Small limits, in the order of 100, 10 and 5.
SmallQuota == [auth |-> 3, login |-> 2, recovery |-> 1]
=============================================================================
