--------------------------- MODULE MCEmailOutbox ---------------------------
(* Small instances of EmailOutbox for TLC.                                 *)
EXTENDS EmailOutbox, TLC

CONSTANTS m1, m2, w1, w2

OneMessage == {m1}
TwoMessages == {m1, m2}
TwoWorkers == {w1, w2}

Interchangeable == Permutations(Message) \cup Permutations(Worker)
=============================================================================
