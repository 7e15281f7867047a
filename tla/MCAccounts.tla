----------------------------- MODULE MCAccounts -----------------------------
(* Small instances of Accounts for TLC.                                    *)
EXTENDS Accounts, TLC

CONSTANTS u1, t1, t2, t3, s1, p1, p2, r1, r2

OneUser == {u1}
TwoTokens == {t1, t2}
ThreeTokens == {t1, t2, t3}
OneSession == {s1}
OnePassword == {p1}
TwoPasswords == {p1, p2}
TwoRequests == {r1, r2}

\* A verification token lives longer than a reset token (24 hours, 30 minutes).
Lives == [verify |-> 2, reset |-> 1]

Interchangeable == Permutations(Token) \cup Permutations(SessionId)
                     \cup Permutations(Password) \cup Permutations(Req)
=============================================================================
