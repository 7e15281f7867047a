------------------------------- MODULE MCAccess -------------------------------
(* A small instance of Access for TLC.                                     *)
EXTENDS Access, TLC

CONSTANTS u1, s1, s2, t1, t2, t3, r1, r2, admin, text, secret

OneUser == {u1}
OneSession == {s1}
TwoSessions == {s1, s2}
TwoTokens == {t1, t2}
ThreeTokens == {t1, t2, t3}
TwoRequests == {r1, r2}
OneRole == {admin}
OneText == {text}

\* Both fields; one cleared, which COALESCE refuses; one left out.
TwoInputs == {[display |-> text, bio |-> text], [display |-> None, bio |-> Absent]}
ThreeInputs == TwoInputs \cup {[display |-> Absent, bio |-> None]}

Interchangeable == Permutations(SessionId) \cup Permutations(TokenId) \cup Permutations(Req)
=============================================================================
