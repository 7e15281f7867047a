--------------------------- MODULE MCSessionStore ---------------------------
(* Small instances of SessionStore for TLC.                                *)
EXTENDS SessionRefinement, TLC

CONSTANTS u1, u2, s1, s2, t1, t2, t3, r1, r2, r3

\* One account and its two sessions: every request competes for the same rows.
OneUser == {u1}
TwoUsers == {u1, u2}
OneSession == {s1}
TwoSessions == {s1, s2}
TwoTokens == {t1, t2}
ThreeTokens == {t1, t2, t3}
TwoRequests == {r1, r2}
ThreeRequests == {r1, r2, r3}

\* Ids and requests are interchangeable.
Interchangeable == Permutations(SessionId) \cup Permutations(TokenId)
                     \cup Permutations(Req) \cup Permutations(User)
=============================================================================
