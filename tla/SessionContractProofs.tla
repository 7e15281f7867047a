------------------------ MODULE SessionContractProofs ------------------------
(***************************************************************************)
(* What the contract of the session tables is worth: atomic operations     *)
(* that ask no more than SessionContract does keep all that the rows must  *)
(* satisfy, for every set of accounts and ids and every lifetime.  Whoever *)
(* uses the tables only through the contract (Access) can count on it.     *)
(***************************************************************************)
EXTENDS SessionContract, TLAPS

\* What the contract asks of its constants.
GoodConstants == /\ None \notin User \cup SessionId \cup TokenId
                 /\ Ttl \in Nat \ {0}

SessionRow == [status : {"none", "active", "revoked", "expired", "compromised"},
               user : User \cup {None}, exp : Nat]

TokenRow == [status : {"none", "active", "rotated", "revoked", "expired"},
             sid : SessionId \cup {None}, user : User \cup {None}, exp : Nat,
             next : TokenId \cup {None}, prev : TokenId \cup {None}]

TypeOK == /\ now \in Nat
          /\ sess \in [SessionId -> SessionRow]
          /\ tok \in [TokenId -> TokenRow]

\* A stored token belongs to a stored session of the same user, and does not
\* outlive it by a full lifetime.
OfItsSession ==
  \A t \in TokenId : tok[t].status # "none" =>
    /\ tok[t].sid \in SessionId /\ tok[t].user \in User
    /\ sess[tok[t].sid].status # "none"
    /\ sess[tok[t].sid].user = tok[t].user
    /\ tok[t].exp < sess[tok[t].sid].exp + Ttl

\* A session has at most one token that can be exchanged, and none once it is
\* closed.
OneActive ==
  /\ \A t, x \in TokenId :
       tok[t].status = "active" /\ tok[x].status = "active" /\ tok[t].sid = tok[x].sid => t = x
  /\ \A t \in TokenId : tok[t].status = "active" => sess[tok[t].sid].status = "active"

\* A replacement is of the token that was exchanged for it, and for no other.
ExchangedOnce ==
  \A n \in TokenId : tok[n].prev # None =>
    LET p == tok[tok[n].prev] IN
    /\ tok[n].prev \in TokenId
    /\ p.status = "rotated" /\ p.next = n
    /\ p.sid = tok[n].sid /\ p.user = tok[n].user

RowsOK == TypeOK /\ OfItsSession /\ OneActive /\ ExchangedOnce

-----------------------------------------------------------------------------
LEMMA RowsInit == GoodConstants /\ Init => RowsOK
BY DEF GoodConstants, Init, NoSession, NoToken, RowsOK, TypeOK, SessionRow, TokenRow,
       OfItsSession, OneActive, ExchangedOnce

\* A login stores a session and its first token under ids of their own.
LEMMA CreateKeeps ==
  ASSUME GoodConstants, RowsOK, NEW u \in User, Create(u)
  PROVE  RowsOK'
<1>1. PICK s \in SessionId, n \in TokenId, at \in 0..now :
        /\ sess[s].status = "none" /\ tok[n].status = "none"
        /\ sess' = [sess EXCEPT ![s] = [status |-> "active", user |-> u, exp |-> at + Ttl]]
        /\ tok' = [tok EXCEPT ![n] =
                     [status |-> "active", sid |-> s, user |-> u, exp |-> at + Ttl,
                      next |-> None, prev |-> None]]
        /\ now' = now
  BY DEF Create
<1> DEFINE row == [status |-> "active", user |-> u, exp |-> at + Ttl]
           new == [status |-> "active", sid |-> s, user |-> u, exp |-> at + Ttl,
                   next |-> None, prev |-> None]
<1>2. at + Ttl \in Nat /\ at + Ttl < at + Ttl + Ttl
  BY DEF GoodConstants, RowsOK, TypeOK
<1>3. row \in SessionRow /\ row.status = "active" /\ row.user = u /\ row.exp = at + Ttl
  BY <1>2 DEF SessionRow
<1>4. new \in TokenRow /\ new.status = "active" /\ new.sid = s /\ new.user = u
      /\ new.exp = at + Ttl /\ new.prev = None
  BY <1>2 DEF TokenRow
<1>5. /\ sess' \in [SessionId -> SessionRow] /\ sess'[s] = row
      /\ \A x \in SessionId : x # s => sess'[x] = sess[x]
  BY <1>1, <1>3 DEF RowsOK, TypeOK
<1>6. /\ tok' \in [TokenId -> TokenRow] /\ tok'[n] = new
      /\ \A x \in TokenId : x # n => tok'[x] = tok[x]
  BY <1>1, <1>4 DEF RowsOK, TypeOK
<1> HIDE DEF row, new
<1>7. \A t \in TokenId : tok[t].status # "none" => tok[t].sid \in SessionId \ {s}
  BY <1>1 DEF RowsOK, OfItsSession
<1>8. TypeOK'
  BY <1>1, <1>5, <1>6 DEF RowsOK, TypeOK
<1>9. OfItsSession'
  BY <1>2, <1>3, <1>4, <1>5, <1>6, <1>7 DEF RowsOK, OfItsSession
<1>10. OneActive'
  BY <1>3, <1>4, <1>5, <1>6, <1>7 DEF RowsOK, OneActive
<1>11. ExchangedOnce'
  BY <1>1, <1>4, <1>6 DEF RowsOK, ExchangedOnce
<1> QED BY <1>8, <1>9, <1>10, <1>11 DEF RowsOK

\* An exchange replaces the session's active token by another.
LEMMA ExchangeKeeps ==
  ASSUME GoodConstants, RowsOK, NEW t \in TokenId, Exchange(t)
  PROVE  RowsOK'
<1> DEFINE s == tok[t].sid
           new(n, at) == [status |-> "active", sid |-> s, user |-> tok[t].user,
                          exp |-> at + Ttl, next |-> None, prev |-> t]
<1>1. /\ tok[t].status = "active" /\ sess[s].status = "active"
      /\ now' = now /\ sess' = sess
  BY DEF Exchange
<1>2. PICK n \in TokenId, at \in 0..now :
        /\ tok[n].status = "none" /\ at < sess[s].exp
        /\ tok' = [tok EXCEPT ![t].status = "rotated", ![t].next = n, ![n] = new(n, at)]
  BY DEF Exchange
<1> DEFINE row == new(n, at)
           old == [tok[t] EXCEPT !.status = "rotated", !.next = n]
<1>3. s \in SessionId /\ tok[t].user \in User /\ sess[s].user = tok[t].user
      /\ tok[t].exp < sess[s].exp + Ttl /\ n # t
  BY <1>1, <1>2 DEF RowsOK, OfItsSession
<1>4. at + Ttl \in Nat /\ at + Ttl < sess[s].exp + Ttl
  <2>1. sess[s].exp \in Nat
    BY <1>3 DEF RowsOK, TypeOK, SessionRow
  <2> QED BY <1>2, <2>1 DEF GoodConstants, RowsOK, TypeOK
<1>5. row \in TokenRow /\ row.status = "active" /\ row.sid = s /\ row.user = tok[t].user
      /\ row.exp = at + Ttl /\ row.prev = t
  BY <1>3, <1>4 DEF TokenRow
<1>6. old \in TokenRow /\ old.status = "rotated" /\ old.sid = s /\ old.user = tok[t].user
      /\ old.exp = tok[t].exp /\ old.next = n /\ old.prev = tok[t].prev
  <2>1. tok[t] \in TokenRow
    BY DEF RowsOK, TypeOK
  <2> QED BY <2>1 DEF TokenRow
<1>7. tok' = [tok EXCEPT ![t] = old, ![n] = row]
  BY <1>2, <1>3 DEF RowsOK, TypeOK
<1> HIDE DEF row, old, new
<1>8. /\ tok' \in [TokenId -> TokenRow] /\ tok'[t] = old /\ tok'[n] = row
      /\ \A x \in TokenId : x \notin {t, n} => tok'[x] = tok[x]
  BY <1>3, <1>5, <1>6, <1>7 DEF RowsOK, TypeOK
<1>9. TypeOK'
  BY <1>1, <1>8 DEF RowsOK, TypeOK
<1>10. OfItsSession'
  BY <1>1, <1>3, <1>4, <1>5, <1>6, <1>8 DEF RowsOK, OfItsSession
<1>11. OneActive'
  BY <1>1, <1>5, <1>6, <1>8 DEF RowsOK, OneActive
<1>12. ExchangedOnce'
  <2> SUFFICES ASSUME NEW x \in TokenId, tok'[x].prev # None
               PROVE  /\ tok'[x].prev \in TokenId
                      /\ tok'[tok'[x].prev].status = "rotated"
                      /\ tok'[tok'[x].prev].next = x
                      /\ tok'[tok'[x].prev].sid = tok'[x].sid
                      /\ tok'[tok'[x].prev].user = tok'[x].user
    BY DEF ExchangedOnce
  <2>1. CASE x = n
    BY <1>5, <1>6, <1>8, <2>1
  <2>2. CASE x # n
    <3>1. /\ tok'[x].prev = tok[x].prev /\ tok'[x].sid = tok[x].sid
          /\ tok'[x].user = tok[x].user
      BY <1>6, <1>8, <2>2
    <3>2. PICK p \in TokenId : /\ p = tok[x].prev
                               /\ tok[p].status = "rotated" /\ tok[p].next = x
                               /\ tok[p].sid = tok[x].sid /\ tok[p].user = tok[x].user
      BY <3>1 DEF RowsOK, ExchangedOnce
    <3>3. tok'[p] = tok[p]
      BY <1>1, <1>2, <1>8, <3>2
    <3> QED BY <3>1, <3>2, <3>3
  <2> QED BY <2>1, <2>2
<1> QED BY <1>9, <1>10, <1>11, <1>12 DEF RowsOK

\* Sessions end together with at least their own active tokens.
LEMMA EndKeeps ==
  ASSUME GoodConstants, RowsOK, NEW S \in SUBSET SessionId, NEW T \in SUBSET TokenId,
         NEW how \in {"expired", "compromised", "revoked"}, End(S, T, how),
         \A s \in S : sess[s].status = "active",
         \A t \in T : tok[t].status = "active",
         ActiveIn(S) \subseteq T
  PROVE  RowsOK'
<1>1. ASSUME NEW s \in SessionId
      PROVE  /\ sess'[s] \in SessionRow
             /\ sess'[s].user = sess[s].user /\ sess'[s].exp = sess[s].exp
             /\ s \in S => sess'[s].status = how
             /\ s \notin S => sess'[s] = sess[s]
  <2>1. sess[s] \in SessionRow
    BY DEF RowsOK, TypeOK
  <2> QED BY <2>1 DEF End, SessionRow
<1>2. ASSUME NEW t \in TokenId
      PROVE  /\ tok'[t] \in TokenRow
             /\ tok'[t].sid = tok[t].sid /\ tok'[t].user = tok[t].user
             /\ tok'[t].exp = tok[t].exp /\ tok'[t].next = tok[t].next
             /\ tok'[t].prev = tok[t].prev
             /\ t \in T => tok'[t].status \in {"expired", "revoked"}
             /\ t \notin T => tok'[t] = tok[t]
  <2>1. tok[t] \in TokenRow
    BY DEF RowsOK, TypeOK
  <2> QED BY <2>1 DEF End, TokenRow
<1>3. TypeOK'
  <2>1. now' = now /\ sess' = [s \in SessionId |-> sess'[s]] /\ tok' = [t \in TokenId |-> tok'[t]]
    BY DEF End
  <2> QED BY <1>1, <1>2, <2>1 DEF RowsOK, TypeOK
<1>4. OfItsSession'
  BY <1>1, <1>2 DEF RowsOK, OfItsSession
<1>5. OneActive'
  <2>1. \A t \in TokenId : tok'[t].status = "active" => t \notin T /\ tok[t].status = "active"
    BY <1>2
  <2>2. ASSUME NEW t \in TokenId, tok'[t].status = "active"
        PROVE  sess'[tok'[t].sid].status = "active"
    <3>1. tok[t].sid \notin S
      BY <2>1, <2>2 DEF ActiveIn
    <3>2. tok[t].sid \in SessionId /\ sess[tok[t].sid].status = "active"
      BY <2>1, <2>2 DEF RowsOK, OfItsSession, OneActive
    <3> QED BY <1>1, <1>2, <3>1, <3>2
  <2> QED BY <1>2, <2>1, <2>2 DEF RowsOK, OneActive
<1>6. ExchangedOnce'
  <2> SUFFICES ASSUME NEW x \in TokenId, tok'[x].prev # None
               PROVE  /\ tok'[x].prev \in TokenId
                      /\ tok'[tok'[x].prev].status = "rotated"
                      /\ tok'[tok'[x].prev].next = x
                      /\ tok'[tok'[x].prev].sid = tok'[x].sid
                      /\ tok'[tok'[x].prev].user = tok'[x].user
    BY DEF ExchangedOnce
  <2>1. PICK p \in TokenId : /\ p = tok[x].prev
                             /\ tok[p].status = "rotated" /\ tok[p].next = x
                             /\ tok[p].sid = tok[x].sid /\ tok[p].user = tok[x].user
    BY <1>2 DEF RowsOK, ExchangedOnce
  <2>2. tok'[p] = tok[p]
    BY <1>2, <2>1
  <2> QED BY <1>2, <2>1, <2>2
<1> QED BY <1>3, <1>4, <1>5, <1>6 DEF RowsOK

LEMMA RowsStep == GoodConstants /\ RowsOK /\ [Next]_vars => RowsOK'
<1> SUFFICES ASSUME GoodConstants, RowsOK, [Next]_vars PROVE RowsOK'
    OBVIOUS
<1>1. ASSUME NEW u \in User, Create(u) PROVE RowsOK'
  BY <1>1, CreateKeeps
<1>2. ASSUME NEW u \in User, RevokeAll(u) PROVE RowsOK'
  <2>1. PICK S \in SUBSET LiveOf(u), T \in SUBSET ActiveOf(u) :
          ActiveIn(S) \subseteq T /\ End(S, T, "revoked")
    BY <1>2 DEF RevokeAll
  <2> QED BY <2>1, EndKeeps DEF LiveOf, ActiveOf
<1>3. ASSUME NEW t \in TokenId, Exchange(t) PROVE RowsOK'
  BY <1>3, ExchangeKeeps
<1>4. ASSUME NEW s \in SessionId, Expire(s) \/ Compromise(s) \/ Logout(s) PROVE RowsOK'
  <2>1. PICK how \in {"expired", "compromised", "revoked"} :
          sess[s].status = "active" /\ End({s}, ActiveIn({s}), how)
    BY <1>4 DEF Expire, Compromise, Logout
  <2>2. /\ {s} \in SUBSET SessionId /\ \A x \in {s} : sess[x].status = "active"
        /\ ActiveIn({s}) \in SUBSET TokenId /\ \A t \in ActiveIn({s}) : tok[t].status = "active"
    BY <2>1 DEF ActiveIn
  <2> QED BY <2>1, <2>2, EndKeeps
<1>5. ASSUME now' \in Nat, UNCHANGED <<sess, tok>> PROVE RowsOK'
  BY <1>5 DEF RowsOK, TypeOK, OfItsSession, OneActive, ExchangedOnce
<1>6. Tick \/ UNCHANGED vars => now' \in Nat /\ UNCHANGED <<sess, tok>>
  BY DEF Tick, vars, RowsOK, TypeOK
<1> QED BY <1>1, <1>2, <1>3, <1>4, <1>5, <1>6 DEF Next

\* Whatever operations of the contract follow each other, every token agrees
\* with its session, is exchanged once at most, and can be only while its
\* session is active and only if it is the session's current one.
THEOREM ContractSafe == ASSUME GoodConstants PROVE Spec => []RowsOK
BY RowsInit, RowsStep, PTL DEF Spec

\* Rows that have reached their end in this state are as they were.
EndsKept == /\ \A s \in SessionId :
                 sess[s].status \notin {"none", "active"} => sess'[s] = sess[s]
            /\ \A t \in TokenId :
                 tok[t].status \notin {"none", "active"} => tok'[t] = tok[t]

LEMMA EndsStep == RowsOK /\ [Next]_vars => EndsKept
<1> SUFFICES ASSUME RowsOK, [Next]_vars PROVE EndsKept
    OBVIOUS
<1> USE DEF RowsOK, TypeOK
<1>1. ASSUME NEW u \in User, Create(u) PROVE EndsKept
  BY <1>1 DEF Create, EndsKept
<1>2. ASSUME NEW S, NEW T, NEW how, End(S, T, how),
             \A s \in SessionId \cap S : sess[s].status = "active",
             \A t \in TokenId \cap T : tok[t].status = "active"
      PROVE  EndsKept
  BY <1>2 DEF End, EndsKept
<1>3. ASSUME NEW u \in User, RevokeAll(u) PROVE EndsKept
  BY <1>2, <1>3 DEF RevokeAll, LiveOf, ActiveOf
<1>4. ASSUME NEW t \in TokenId, Exchange(t) PROVE EndsKept
  <2> DEFINE row(n, at) == [status |-> "active", sid |-> tok[t].sid, user |-> tok[t].user,
                            exp |-> at + Ttl, next |-> None, prev |-> t]
  <2>1. PICK n \in TokenId, at \in 0..now :
          /\ tok[n].status = "none"
          /\ tok' = [tok EXCEPT ![t].status = "rotated", ![t].next = n, ![n] = row(n, at)]
    BY <1>4 DEF Exchange
  <2> HIDE DEF row
  <2>2. \A x \in TokenId : x \notin {t, n} => tok'[x] = tok[x]
    BY <2>1
  <2> QED BY <1>4, <2>1, <2>2 DEF Exchange, EndsKept
<1>5. ASSUME NEW s \in SessionId, Expire(s) \/ Compromise(s) \/ Logout(s) PROVE EndsKept
  <2>1. PICK how : sess[s].status = "active" /\ End({s}, ActiveIn({s}), how)
    BY <1>5 DEF Expire, Compromise, Logout
  <2>2. \A t \in ActiveIn({s}) : tok[t].status = "active"
    BY DEF ActiveIn
  <2> QED BY <1>2, <2>1, <2>2
<1>6. CASE Tick \/ UNCHANGED vars
  BY <1>6 DEF Tick, vars, EndsKept
<1> QED BY <1>1, <1>3, <1>4, <1>5, <1>6 DEF Next

\* What has ended stays as it is, in every behaviour the contract allows.
THEOREM ContractEndsFinal == ASSUME GoodConstants PROVE Spec => [][EndsKept]_vars
BY ContractSafe, EndsStep, PTL DEF Spec
=============================================================================
