-------------------------- MODULE EmailOutboxProofs --------------------------
(***************************************************************************)
(* The safety of the outbox for every number of messages, replicas,        *)
(* attempts and tries, and every lease and batch size.                     *)
(***************************************************************************)
EXTENDS EmailOutbox, FiniteSetTheorems, TLAPS

Busy == {"sending", "accepted", "refused"}

\* A batch has one claim per row, and the message that is being sent has left it.
WellHeld(w) ==
  /\ worker[w].cur # NoClaim <=> worker[w].pc \in Busy
  /\ \A c, d \in worker[w].batch : c.id = d.id => c = d
  /\ \A c \in worker[w].batch : worker[w].cur # NoClaim => c.id # worker[w].cur.id
  /\ worker[w].pc = "sending" => worker[w].tries < SendTries
  /\ worker[w].pc = "accepted" => copies[worker[w].cur.id] > 0

\* An open claim is the next attempt at a row that is not settled; a claim that
\* is committed is an attempt that the row has counted.
Numbered(w) ==
  IF worker[w].pc = "claiming"
  THEN \A c \in worker[w].batch :
         c.n = msg[c.id].attempts + 1 /\ msg[c.id].status \notin {"none", "delivered"}
  ELSE \A c \in Holding(w) : c.n <= msg[c.id].attempts

Slot(m) == (1..msg[m].attempts) \X (1..SendTries)

\* The copies of m are pairs of an attempt and a try in it, none of them still ahead.
Paired(m, D) ==
  /\ D \in SUBSET Slot(m)
  /\ Cardinality(D) = copies[m]
  /\ \A w \in Worker, k \in 1..SendTries :
       /\ \A c \in worker[w].batch : c.id = m => <<c.n, k>> \notin D
       /\ worker[w].pc = "sending" /\ worker[w].cur.id = m /\ <<worker[w].cur.n, k>> \in D
            => k <= worker[w].tries

\* A row that is not there has counted no attempt.
Unqueued == \A m \in Message : msg[m].status = "none" => msg[m].attempts = 0

IInv ==
  /\ TypeOK
  /\ Unqueued
  /\ \A w \in Worker : WellHeld(w) /\ Numbered(w)
  /\ AttemptsExclusive
  /\ DeliveredWasAccepted
  /\ \A m \in Message : \E D : Paired(m, D)

-----------------------------------------------------------------------------
LEMMA SlotsFinite ==
  ASSUME NEW a \in Nat, NEW D \in SUBSET ((1..a) \X (1..SendTries))
  PROVE  IsFiniteSet(D) /\ Cardinality(D) \in Nat /\ Cardinality(D) <= a * SendTries
<1>1. SendTries \in Nat  BY OutboxAssumption
<1>2. IsFiniteSet(1..a) /\ Cardinality(1..a) = a  BY FS_Interval
<1>3. IsFiniteSet(1..SendTries) /\ Cardinality(1..SendTries) = SendTries  BY <1>1, FS_Interval
<1>4. /\ IsFiniteSet((1..a) \X (1..SendTries))
      /\ Cardinality((1..a) \X (1..SendTries)) = a * SendTries
  BY <1>2, <1>3, FS_Product
<1>. QED BY <1>4, FS_Subset, FS_CardinalityType

LEMMA InitHolds == Init => IInv
<1> SUFFICES ASSUME Init PROVE IInv  OBVIOUS
<1> USE OutboxAssumption DEF Init
<1>1. IsFiniteSet({}) /\ Cardinality({}) = 0  BY FS_EmptySet
<1>2. Cardinality(Message) \in Nat  BY FS_CardinalityType
<1>3. TypeOK
  <2>1. NoRow \in MessageRow
    <3>1. LongestWait \in Nat  BY BackoffAssumption DEF LongestWait
    <3>. QED BY <1>2, <3>1 DEF NoRow, MessageRow, MessageStatus
  <2>2. Waiting \in WorkerState  BY DEF Waiting, WorkerState
  <2>. QED BY <2>1, <2>2 DEF TypeOK
<1>4. \A w \in Worker : WellHeld(w) /\ Numbered(w)
  BY DEF WellHeld, Numbered, Waiting, Busy, Holding
<1>5. AttemptsExclusive /\ Unqueued  BY DEF AttemptsExclusive, Holding, Waiting, Unqueued, NoRow
<1>6. DeliveredWasAccepted  BY DEF DeliveredWasAccepted, NoRow
<1>7. \A m \in Message : Paired(m, {})
  BY <1>1 DEF Paired, Waiting
<1>. QED BY <1>3, <1>4, <1>5, <1>6, <1>7 DEF IInv

-----------------------------------------------------------------------------
(* The fields of a state in its type, as the steps below use them.         *)

LEMMA Typed ==
  ASSUME TypeOK
  PROVE  /\ DOMAIN msg = Message /\ DOMAIN worker = Worker /\ DOMAIN copies = Message
         /\ \A m \in Message : /\ msg[m] \in MessageRow /\ copies[m] \in Nat
                               /\ msg[m].attempts \in 0..MaxAttempts
         /\ \A w \in Worker : /\ worker[w] \in WorkerState
                              /\ worker[w].batch \subseteq Claim
                              /\ worker[w].cur \in Claim \cup {NoClaim}
                              /\ worker[w].tries \in Nat
         /\ \A w \in Worker : \A c \in Holding(w) : c \in Claim /\ c.id \in Message /\ c.n \in 1..MaxAttempts
<1>1. MaxAttempts \in Nat /\ SendTries \in Nat /\ MaxAttempts * SendTries \in Nat
  BY OutboxAssumption
<1>. QED BY <1>1 DEF TypeOK, MessageRow, WorkerState, Holding, Claim

\* A step that changes one worker only, and gives it no claim it did not hold.
LEMMA OneWorkerSteps ==
  ASSUME IInv, NEW w \in Worker, NEW ws \in WorkerState,
         worker' = [worker EXCEPT ![w] = ws], UNCHANGED <<msg, copies>>,
         faults' \in 0..MaxFaults,
         worker[w].pc # "claiming" \/ ws = Waiting, ws.pc # "claiming",
         ws.pc = "sending" => /\ worker[w].pc = "sending" /\ ws.cur = worker[w].cur
                              /\ worker[w].tries <= ws.tries /\ ws.tries < SendTries,
         ws.batch \subseteq worker[w].batch,
         ws.cur \in {worker[w].cur, NoClaim},
         ws.cur # NoClaim <=> ws.pc \in Busy,
         ws.pc = "accepted" => copies[ws.cur.id] > 0
  PROVE  IInv'
<1>. USE DEF IInv
<1>1. TypeOK'  BY DEF TypeOK
<1>2. \A v \in Worker : worker'[v] = IF v = w THEN ws ELSE worker[v]
  BY DEF TypeOK
<1>3. \A v \in Worker : Holding(v)' \subseteq Holding(v)
  BY <1>2 DEF Holding
<1>4. ASSUME NEW v \in Worker  PROVE WellHeld(v)' /\ Numbered(v)'
  <2>1. CASE v = w
    <3>1. WellHeld(w)'  BY <1>2 DEF WellHeld, Busy
    <3>2. Numbered(w)'  BY <1>2, <1>3 DEF Numbered, Holding, Waiting
    <3>. QED BY <2>1, <3>1, <3>2
  <2>2. CASE v # w  BY <1>2, <2>2 DEF WellHeld, Numbered, Holding
  <2>. QED BY <2>1, <2>2
<1>5. AttemptsExclusive' /\ Unqueued'  BY <1>3 DEF AttemptsExclusive, Unqueued
<1>6. DeliveredWasAccepted'  BY DEF DeliveredWasAccepted
<1>7. ASSUME NEW m \in Message  PROVE \E D : Paired(m, D)'
  <2>1. PICK D : Paired(m, D)  OBVIOUS
  <2>2. ASSUME NEW v \in Worker, NEW k \in 1..SendTries
        PROVE  /\ \A c \in worker'[v].batch : c.id = m => <<c.n, k>> \notin D
               /\ worker'[v].pc = "sending" /\ worker'[v].cur.id = m /\ <<worker'[v].cur.n, k>> \in D
                    => k <= worker'[v].tries
    <3>1. CASE v = w
      <4>1. worker[w].tries \in Nat /\ ws.tries \in Nat  BY Typed, OutboxAssumption DEF WorkerState
      <4>2. \A c \in ws.batch : c.id = m => <<c.n, k>> \notin D
        BY <2>1 DEF Paired
      <4>3. ASSUME ws.pc = "sending", ws.cur.id = m, <<ws.cur.n, k>> \in D
            PROVE  k <= ws.tries
        <5>1. k <= worker[w].tries  BY <2>1, <4>3 DEF Paired
        <5>. QED BY <4>1, <4>3, <5>1, OutboxAssumption
      <4>. QED BY <1>2, <3>1, <4>2, <4>3
    <3>2. CASE v # w  BY <1>2, <2>1, <3>2 DEF Paired
    <3>. QED BY <3>1, <3>2
  <2>3. Slot(m)' = Slot(m)  BY DEF Slot
  <2>4. Paired(m, D)'  BY <2>1, <2>2, <2>3 DEF Paired
  <2>. QED BY <2>4
<1>. QED BY <1>1, <1>4, <1>5, <1>6, <1>7


LEMMA StopHolds ==
  ASSUME IInv, NEW w \in Worker, FinishBatch(w) \/ LoseFailedUpdate(w) \/ Crash(w)
  PROVE  IInv'
<1>1. Waiting \in WorkerState  BY OutboxAssumption DEF Waiting, WorkerState
<1>2. /\ worker' = [worker EXCEPT ![w] = Waiting] /\ UNCHANGED <<msg, copies>>
      /\ faults' \in 0..MaxFaults
  BY OutboxAssumption DEF FinishBatch, LoseFailedUpdate, Crash, Fault, IInv, TypeOK
<1>. QED BY <1>1, <1>2, OneWorkerSteps DEF Waiting, Busy

LEMMA RefusedHolds ==
  ASSUME IInv, NEW w \in Worker, Reject(w) \/ LoseDeliveredUpdate(w)
  PROVE  IInv'
<1> DEFINE ws == [worker[w] EXCEPT !.pc = "refused"]
<1>1. worker[w] \in WorkerState /\ worker[w].cur # NoClaim /\ worker[w].pc # "claiming"
  BY Typed DEF IInv, WellHeld, Busy, Reject, LoseDeliveredUpdate
<1>2. ws \in WorkerState /\ ws.batch = worker[w].batch /\ ws.cur = worker[w].cur /\ ws.pc = "refused"
  BY <1>1 DEF WorkerState
<1>3. /\ worker' = [worker EXCEPT ![w] = ws] /\ UNCHANGED <<msg, copies>>
      /\ faults' \in 0..MaxFaults
  BY OutboxAssumption DEF Reject, LoseDeliveredUpdate, Fault, IInv, TypeOK
<1>. HIDE DEF ws
<1>. QED BY <1>1, <1>2, <1>3, OneWorkerSteps DEF Busy

\* The worker after a try that failed.
AfterRetry(w) == [worker[w] EXCEPT !.tries = @ + 1,
                   !.pc = IF worker[w].tries + 1 = SendTries THEN "refused" ELSE "sending"]

LEMMA RetryState ==
  ASSUME IInv, NEW w \in Worker, worker[w].pc = "sending", Retry(w)
  PROVE  /\ AfterRetry(w) \in WorkerState
         /\ worker' = [worker EXCEPT ![w] = AfterRetry(w)]
         /\ AfterRetry(w).batch = worker[w].batch /\ AfterRetry(w).cur = worker[w].cur
         /\ AfterRetry(w).tries = worker[w].tries + 1 /\ worker[w].tries \in 0..(SendTries - 1)
         /\ AfterRetry(w).pc = IF worker[w].tries + 1 = SendTries THEN "refused" ELSE "sending"
         /\ worker[w].cur \in Claim /\ worker[w].cur # NoClaim
<1>1. worker[w] \in WorkerState /\ worker[w].tries < SendTries /\ worker[w].cur # NoClaim
  BY Typed DEF IInv, WellHeld, Busy
<1>2. SendTries \in Nat \ {0}  BY OutboxAssumption
<1>3. worker[w].tries \in 0..SendTries /\ worker[w].tries + 1 \in 0..SendTries
  BY <1>1, <1>2 DEF WorkerState
<1>4. worker' = [worker EXCEPT ![w] = AfterRetry(w)]
  BY <1>1 DEF AfterRetry, Retry, WorkerState, IInv, TypeOK
<1>5. worker[w].cur \in Claim  BY <1>1 DEF WorkerState
<1>6. worker[w].tries \in 0..(SendTries - 1)  BY <1>1, <1>2, <1>3
<1>7. /\ AfterRetry(w) \in WorkerState
      /\ AfterRetry(w).batch = worker[w].batch /\ AfterRetry(w).cur = worker[w].cur
      /\ AfterRetry(w).tries = worker[w].tries + 1
      /\ AfterRetry(w).pc = IF worker[w].tries + 1 = SendTries THEN "refused" ELSE "sending"
  BY <1>1, <1>3 DEF AfterRetry, WorkerState
<1>. QED BY <1>1, <1>4, <1>5, <1>6, <1>7

LEMMA UnavailableHolds ==
  ASSUME IInv, NEW w \in Worker, Unavailable(w)
  PROVE  IInv'
<1>1. worker[w].pc = "sending" /\ Retry(w) /\ UNCHANGED <<msg, copies, faults>>
  BY DEF Unavailable
<1>2. faults' \in 0..MaxFaults  BY <1>1 DEF IInv, TypeOK
<1>3. worker[w].tries <= AfterRetry(w).tries
      /\ (AfterRetry(w).pc = "sending" => AfterRetry(w).tries < SendTries)
  BY <1>1, RetryState, OutboxAssumption
<1>. QED BY <1>1, <1>2, <1>3, RetryState, OneWorkerSteps DEF Busy

-----------------------------------------------------------------------------
(* Claiming.                                                               *)

\* Nobody holds a claim of a row that is not queued.
LEMMA EnqueueHolds ==
  ASSUME IInv, NEW m \in Message, Enqueue(m)
  PROVE  IInv'
<1>. USE DEF IInv
<1> DEFINE row == [msg[m] EXCEPT !.status = "pending",
               !.rank = 1 + Cardinality({x \in Message : msg[x].status # "none"})]
<1>1. /\ msg[m].status = "none" /\ msg' = [msg EXCEPT ![m].status = "pending",
               ![m].rank = 1 + Cardinality({x \in Message : msg[x].status # "none"})]
      /\ UNCHANGED <<worker, copies, faults>>
  BY DEF Enqueue
<1>2. row \in MessageRow
  <2> DEFINE Q == {x \in Message : msg[x].status # "none"}
  <2>1. IsFiniteSet(Message) /\ Q \in SUBSET Message /\ Q # Message
    BY <1>1, OutboxAssumption
  <2>2. Cardinality(Q) \in Nat /\ Cardinality(Message) \in Nat /\ Cardinality(Q) < Cardinality(Message)
    <3>1. IsFiniteSet(Q) /\ Cardinality(Q) <= Cardinality(Message)
          /\ (Cardinality(Message) = Cardinality(Q) => Message = Q)
      BY <2>1, FS_Subset
    <3>2. Cardinality(Q) \in Nat /\ Cardinality(Message) \in Nat
      BY <2>1, <3>1, FS_CardinalityType
    <3>. QED BY <2>1, <3>1, <3>2
  <2>3. LongestWait \in Nat /\ MaxAttempts \in Nat /\ Lease \in Nat
    BY BackoffAssumption, OutboxAssumption DEF LongestWait
  <2>4. 1 + Cardinality(Q) \in 0..Cardinality(Message) /\ msg[m] \in MessageRow
    BY <2>2, Typed
  <2>. HIDE DEF Q
  <2>5. [msg[m] EXCEPT !.status = "pending", !.rank = 1 + Cardinality(Q)] \in MessageRow
    BY <2>4 DEF MessageRow, MessageStatus
  <2>. QED BY <2>5 DEF Q
<1>3. /\ row.attempts = 0 /\ row.status = "pending"
      /\ msg' = [msg EXCEPT ![m] = row]
      /\ \A x \in Message : msg'[x] = IF x = m THEN row ELSE msg[x]
  BY <1>1, Typed DEF Unqueued, TypeOK, MessageRow
<1>. HIDE DEF row
<1>4. TypeOK'  BY <1>1, <1>2, <1>3 DEF TypeOK
<1>5. \A w \in Worker : \A c \in Holding(w) : c.id # m
  <2>1. ASSUME NEW w \in Worker, NEW c \in Holding(w), c.id = m  PROVE FALSE
    <3>1. c.n >= 1 /\ msg[m].attempts = 0
      BY <1>1, <2>1, Typed DEF Unqueued
    <3>2. CASE worker[w].pc = "claiming"
      <4>1. c \in worker[w].batch  BY <3>2 DEF Holding, WellHeld, Busy
      <4>. QED BY <1>1, <2>1, <3>2, <4>1 DEF Numbered
    <3>3. CASE worker[w].pc # "claiming"
      BY <2>1, <3>1, <3>3, Typed DEF Numbered
    <3>. QED BY <3>2, <3>3
  <2>. QED BY <2>1
<1>6. ASSUME NEW w \in Worker  PROVE WellHeld(w)' /\ Numbered(w)'
  <2>1. WellHeld(w)'  BY <1>1 DEF WellHeld
  <2>2. worker' = worker /\ Holding(w)' = Holding(w)  BY <1>1 DEF Holding
  <2>3. \A c \in Holding(w) : msg'[c.id] = msg[c.id]  BY <1>3, <1>5, Typed
  <2>4. worker[w].batch \subseteq Holding(w)  BY DEF Holding
  <2>5. Numbered(w)'  BY <2>2, <2>3, <2>4 DEF Numbered
  <2>. QED BY <2>1, <2>5
<1>7. AttemptsExclusive'  BY <1>1 DEF AttemptsExclusive, Holding
<1>8. DeliveredWasAccepted' /\ Unqueued'
  BY <1>1, <1>3 DEF DeliveredWasAccepted, Unqueued
<1>9. ASSUME NEW x \in Message  PROVE \E D : Paired(x, D)'
  <2>1. PICK D : Paired(x, D)  OBVIOUS
  <2>2. Slot(x)' = Slot(x)  BY <1>1, <1>3 DEF Slot, Unqueued
  <2>3. Paired(x, D)'  BY <1>1, <2>1, <2>2 DEF Paired
  <2>. QED BY <2>3
<1>. QED BY <1>4, <1>6, <1>7, <1>8, <1>9

\* The statement of a poll locks rows that no other open claim has locked.
LEMMA PollHolds ==
  ASSUME IInv, NEW w \in Worker, Poll(w)
  PROVE  IInv'
<1>. USE DEF IInv
<1>1. PICK b \in Batches :
        worker' = [worker EXCEPT ![w].pc = "claiming",
          ![w].batch = {[id |-> m, n |-> msg[m].attempts + 1, lease |-> Lease] : m \in b}]
  BY DEF Poll
<1> DEFINE new == {[id |-> m, n |-> msg[m].attempts + 1, lease |-> Lease] : m \in b}
           ws == [worker[w] EXCEPT !.pc = "claiming", !.batch = new]
<1>2. worker[w].pc = "idle" /\ UNCHANGED <<msg, copies, faults>>  BY DEF Poll
<1>3. \A m \in b : m \in Message /\ Claimable(m)  BY DEF Batches
<1>4. \A c \in new : /\ c \in Claim /\ c.id \in b /\ c.n = msg[c.id].attempts + 1
                     /\ \A d \in new : c.id = d.id => c = d
  <2>1. ASSUME NEW m \in b
        PROVE  msg[m].attempts + 1 \in 1..MaxAttempts /\ Lease \in 0..Lease /\ m \in Message
    BY <1>3, OutboxAssumption, Typed DEF Claimable
  <2>. QED BY <2>1 DEF Claim
<1>5. worker[w] \in WorkerState /\ worker[w].cur = NoClaim
  BY <1>2, Typed DEF WellHeld, Busy
<1>6. /\ ws \in WorkerState /\ ws.pc = "claiming" /\ ws.batch = new /\ ws.cur = NoClaim
      /\ \A v \in Worker : worker'[v] = IF v = w THEN ws ELSE worker[v]
  <2>. HIDE DEF new
  <2>1. new \in SUBSET Claim  BY <1>4
  <2>. QED BY <1>1, <1>5, <2>1 DEF WorkerState, TypeOK, new
<1>. HIDE DEF new, ws
<1>7. TypeOK'
  <2>1. worker' \in [Worker -> WorkerState]  BY <1>1, <1>6 DEF TypeOK
  <2>. QED BY <1>2, <2>1 DEF TypeOK
<1>8. ASSUME NEW v \in Worker  PROVE WellHeld(v)' /\ Numbered(v)'
  <2>1. CASE v = w
    BY <1>2, <1>3, <1>4, <1>6, <2>1 DEF WellHeld, Numbered, Busy, Claimable
  <2>2. CASE v # w  BY <1>2, <1>6, <2>2 DEF WellHeld, Numbered, Holding
  <2>. QED BY <2>1, <2>2
<1>9. \A v \in Worker : Holding(v)' = IF v = w THEN new ELSE Holding(v)
  BY <1>6 DEF Holding
\* The new claims are beyond every other claim of the same row.
<1>10. ASSUME NEW v \in Worker, v # w, NEW c \in Holding(v), NEW d \in new, c.id = d.id
       PROVE  c.n # d.n
  <2>1. worker[v].pc # "claiming"
    <3>1. SUFFICES ASSUME worker[v].pc = "claiming" PROVE FALSE  OBVIOUS
    <3>2. c \in worker[v].batch  BY <3>1 DEF Holding, WellHeld, Busy
    <3>. QED BY <1>3, <1>4, <1>10, <3>1, <3>2 DEF Claimable, Locked
  <2>2. c.n <= msg[c.id].attempts  BY <2>1 DEF Numbered
  <2>3. d.n = msg[c.id].attempts + 1  BY <1>4, <1>10
  <2>4. msg[c.id].attempts \in Nat /\ c.n \in Nat  BY Typed, OutboxAssumption
  <2>. QED BY <2>2, <2>3, <2>4
<1>11. AttemptsExclusive'  BY <1>9, <1>10 DEF AttemptsExclusive
<1>12. DeliveredWasAccepted' /\ Unqueued'  BY <1>2 DEF DeliveredWasAccepted, Unqueued
<1>13. ASSUME NEW m \in Message  PROVE \E D : Paired(m, D)'
  <2>1. PICK D : Paired(m, D)  OBVIOUS
  <2>2. Slot(m)' = Slot(m)  BY <1>2 DEF Slot
  <2>3. ASSUME NEW c \in new, c.id = m, NEW k \in 1..SendTries  PROVE <<c.n, k>> \notin D
    <3>1. c.n = msg[m].attempts + 1 /\ msg[m].attempts \in Nat
      BY <1>4, <2>3, Typed, OutboxAssumption
    <3>. QED BY <2>1, <3>1 DEF Paired, Slot
  <2>4. ASSUME NEW v \in Worker, NEW k \in 1..SendTries
        PROVE  /\ \A c \in worker'[v].batch : c.id = m => <<c.n, k>> \notin D
               /\ worker'[v].pc = "sending" /\ worker'[v].cur.id = m /\ <<worker'[v].cur.n, k>> \in D
                    => k <= worker'[v].tries
    <3>1. CASE v = w  BY <1>6, <2>3, <3>1
    <3>2. CASE v # w  BY <1>6, <2>1, <3>2 DEF Paired
    <3>. QED BY <3>1, <3>2
  <2>5. Paired(m, D)'  BY <1>2, <2>1, <2>2, <2>4 DEF Paired
  <2>. QED BY <2>5
<1>. QED BY <1>7, <1>8, <1>11, <1>12, <1>13

\* The claims of an open batch are counted by their rows.
LEMMA CommitClaimHolds ==
  ASSUME IInv, NEW w \in Worker, CommitClaim(w)
  PROVE  IInv'
<1>. USE DEF IInv
<1> DEFINE B == worker[w].batch
<1>1. /\ worker[w].pc = "claiming" /\ worker[w].cur = NoClaim /\ B \subseteq Claim
      /\ worker' = [worker EXCEPT ![w].pc = "next"] /\ UNCHANGED <<copies, faults>>
      /\ worker[w] \in WorkerState
  BY Typed DEF CommitClaim, WellHeld, Busy
<1>2. ASSUME NEW c \in B
      PROVE  /\ msg'[c.id] = [msg[c.id] EXCEPT !.status = "processing", !.attempts = c.n, !.lease = c.lease]
             /\ c.n = msg[c.id].attempts + 1 /\ c.id \in Message
  <2>1. c.id \in Message /\ c \in Claim  BY <1>1 DEF Claim
  <2>2. \A d \in B : d.id = c.id => d = c  BY DEF WellHeld
  <2>3. (CHOOSE d \in B : d.id = c.id) = c  BY <2>2
  <2>. QED BY <1>1, <2>1, <2>3 DEF CommitClaim, Numbered
<1>2a. \A c \in B : /\ c \in Claim /\ c.id \in Message /\ c.n \in 1..MaxAttempts /\ c.lease \in 0..Lease
                     /\ c.n = msg[c.id].attempts + 1
  BY <1>1, <1>2 DEF Claim
<1>3. \A m \in Message : (\A c \in B : c.id # m) => msg'[m] = msg[m]
  BY DEF CommitClaim
<1>4. ASSUME NEW c \in B
      PROVE  msg'[c.id] \in MessageRow /\ msg'[c.id].attempts = c.n /\ msg'[c.id].status = "processing"
  <2>1. msg[c.id] \in MessageRow /\ c.n \in 0..MaxAttempts /\ c.lease \in 0..Lease
    BY <1>2a, Typed, OutboxAssumption
  <2>. QED BY <1>2, <2>1 DEF MessageRow, MessageStatus
<1>5. TypeOK'
  <2>1. \A m \in Message : msg'[m] \in MessageRow  BY <1>3, <1>4, Typed
  <2>2. msg' \in [Message -> MessageRow]  BY <2>1 DEF CommitClaim
  <2>3. worker' \in [Worker -> WorkerState]  BY <1>1 DEF TypeOK, WorkerState
  <2>. QED BY <1>1, <2>2, <2>3 DEF TypeOK
<1>6. /\ \A v \in Worker : v # w => worker'[v] = worker[v]
      /\ worker'[w].pc = "next" /\ worker'[w].batch = B /\ worker'[w].cur = NoClaim
  BY <1>1 DEF TypeOK, WorkerState
<1>7. \A v \in Worker : Holding(v)' = Holding(v)
  BY <1>1, <1>6 DEF Holding
<1>8. \A m \in Message : msg'[m].attempts >= msg[m].attempts
  <2>1. ASSUME NEW m \in Message, NEW c \in B, c.id = m
        PROVE  msg'[m].attempts >= msg[m].attempts
    BY <1>2a, <1>4, <2>1, Typed, OutboxAssumption
  <2>2. ASSUME NEW m \in Message, \A c \in B : c.id # m
        PROVE  msg'[m].attempts >= msg[m].attempts
    BY <1>3, <2>2, Typed, OutboxAssumption
  <2>. QED BY <2>1, <2>2
<1>9. ASSUME NEW v \in Worker  PROVE WellHeld(v)' /\ Numbered(v)'
  <2>1. CASE v = w  BY <1>1, <1>4, <1>6, <1>7, <2>1 DEF WellHeld, Numbered, Holding, Busy
  <2>2. CASE v # w /\ worker[v].pc = "claiming"
    <3>1. ASSUME NEW c \in worker[v].batch, NEW d \in B, c.id = d.id  PROVE FALSE
      <4>1. c \in Holding(v) /\ d \in Holding(w)  BY DEF Holding
      <4>2. c.n = d.n  BY <1>2, <2>2, <3>1 DEF Numbered
      <4>. QED BY <2>2, <3>1, <4>1, <4>2 DEF AttemptsExclusive
    <3>2. \A c \in worker[v].batch : msg'[c.id] = msg[c.id]
      BY <1>3, <3>1, Typed DEF Holding
    <3>. QED BY <1>1, <1>6, <2>2, <3>2 DEF WellHeld, Numbered
  <2>3. CASE v # w /\ worker[v].pc # "claiming"
    <3>1. \A c \in Holding(v) : c.n <= msg'[c.id].attempts
      <4>1. ASSUME NEW c \in Holding(v)  PROVE c.n <= msg'[c.id].attempts
        <5>1. /\ c.n \in Nat /\ msg[c.id].attempts \in Nat /\ c.id \in Message
              /\ c.n <= msg[c.id].attempts /\ msg'[c.id].attempts \in Nat
          BY <1>5, <2>3, Typed, OutboxAssumption DEF Numbered, TypeOK, MessageRow
        <5>. QED BY <1>8, <5>1
      <4>. QED BY <4>1
    <3>. QED BY <1>1, <1>6, <1>7, <2>3, <3>1 DEF WellHeld, Numbered
  <2>. QED BY <2>1, <2>2, <2>3
<1>10. AttemptsExclusive'  BY <1>7 DEF AttemptsExclusive
<1>11. DeliveredWasAccepted' /\ Unqueued'
  BY <1>1, <1>3, <1>4 DEF DeliveredWasAccepted, Unqueued
<1>12. ASSUME NEW m \in Message  PROVE \E D : Paired(m, D)'
  <2>1. PICK D : Paired(m, D)  OBVIOUS
  <2>2. msg[m].attempts \in Nat /\ msg'[m].attempts \in Nat
    BY <1>5, Typed, OutboxAssumption DEF TypeOK, MessageRow
  <2>3. Slot(m) \subseteq Slot(m)'
    <3>1. 1..msg[m].attempts \subseteq 1..msg'[m].attempts  BY <1>8, <2>2
    <3>. QED BY <3>1 DEF Slot
  <2>4. ASSUME NEW v \in Worker, NEW k \in 1..SendTries
        PROVE  /\ \A c \in worker'[v].batch : c.id = m => <<c.n, k>> \notin D
               /\ worker'[v].pc = "sending" /\ worker'[v].cur.id = m /\ <<worker'[v].cur.n, k>> \in D
                    => k <= worker'[v].tries
    <3>1. CASE v = w  BY <1>6, <2>1, <3>1 DEF Paired
    <3>2. CASE v # w  BY <1>6, <2>1, <3>2 DEF Paired
    <3>. QED BY <3>1, <3>2
  <2>5. Paired(m, D)'  BY <1>1, <2>1, <2>3, <2>4 DEF Paired
  <2>. QED BY <2>5
<1>. QED BY <1>5, <1>9, <1>10, <1>11, <1>12

\* The worker goes on to a claim of its batch.
LEMMA TakeHolds ==
  ASSUME IInv, NEW w \in Worker, Take(w)
  PROVE  IInv'
<1>. USE DEF IInv
<1>1. PICK c \in worker[w].batch :
        worker' = [worker EXCEPT ![w].pc = "sending", ![w].cur = c,
                                 ![w].batch = @ \ {c}, ![w].tries = 0]
  BY DEF Take
<1>2. /\ worker[w].pc = "next" /\ worker[w].cur = NoClaim /\ UNCHANGED <<msg, copies, faults>>
      /\ worker[w] \in WorkerState /\ c \in Claim /\ c # NoClaim
  BY Typed, NoClaimAssumption DEF Take, WellHeld, Busy
<1>3. TypeOK'
  <2>1. worker' \in [Worker -> WorkerState]
    BY <1>1, <1>2, OutboxAssumption DEF TypeOK, WorkerState
  <2>. QED BY <1>2, <2>1 DEF TypeOK
<1>4. /\ \A v \in Worker : v # w => worker'[v] = worker[v]
      /\ worker'[w].pc = "sending" /\ worker'[w].cur = c /\ worker'[w].tries = 0
      /\ worker'[w].batch = worker[w].batch \ {c} /\ c \in worker[w].batch
  BY <1>1, <1>2 DEF TypeOK, WorkerState
<1>5. \A v \in Worker : Holding(v)' = Holding(v)
  <2>1. Holding(w)' = Holding(w)  BY <1>2, <1>4 DEF Holding
  <2>2. \A v \in Worker : v # w => Holding(v)' = Holding(v)  BY <1>4 DEF Holding
  <2>. QED BY <2>1, <2>2
<1>6. ASSUME NEW v \in Worker  PROVE WellHeld(v)' /\ Numbered(v)'
  <2>1. CASE v = w
    <3>1. WellHeld(w)'  BY <1>2, <1>4, OutboxAssumption DEF WellHeld, Busy
    <3>2. Numbered(w)'  BY <1>2, <1>4, <1>5 DEF Numbered
    <3>. QED BY <2>1, <3>1, <3>2
  <2>2. CASE v # w  BY <1>2, <1>4, <1>5, <2>2 DEF WellHeld, Numbered
  <2>. QED BY <2>1, <2>2
<1>7. AttemptsExclusive'  BY <1>5 DEF AttemptsExclusive
<1>8. DeliveredWasAccepted' /\ Unqueued'  BY <1>2 DEF DeliveredWasAccepted, Unqueued
<1>9. ASSUME NEW m \in Message  PROVE \E D : Paired(m, D)'
  <2>1. PICK D : Paired(m, D)  OBVIOUS
  <2>2. Slot(m)' = Slot(m)  BY <1>2 DEF Slot
  <2>3. ASSUME NEW v \in Worker, NEW k \in 1..SendTries
        PROVE  /\ \A d \in worker'[v].batch : d.id = m => <<d.n, k>> \notin D
               /\ worker'[v].pc = "sending" /\ worker'[v].cur.id = m /\ <<worker'[v].cur.n, k>> \in D
                    => k <= worker'[v].tries
    <3>1. CASE v = w  BY <1>4, <2>1, <3>1 DEF Paired
    <3>2. CASE v # w  BY <1>4, <2>1, <3>2 DEF Paired
    <3>. QED BY <3>1, <3>2
  <2>4. Paired(m, D)'  BY <1>2, <2>1, <2>2, <2>3 DEF Paired
  <2>. QED BY <2>4
<1>. QED BY <1>3, <1>6, <1>7, <1>8, <1>9

-----------------------------------------------------------------------------
(* Sending.                                                                *)

\* The provider accepts the try that is under way: a pair that no copy has had.
LEMMA AcceptedTry ==
  ASSUME IInv, NEW w \in Worker, NEW ws \in WorkerState, worker[w].pc = "sending",
         worker' = [worker EXCEPT ![w] = ws],
         copies' = [copies EXCEPT ![worker[w].cur.id] = @ + 1],
         UNCHANGED <<msg, faults>>,
         ws.batch = worker[w].batch, ws.cur = worker[w].cur, ws.pc \in Busy,
         ws.pc = "sending" => ws.tries = worker[w].tries + 1 /\ ws.tries < SendTries
  PROVE  IInv'
<1>. USE DEF IInv
<1> DEFINE c == worker[w].cur
<1>1. /\ c \in Claim /\ c # NoClaim /\ c.id \in Message /\ c.n \in 1..MaxAttempts
      /\ c \in Holding(w) /\ c.n <= msg[c.id].attempts
      /\ worker[w].tries \in Nat /\ worker[w].tries + 1 \in 1..SendTries
  <2>1. c \in Claim /\ c # NoClaim /\ worker[w].tries < SendTries
    BY Typed DEF WellHeld, Busy
  <2>2. c \in Holding(w)  BY <2>1 DEF Holding
  <2>3. worker[w].tries \in Nat /\ SendTries \in Nat  BY Typed, OutboxAssumption
  <2>. QED BY <2>1, <2>2, <2>3 DEF Claim, Numbered
<1>2. \A v \in Worker : worker'[v] = IF v = w THEN ws ELSE worker[v]
  BY DEF TypeOK
<1>3. \A m \in Message : copies'[m] = IF m = c.id THEN copies[m] + 1 ELSE copies[m]
  BY <1>1, Typed
<1>4. \A v \in Worker : Holding(v)' = Holding(v)  BY <1>2 DEF Holding
<1>5. \A m \in Message : copies[m] \in Nat /\ copies'[m] \in Nat /\ copies'[m] >= copies[m]
  BY <1>3, Typed
<1>6. ASSUME NEW v \in Worker  PROVE WellHeld(v)' /\ Numbered(v)'
  <2>1. CASE v = w
    <3>1. copies'[c.id] > 0  BY <1>1, <1>3, <1>5
    <3>2. WellHeld(w)'  BY <1>1, <1>2, <3>1 DEF WellHeld, Busy
    <3>3. Numbered(w)'  BY <1>2, <1>4 DEF Numbered, Busy
    <3>. QED BY <2>1, <3>2, <3>3
  <2>2. CASE v # w
    <3>1. worker[v].pc = "accepted" => copies'[worker[v].cur.id] > 0
      <4>1. SUFFICES ASSUME worker[v].pc = "accepted" PROVE copies'[worker[v].cur.id] > 0
        OBVIOUS
      <4>2. worker[v].cur \in Claim /\ worker[v].cur.id \in Message
        BY <4>1, Typed DEF WellHeld, Busy, Claim
      <4>3. copies[worker[v].cur.id] > 0  BY <4>1 DEF WellHeld
      <4>. QED BY <1>5, <4>2, <4>3
    <3>. QED BY <1>2, <1>4, <2>2, <3>1 DEF WellHeld, Numbered
  <2>. QED BY <2>1, <2>2
<1>7. AttemptsExclusive'  BY <1>4 DEF AttemptsExclusive
<1>8. DeliveredWasAccepted' /\ Unqueued'  BY <1>5 DEF DeliveredWasAccepted, Unqueued
<1>9. ASSUME NEW m \in Message, m # c.id  PROVE \E D : Paired(m, D)'
  <2>1. PICK D : Paired(m, D)  OBVIOUS
  <2>2. Slot(m)' = Slot(m)  BY DEF Slot
  <2>3. ASSUME NEW v \in Worker, NEW k \in 1..SendTries
        PROVE  /\ \A d \in worker'[v].batch : d.id = m => <<d.n, k>> \notin D
               /\ worker'[v].pc = "sending" /\ worker'[v].cur.id = m /\ <<worker'[v].cur.n, k>> \in D
                    => k <= worker'[v].tries
    <3>1. CASE v = w  BY <1>2, <1>9, <2>1, <3>1 DEF Paired
    <3>2. CASE v # w  BY <1>2, <2>1, <3>2 DEF Paired
    <3>. QED BY <3>1, <3>2
  <2>4. Paired(m, D)'  BY <1>3, <1>9, <2>1, <2>2, <2>3 DEF Paired
  <2>. QED BY <2>4
<1>10. ASSUME NEW m \in Message, m = c.id  PROVE \E D : Paired(m, D)'
  <2>1. PICK D : Paired(m, D)  OBVIOUS
  <2> DEFINE p == <<c.n, worker[w].tries + 1>>
             E == D \cup {p}
  <2>2. p \in Slot(m)  BY <1>1, <1>10, Typed, OutboxAssumption DEF Slot
  <2>3. p \notin D  BY <1>1, <1>10, <2>1 DEF Paired
  <2>4. Cardinality(E) = Cardinality(D) + 1
    <3>1. IsFiniteSet(D)
      BY <2>1, SlotsFinite, Typed, OutboxAssumption DEF Paired, Slot
    <3>. QED BY <2>3, <3>1, FS_AddElement
  <2>5. E \in SUBSET Slot(m) /\ Cardinality(E) = copies'[m]
    BY <1>3, <1>10, <2>1, <2>2, <2>4 DEF Paired
  <2>6. ASSUME NEW v \in Worker, NEW k \in 1..SendTries
        PROVE  /\ \A d \in worker'[v].batch : d.id = m => <<d.n, k>> \notin E
               /\ worker'[v].pc = "sending" /\ worker'[v].cur.id = m /\ <<worker'[v].cur.n, k>> \in E
                    => k <= worker'[v].tries
    <3>1. CASE v = w
      <4>1. \A d \in worker[w].batch : d.id # m  BY <1>1, <1>10 DEF WellHeld
      <4>2. ASSUME ws.pc = "sending", <<c.n, k>> \in E  PROVE k <= ws.tries
        <5>1. <<c.n, k>> = p \/ <<c.n, k>> \in D  BY <4>2
        <5>2. <<c.n, k>> \in D => k <= worker[w].tries  BY <1>10, <2>1 DEF Paired
        <5>3. <<c.n, k>> = p => k = worker[w].tries + 1  OBVIOUS
        <5>. QED BY <1>1, <4>2, <5>1, <5>2, <5>3
      <4>. QED BY <1>2, <3>1, <4>1, <4>2
    <3>2. CASE v # w
      <4>1. \A d \in Holding(v) : d.id = m => d.n # c.n
        BY <1>1, <1>10, <3>2 DEF AttemptsExclusive
      <4>2. \A d \in Holding(v) : d.id = m => <<d.n, k>> # p  BY <4>1
      <4>3. \A d \in worker[v].batch : d.id = m => <<d.n, k>> \notin E
        BY <2>1, <4>2 DEF Paired, Holding
      <4>4. worker[v].pc = "sending" => worker[v].cur \in Holding(v)
        BY DEF WellHeld, Busy, Holding
      <4>5. worker[v].pc = "sending" /\ worker[v].cur.id = m /\ <<worker[v].cur.n, k>> \in E
              => k <= worker[v].tries
        BY <2>1, <4>2, <4>4 DEF Paired
      <4>. QED BY <1>2, <3>2, <4>3, <4>5
    <3>. QED BY <3>1, <3>2
  <2>7. Slot(m)' = Slot(m)  BY DEF Slot
  <2>. HIDE DEF E
  <2>8. PICK F : F = E  OBVIOUS
  <2>9. Paired(m, F)'  BY <2>5, <2>6, <2>7, <2>8 DEF Paired
  <2>. QED BY <2>9
<1>11. \A m \in Message : \E D : Paired(m, D)'  BY <1>9, <1>10
<1>12. TypeOK'
  <2>1. \A m \in Message : copies'[m] \in 0 .. MaxAttempts * SendTries
    <3>1. SUFFICES ASSUME NEW m \in Message PROVE copies'[m] \in 0 .. MaxAttempts * SendTries
      OBVIOUS
    <3>2. PICK D : Paired(m, D)'  BY <1>11
    <3>3. D \in SUBSET ((1..MaxAttempts) \X (1..SendTries)) /\ Cardinality(D) = copies'[m]
      <4>1. (1..msg'[m].attempts) \subseteq 1..MaxAttempts  BY Typed, OutboxAssumption
      <4>. QED BY <3>2, <4>1 DEF Paired, Slot
    <3>4. MaxAttempts \in Nat /\ SendTries \in Nat /\ MaxAttempts * SendTries \in Nat
      BY OutboxAssumption
    <3>. QED BY <3>3, <3>4, SlotsFinite
  <2>2. copies' \in [Message -> 0 .. MaxAttempts * SendTries]
    BY <2>1 DEF TypeOK
  <2>. QED BY <2>2 DEF TypeOK
<1>. QED BY <1>6, <1>7, <1>8, <1>11, <1>12

LEMMA AcceptHolds ==
  ASSUME IInv, NEW w \in Worker, Accept(w)
  PROVE  IInv'
<1> DEFINE ws == [worker[w] EXCEPT !.pc = "accepted"]
<1>1. worker[w] \in WorkerState /\ worker[w].pc = "sending"
  BY Typed DEF IInv, Accept
<1>2. /\ ws \in WorkerState /\ ws.batch = worker[w].batch /\ ws.cur = worker[w].cur
      /\ ws.pc = "accepted"
  BY <1>1 DEF WorkerState
<1>3. /\ worker' = [worker EXCEPT ![w] = ws]
      /\ copies' = [copies EXCEPT ![worker[w].cur.id] = @ + 1] /\ UNCHANGED <<msg, faults>>
  BY DEF Accept, IInv, TypeOK
<1>. HIDE DEF ws
<1>. QED BY <1>1, <1>2, <1>3, AcceptedTry DEF Busy

LEMMA AcceptUnheardHolds ==
  ASSUME IInv, NEW w \in Worker, AcceptUnheard(w)
  PROVE  IInv'
<1>1. /\ worker[w].pc = "sending" /\ Retry(w) /\ UNCHANGED <<msg, faults>>
      /\ copies' = [copies EXCEPT ![worker[w].cur.id] = @ + 1]
  BY DEF AcceptUnheard
<1>2. AfterRetry(w).pc \in Busy /\ (AfterRetry(w).pc = "sending" => AfterRetry(w).tries < SendTries)
  BY <1>1, RetryState, OutboxAssumption DEF Busy
<1>. QED BY <1>1, <1>2, RetryState, AcceptedTry

-----------------------------------------------------------------------------
(* Recording.                                                              *)

\* A step that changes the status of one row that is being processed and that
\* no open claim has locked, and takes that row's claim from a worker.
LEMMA RecordHolds ==
  ASSUME IInv, NEW w \in Worker, worker[w].pc \in {"accepted", "refused"},
         NEW row \in MessageRow, ~Locked(worker[w].cur.id),
         msg[worker[w].cur.id].status = "processing",
         row.status \in {"delivered", "failed"},
         row.status = "delivered" => worker[w].pc = "accepted",
         row.attempts = msg[worker[w].cur.id].attempts,
         msg' = [msg EXCEPT ![worker[w].cur.id] = row],
         Advance(w), UNCHANGED <<copies, faults>>
  PROVE  IInv'
<1>. USE DEF IInv
<1> DEFINE i == worker[w].cur.id
           ws == [worker[w] EXCEPT !.pc = "next", !.cur = NoClaim]
<1>1. i \in Message /\ worker[w] \in WorkerState
  BY Typed DEF WellHeld, Busy, Claim
<1>2. /\ ws \in WorkerState /\ ws.pc = "next" /\ ws.cur = NoClaim /\ ws.batch = worker[w].batch
      /\ \A v \in Worker : worker'[v] = IF v = w THEN ws ELSE worker[v]
      /\ worker' \in [Worker -> WorkerState]
  BY <1>1 DEF WorkerState, Advance, TypeOK
<1>. HIDE DEF ws
<1>3. \A m \in Message : msg'[m] = IF m = i THEN row ELSE msg[m]
  BY <1>1, Typed
<1>4. TypeOK'  BY <1>2 DEF TypeOK
<1>5. \A m \in Message : /\ msg'[m].attempts = msg[m].attempts
                         /\ m # i => msg'[m].status = msg[m].status
  BY <1>3
<1>6. \A v \in Worker : Holding(v)' \subseteq Holding(v)
  BY <1>2 DEF Holding
<1>7. ASSUME NEW v \in Worker  PROVE WellHeld(v)' /\ Numbered(v)'
  <2>1. WellHeld(v)'
    <3>1. CASE v = w  BY <1>2, <3>1 DEF WellHeld, Busy
    <3>2. CASE v # w  BY <1>2, <3>2 DEF WellHeld
    <3>. QED BY <3>1, <3>2
  <2>2. CASE worker[v].pc = "claiming"
    <3>1. v # w /\ worker'[v] = worker[v]  BY <1>2, <2>2
    <3>2. \A c \in worker[v].batch : c.id # i /\ c.id \in Message
      BY <2>2, Typed DEF Locked, Holding
    <3>3. \A c \in worker[v].batch :
            msg'[c.id].attempts = msg[c.id].attempts /\ msg'[c.id].status = msg[c.id].status
      BY <1>5, <3>2
    <3>4. \A c \in worker[v].batch :
            c.n = msg[c.id].attempts + 1 /\ msg[c.id].status \notin {"none", "delivered"}
      BY <2>2 DEF Numbered
    <3>. QED BY <2>1, <2>2, <3>1, <3>3, <3>4 DEF Numbered
  <2>3. CASE worker[v].pc # "claiming"
    <3>1. worker'[v].pc # "claiming"  BY <1>2, <2>3
    <3>2. \A c \in Holding(v)' : c \in Holding(v) /\ msg'[c.id].attempts = msg[c.id].attempts
      BY <1>5, <1>6, Typed
    <3>3. \A c \in Holding(v) : c.n <= msg[c.id].attempts  BY <2>3 DEF Numbered
    <3>4. \A c \in Holding(v)' : c.n <= msg'[c.id].attempts  BY <3>2, <3>3
    <3>. QED BY <2>1, <3>1, <3>4 DEF Numbered
  <2>. QED BY <2>1, <2>2, <2>3
<1>8. AttemptsExclusive'  BY <1>6 DEF AttemptsExclusive
<1>9. DeliveredWasAccepted' /\ Unqueued'
  <2>1. row.status = "delivered" => copies[i] > 0  BY DEF WellHeld
  <2>. QED BY <1>3, <1>5, <2>1 DEF DeliveredWasAccepted, Unqueued
<1>10. ASSUME NEW m \in Message  PROVE \E D : Paired(m, D)'
  <2>1. PICK D : Paired(m, D)  OBVIOUS
  <2>2. Slot(m)' = Slot(m)  BY <1>5 DEF Slot
  <2>3. ASSUME NEW v \in Worker, NEW k \in 1..SendTries
        PROVE  /\ \A c \in worker'[v].batch : c.id = m => <<c.n, k>> \notin D
               /\ worker'[v].pc = "sending" /\ worker'[v].cur.id = m /\ <<worker'[v].cur.n, k>> \in D
                    => k <= worker'[v].tries
    <3>1. CASE v = w  BY <1>2, <2>1, <3>1 DEF Paired
    <3>2. CASE v # w  BY <1>2, <2>1, <3>2 DEF Paired
    <3>. QED BY <3>1, <3>2
  <2>4. Paired(m, D)'  BY <2>1, <2>2, <2>3 DEF Paired
  <2>. QED BY <2>4
<1>. QED BY <1>4, <1>7, <1>8, <1>9, <1>10

\* A late outcome, of a row that is no longer being processed, changes no row.
LEMMA LateHolds ==
  ASSUME IInv, NEW w \in Worker, worker[w].pc \in {"accepted", "refused"},
         Advance(w), UNCHANGED <<msg, copies, faults>>
  PROVE  IInv'
<1> DEFINE ws == [worker[w] EXCEPT !.pc = "next", !.cur = NoClaim]
<1>1. worker[w] \in WorkerState  BY Typed DEF IInv
<1>2. ws \in WorkerState /\ ws.pc = "next" /\ ws.cur = NoClaim /\ ws.batch = worker[w].batch
  BY <1>1 DEF WorkerState
<1>3. worker' = [worker EXCEPT ![w] = ws] /\ faults' \in 0..MaxFaults
  BY DEF Advance, IInv, TypeOK
<1>. HIDE DEF ws
<1>. QED BY <1>2, <1>3, OneWorkerSteps DEF Busy

LEMMA MarkDeliveredHolds ==
  ASSUME IInv, NEW w \in Worker, MarkDelivered(w)
  PROVE  IInv'
<1> DEFINE i == worker[w].cur.id
           row == [msg[i] EXCEPT !.status = "delivered"]
<1>1. /\ worker[w].pc = "accepted" /\ ~Locked(i) /\ Advance(w) /\ UNCHANGED <<copies, faults>>
      /\ msg' = IF msg[i].status = "processing" THEN [msg EXCEPT ![i].status = "delivered"] ELSE msg
  BY DEF MarkDelivered
<1>2. msg[i] \in MessageRow  BY <1>1, Typed DEF IInv, WellHeld, Busy, Claim
<1>3. CASE msg[i].status = "processing"
  <2>1. /\ row \in MessageRow /\ row.status = "delivered" /\ row.attempts = msg[i].attempts
        /\ msg' = [msg EXCEPT ![i] = row]
    BY <1>1, <1>2, <1>3 DEF MessageRow, MessageStatus, IInv, TypeOK
  <2>. HIDE DEF row
  <2>. QED BY <1>1, <1>3, <2>1, RecordHolds
<1>4. CASE msg[i].status # "processing"  BY <1>1, <1>4, LateHolds
<1>. QED BY <1>3, <1>4

LEMMA MarkFailedHolds ==
  ASSUME IInv, NEW w \in Worker, MarkFailed(w)
  PROVE  IInv'
<1> DEFINE c == worker[w].cur
           wait == IF c.n >= MaxAttempts THEN msg[c.id].wait ELSE Backoff(c.n)
           row == [msg[c.id] EXCEPT !.status = "failed", !.wait = wait]
<1>1. /\ worker[w].pc = "refused" /\ ~Locked(c.id) /\ Advance(w) /\ UNCHANGED <<copies, faults>>
      /\ msg' = IF msg[c.id].status = "processing"
                THEN [msg EXCEPT ![c.id].status = "failed",
                       ![c.id].wait = IF c.n >= MaxAttempts THEN @ ELSE Backoff(c.n)]
                ELSE msg
  BY DEF MarkFailed
<1>2. msg[c.id] \in MessageRow /\ c.n \in 1..MaxAttempts /\ c.id \in Message
  BY <1>1, Typed DEF IInv, WellHeld, Busy, Claim
<1>3. CASE msg[c.id].status = "processing"
  <2>1. wait \in 0..LongestWait
    <3>1. Backoff(c.n) \in 1..LongestWait  BY <1>2, BackoffAssumption
    <3>2. msg[c.id].wait \in 0..LongestWait  BY <1>2 DEF MessageRow
    <3>. QED BY <3>1, <3>2
  <2>2. msg' = [msg EXCEPT ![c.id] = row]
    BY <1>1, <1>2, <1>3 DEF IInv, TypeOK, MessageRow
  <2>. HIDE DEF wait
  <2>3. row \in MessageRow /\ row.status = "failed" /\ row.attempts = msg[c.id].attempts
    BY <1>2, <2>1 DEF MessageRow, MessageStatus
  <2>. HIDE DEF row
  <2>. QED BY <1>1, <1>3, <2>2, <2>3, RecordHolds
<1>4. CASE msg[c.id].status # "processing"  BY <1>1, <1>4, LateHolds
<1>. QED BY <1>3, <1>4

-----------------------------------------------------------------------------
(* Time.                                                                   *)

LEMMA DownType == \A n \in Nat : \A k \in 0..n : Down(k) \in 0..n
BY DEF Down

\* Time changes waits and leases only.
LEMMA TickHolds ==
  ASSUME IInv, Tick
  PROVE  IInv'
<1>. USE DEF IInv
<1>1. LongestWait \in Nat /\ Lease \in Nat
  BY BackoffAssumption, OutboxAssumption DEF LongestWait
<1>2. ASSUME NEW m \in Message
      PROVE  /\ msg'[m] \in MessageRow
             /\ msg'[m].status = msg[m].status /\ msg'[m].attempts = msg[m].attempts
  <2>1. msg'[m] = [msg[m] EXCEPT !.wait = Down(@), !.lease = Down(@)]  BY DEF Tick
  <2>2. msg[m] \in MessageRow  BY Typed
  <2>3. Down(msg[m].wait) \in 0..LongestWait /\ Down(msg[m].lease) \in 0..Lease
    BY <1>1, <2>2, DownType DEF MessageRow
  <2>. QED BY <2>1, <2>2, <2>3 DEF MessageRow
<1>3. \A c \in Claim : Older(c) \in Claim /\ Older(c).id = c.id /\ Older(c).n = c.n
  <2>1. SUFFICES ASSUME NEW c \in Claim
                 PROVE  Older(c) \in Claim /\ Older(c).id = c.id /\ Older(c).n = c.n
    OBVIOUS
  <2>2. Down(c.lease) \in 0..Lease  BY <1>1, DownType DEF Claim
  <2>. QED BY <2>2 DEF Older, Claim
<1>4. ASSUME NEW w \in Worker
      PROVE  /\ worker'[w] \in WorkerState
             /\ worker'[w].pc = worker[w].pc /\ worker'[w].tries = worker[w].tries
             /\ worker'[w].batch = {Older(c) : c \in worker[w].batch}
             /\ worker'[w].cur = IF worker[w].cur = NoClaim THEN NoClaim ELSE Older(worker[w].cur)
             /\ worker[w].batch \subseteq Claim /\ worker[w].cur \in Claim \cup {NoClaim}
  <2>1. worker[w] \in WorkerState /\ worker[w].batch \subseteq Claim
        /\ worker[w].cur \in Claim \cup {NoClaim}
    BY Typed
  <2> DEFINE batch == {Older(c) : c \in worker[w].batch}
             cur == IF worker[w].cur = NoClaim THEN NoClaim ELSE Older(worker[w].cur)
  <2>2. worker'[w] = [worker[w] EXCEPT !.batch = batch, !.cur = cur]
    BY DEF Tick
  <2>3. batch \in SUBSET Claim /\ cur \in Claim \cup {NoClaim}  BY <1>3, <2>1
  <2>. HIDE DEF batch, cur
  <2>4. /\ worker'[w] \in WorkerState /\ worker'[w].batch = batch /\ worker'[w].cur = cur
        /\ worker'[w].pc = worker[w].pc /\ worker'[w].tries = worker[w].tries
    BY <2>1, <2>2, <2>3 DEF WorkerState
  <2>. QED BY <2>1, <2>4 DEF batch, cur
<1>5. ASSUME NEW w \in Worker, worker[w].cur # NoClaim
      PROVE  /\ worker'[w].cur # NoClaim /\ worker'[w].cur.id = worker[w].cur.id
             /\ worker'[w].cur.n = worker[w].cur.n
  BY <1>3, <1>4, <1>5, NoClaimAssumption
<1>6. ASSUME NEW w \in Worker, NEW d \in worker'[w].batch
      PROVE  \E c \in worker[w].batch : c \in Claim /\ d = Older(c) /\ c.id = d.id /\ c.n = d.n
  BY <1>3, <1>4
<1>7. ASSUME NEW w \in Worker, NEW d \in Holding(w)'
      PROVE  \E c \in Holding(w) : c.id = d.id /\ c.n = d.n
  <2>1. CASE d \in worker'[w].batch  BY <1>6, <2>1 DEF Holding
  <2>2. CASE d \notin worker'[w].batch
    <3>1. worker'[w].cur # NoClaim /\ d = worker'[w].cur  BY <2>2 DEF Holding
    <3>2. worker[w].cur # NoClaim /\ worker[w].cur \in Holding(w)
      BY <1>4, <3>1 DEF Holding
    <3>. QED BY <1>5, <3>1, <3>2
  <2>. QED BY <2>1, <2>2
<1>8. TypeOK'
  <2>1. msg' \in [Message -> MessageRow]  BY <1>2 DEF Tick
  <2>2. worker' \in [Worker -> WorkerState]  BY <1>4 DEF Tick
  <2>. QED BY <2>1, <2>2 DEF TypeOK, Tick
<1>9. ASSUME NEW w \in Worker  PROVE WellHeld(w)'
  <2>1. worker'[w].cur # NoClaim <=> worker'[w].pc \in Busy  BY <1>4, <1>5 DEF WellHeld
  <2>2. ASSUME NEW c \in worker'[w].batch, NEW d \in worker'[w].batch, c.id = d.id  PROVE c = d
    <3>1. PICK c0 \in worker[w].batch : c = Older(c0) /\ c0.id = c.id  BY <1>6
    <3>2. PICK d0 \in worker[w].batch : d = Older(d0) /\ d0.id = d.id  BY <1>6
    <3>. QED BY <2>2, <3>1, <3>2 DEF WellHeld
  <2>3. ASSUME NEW c \in worker'[w].batch, worker'[w].cur # NoClaim
        PROVE  c.id # worker'[w].cur.id
    <3>1. PICK c0 \in worker[w].batch : c0.id = c.id  BY <1>6
    <3>2. worker[w].cur # NoClaim  BY <1>4, <2>3
    <3>. QED BY <1>5, <3>1, <3>2 DEF WellHeld
  <2>4. worker'[w].pc = "sending" => worker'[w].tries < SendTries  BY <1>4 DEF WellHeld
  <2>5. worker'[w].pc = "accepted" => copies'[worker'[w].cur.id] > 0
    <3>1. worker'[w].pc = "accepted" => worker[w].cur # NoClaim  BY <1>4 DEF WellHeld, Busy
    <3>. QED BY <1>4, <1>5, <3>1 DEF WellHeld, Tick
  <2>. QED BY <2>1, <2>2, <2>3, <2>4, <2>5 DEF WellHeld
<1>10. ASSUME NEW w \in Worker  PROVE Numbered(w)'
  <2>1. CASE worker[w].pc = "claiming"
    <3>1. ASSUME NEW d \in worker'[w].batch
          PROVE  d.n = msg'[d.id].attempts + 1 /\ msg'[d.id].status \notin {"none", "delivered"}
      <4>1. PICK c \in worker[w].batch : c \in Claim /\ c.id = d.id /\ c.n = d.n  BY <1>6
      <4>2. c.n = msg[c.id].attempts + 1 /\ msg[c.id].status \notin {"none", "delivered"}
            /\ c.id \in Message
        BY <2>1, <4>1 DEF Numbered, Claim
      <4>. QED BY <1>2, <4>1, <4>2
    <3>. QED BY <1>4, <2>1, <3>1 DEF Numbered
  <2>2. CASE worker[w].pc # "claiming"
    <3>1. ASSUME NEW d \in Holding(w)'  PROVE d.n <= msg'[d.id].attempts
      <4>1. PICK c \in Holding(w) : c.id = d.id /\ c.n = d.n  BY <1>7
      <4>2. c.n <= msg[c.id].attempts /\ c.id \in Message  BY <2>2, Typed DEF Numbered
      <4>. QED BY <1>2, <4>1, <4>2
    <3>. QED BY <1>4, <2>2, <3>1 DEF Numbered
  <2>. QED BY <2>1, <2>2
<1>11. AttemptsExclusive'
  <2>1. ASSUME NEW v \in Worker, NEW w \in Worker, v # w,
               NEW c \in Holding(v)', NEW d \in Holding(w)', c.id = d.id
        PROVE  c.n # d.n
    <3>1. PICK c0 \in Holding(v) : c0.id = c.id /\ c0.n = c.n  BY <1>7
    <3>2. PICK d0 \in Holding(w) : d0.id = d.id /\ d0.n = d.n  BY <1>7
    <3>. QED BY <2>1, <3>1, <3>2 DEF AttemptsExclusive
  <2>. QED BY <2>1 DEF AttemptsExclusive
<1>12. DeliveredWasAccepted' /\ Unqueued'
  BY <1>2 DEF DeliveredWasAccepted, Unqueued, Tick
<1>13. ASSUME NEW m \in Message  PROVE \E D : Paired(m, D)'
  <2>1. PICK D : Paired(m, D)  OBVIOUS
  <2>2. Slot(m)' = Slot(m)  BY <1>2 DEF Slot
  <2>3. ASSUME NEW v \in Worker, NEW k \in 1..SendTries
        PROVE  /\ \A d \in worker'[v].batch : d.id = m => <<d.n, k>> \notin D
               /\ worker'[v].pc = "sending" /\ worker'[v].cur.id = m /\ <<worker'[v].cur.n, k>> \in D
                    => k <= worker'[v].tries
    <3>1. ASSUME NEW d \in worker'[v].batch, d.id = m  PROVE <<d.n, k>> \notin D
      <4>1. PICK c \in worker[v].batch : c.id = d.id /\ c.n = d.n  BY <1>6
      <4>. QED BY <2>1, <3>1, <4>1 DEF Paired
    <3>2. worker'[v].pc = "sending" => worker[v].cur # NoClaim  BY <1>4 DEF WellHeld, Busy
    <3>. QED BY <1>4, <1>5, <2>1, <3>1, <3>2 DEF Paired
  <2>4. Paired(m, D)'  BY <2>1, <2>2, <2>3 DEF Paired, Tick
  <2>. QED BY <2>4
<1>. QED BY <1>8, <1>9, <1>10, <1>11, <1>12, <1>13

-----------------------------------------------------------------------------
LEMMA StepHolds == IInv /\ [Next]_vars => IInv'
<1> SUFFICES ASSUME IInv, [Next]_vars PROVE IInv'  OBVIOUS
<1>1. ASSUME NEW m \in Message, Enqueue(m) PROVE IInv'  BY <1>1, EnqueueHolds
<1>2. ASSUME NEW w \in Worker, Work(w) PROVE IInv'
  BY <1>2, PollHolds, CommitClaimHolds, TakeHolds, StopHolds, AcceptHolds, AcceptUnheardHolds,
     UnavailableHolds, RefusedHolds, MarkDeliveredHolds, MarkFailedHolds DEF Work
<1>3. ASSUME NEW w \in Worker, Failure(w) PROVE IInv'
  BY <1>3, RefusedHolds, StopHolds DEF Failure
<1>4. CASE Tick  BY <1>4, TickHolds
<1>5. CASE UNCHANGED vars
  <2>. USE <1>5 DEF vars, IInv
  <2>1. TypeOK' /\ Unqueued' /\ AttemptsExclusive' /\ DeliveredWasAccepted'
    BY DEF TypeOK, Unqueued, AttemptsExclusive, DeliveredWasAccepted, Holding
  <2>2. \A w \in Worker : WellHeld(w)' /\ Numbered(w)'  BY DEF WellHeld, Numbered, Holding
  <2>3. \A m \in Message : \E D : Paired(m, D)'
    <3>1. ASSUME NEW m \in Message, NEW D, Paired(m, D)  PROVE Paired(m, D)'
      BY <3>1 DEF Paired, Slot
    <3>. QED BY <3>1
  <2>. QED BY <2>1, <2>2, <2>3
<1>. QED BY <1>1, <1>2, <1>3, <1>4, <1>5 DEF Next

THEOREM Invariance == Spec => []IInv
<1>. QED BY InitHolds, StepHolds, PTL DEF Spec

\* Every variable keeps its type: no attempt count, wait or lease leaves its range.
THEOREM TypeCorrect == Spec => []TypeOK
<1>1. IInv => TypeOK  BY DEF IInv
<1>. QED BY <1>1, Invariance, PTL

\* Claims are exclusive per attempt, however polls, crashes and expired leases overlap.
THEOREM AttemptsExclusiveAlways == Spec => []AttemptsExclusive
<1>1. IInv => AttemptsExclusive  BY DEF IInv
<1>. QED BY <1>1, Invariance, PTL

\* A delivered record is never wrong about the provider.
THEOREM DeliveredWasAcceptedAlways == Spec => []DeliveredWasAccepted
<1>1. IInv => DeliveredWasAccepted  BY DEF IInv
<1>. QED BY <1>1, Invariance, PTL

\* A recipient gets at most EMAIL_MAX_ATTEMPTS copies for each claim of the row.
THEOREM CopiesBoundedAlways == Spec => []CopiesBounded
<1>1. ASSUME IInv  PROVE CopiesBounded
  <2>1. SUFFICES ASSUME NEW m \in Message
                 PROVE  msg[m].attempts <= MaxAttempts /\ copies[m] <= msg[m].attempts * SendTries
    BY DEF CopiesBounded
  <2>2. msg[m].attempts \in 0..MaxAttempts /\ MaxAttempts \in Nat
    BY <1>1, Typed, OutboxAssumption DEF IInv
  <2>3. PICK D : Paired(m, D)  BY <1>1 DEF IInv
  <2>4. Cardinality(D) <= msg[m].attempts * SendTries
    BY <2>2, <2>3, SlotsFinite DEF Paired, Slot
  <2>. QED BY <2>2, <2>3, <2>4 DEF Paired
<1>. QED BY <1>1, Invariance, PTL

\* No step takes a delivered or exhausted message out of its final status: late
\* outcomes and takeovers cannot reach it.
THEOREM OutcomesAreFinalAlways == Spec => OutcomesAreFinal
<1> DEFINE Final(m) == \/ msg[m].status = "delivered"
                       \/ msg[m].status = "failed" /\ msg[m].attempts = MaxAttempts
           Kept == \A m \in Message : Final(m) => msg'[m].status = msg[m].status
<1>1. ASSUME IInv, [Next]_vars  PROVE Kept
  <2>1. SUFFICES ASSUME NEW m \in Message, Final(m)  PROVE msg'[m].status = msg[m].status
    OBVIOUS
  <2>2. DOMAIN msg = Message  BY <1>1, Typed DEF IInv
  <2>3. ASSUME NEW x \in Message, Enqueue(x)  PROVE msg'[m].status = msg[m].status
    BY <2>1, <2>2, <2>3 DEF Enqueue
  <2>4. ASSUME NEW w \in Worker, CommitClaim(w)  PROVE msg'[m].status = msg[m].status
    <3>1. ASSUME NEW c \in worker[w].batch, c.id = m  PROVE FALSE
      <4>1. c.n = msg[m].attempts + 1 /\ msg[m].status # "delivered"
        BY <1>1, <2>4, <3>1 DEF IInv, Numbered, CommitClaim
      <4>2. c.n \in 1..MaxAttempts /\ msg[m].attempts \in 0..MaxAttempts /\ MaxAttempts \in Nat
        BY <1>1, Typed, OutboxAssumption DEF IInv, Holding
      <4>. QED BY <2>1, <4>1, <4>2
    <3>. QED BY <2>4, <3>1 DEF CommitClaim
  <2>5. ASSUME NEW w \in Worker, MarkDelivered(w) \/ MarkFailed(w)
        PROVE  msg'[m].status = msg[m].status
    BY <2>1, <2>2, <2>5 DEF MarkDelivered, MarkFailed
  <2>6. CASE Tick
    <3>1. msg[m] \in MessageRow  BY <1>1, Typed DEF IInv
    <3>. QED BY <2>6, <3>1 DEF Tick, MessageRow
  <2>7. ASSUME NEW w \in Worker, Work(w), ~CommitClaim(w), ~MarkDelivered(w), ~MarkFailed(w)
        PROVE  msg' = msg
    BY <2>7 DEF Work, Poll, Take, FinishBatch, Accept, AcceptUnheard, Unavailable, Reject
  <2>8. ASSUME NEW w \in Worker, Failure(w)  PROVE msg' = msg
    BY <2>8 DEF Failure, LoseDeliveredUpdate, LoseFailedUpdate, Crash
  <2>. QED BY <1>1, <2>3, <2>4, <2>5, <2>6, <2>7, <2>8 DEF Next, vars
<1>2. IInv /\ [Next]_vars => [Kept]_vars  BY <1>1
<1>3. Spec => [][Kept]_vars  BY <1>2, Invariance, PTL DEF Spec
<1>. QED BY <1>3 DEF OutcomesAreFinal
=============================================================================
