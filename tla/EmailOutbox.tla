---------------------------- MODULE EmailOutbox ----------------------------
(***************************************************************************)
(* The e-mail outbox of the user-management service: the rows of           *)
(* compound.email_outbox and the workers, one per replica, that claim      *)
(* batches of them and hand the messages to the provider (email.outbox.ts, *)
(* email.service.ts).                                                      *)
(*                                                                         *)
(* Times are counted down: wait is how long a row is still unavailable,    *)
(* lease how long its last claim still keeps other workers away.           *)
(***************************************************************************)
EXTENDS Naturals, FiniteSets

CONSTANTS
  Message,      \* outbox rows
  Worker,       \* one per replica
  BatchSize,    \* EMAIL_OUTBOX_BATCH_SIZE
  MaxAttempts,  \* EMAIL_OUTBOX_MAX_ATTEMPTS: claims of a row
  SendTries,    \* EMAIL_MAX_ATTEMPTS: requests to the provider per claim
  Lease,        \* the five minutes after which a claim is taken over
  RetryBase,    \* EMAIL_OUTBOX_RETRY_BASE_SECONDS
  MaxFaults,    \* bound: crashes and failed UPDATEs of one behaviour
  NoClaim       \* a worker between two messages

ASSUME OutboxAssumption ==
  /\ {BatchSize, MaxAttempts, SendTries, Lease, RetryBase} \subseteq Nat \ {0}
  /\ MaxFaults \in Nat
  /\ IsFiniteSet(Message)

VARIABLES
  msg,      \* the rows, as committed
  worker,   \* what each worker is doing
  copies,   \* how often the provider has accepted each message
  faults    \* faults so far

vars == <<msg, worker, copies, faults>>

MessageStatus == {"none", "pending", "processing", "delivered", "failed"}

Backoff(n) == RetryBase * 2 ^ (n - 1)
LongestWait == Backoff(MaxAttempts)

\* Powers of two grow: arithmetic that TLC evaluates and no prover knows.
ASSUME BackoffAssumption == \A n \in 1..MaxAttempts : Backoff(n) \in 1..LongestWait

\* rank is the place in the order of created_at.
MessageRow == [status : MessageStatus, attempts : 0..MaxAttempts,
               wait : 0..LongestWait, lease : 0..Lease, rank : 0..Cardinality(Message)]

\* A claimed row as RETURNING gives it: n is its attempt_count.
Claim == [id : Message, n : 1..MaxAttempts, lease : 0..Lease]

ASSUME NoClaimAssumption == NoClaim \notin Claim

WorkerState == [pc : {"idle",      \* waiting for the timer
                      "claiming",  \* rows of batch locked, claim not committed
                      "next",      \* between two messages of the batch
                      "sending",   \* the request for cur is with the provider
                      "accepted",  \* send returned, row not yet updated
                      "refused"},  \* send threw, row not yet updated
                batch : SUBSET Claim, cur : Claim \cup {NoClaim}, tries : 0..SendTries]

NoRow == [status |-> "none", attempts |-> 0, wait |-> 0, lease |-> 0, rank |-> 0]
Waiting == [pc |-> "idle", batch |-> {}, cur |-> NoClaim, tries |-> 0]

TypeOK == /\ msg \in [Message -> MessageRow]
          /\ worker \in [Worker -> WorkerState]
          /\ copies \in [Message -> 0 .. MaxAttempts * SendTries]
          /\ faults \in 0..MaxFaults

Init == /\ msg = [m \in Message |-> NoRow]
        /\ worker = [w \in Worker |-> Waiting]
        /\ copies = [m \in Message |-> 0]
        /\ faults = 0

-----------------------------------------------------------------------------
(* Claiming.                                                               *)

\* Committed with the registration, verification or reset that needs it.
Enqueue(m) ==
  /\ msg[m].status = "none"
  /\ msg' = [msg EXCEPT ![m].status = "pending",
               ![m].rank = 1 + Cardinality({x \in Message : msg[x].status # "none"})]
  /\ UNCHANGED <<worker, copies, faults>>

Locked(m) == \E w \in Worker : /\ worker[w].pc = "claiming"
                               /\ \E c \in worker[w].batch : c.id = m

\* Mutant: an expired claim is taken over whatever its attempt count.
ClaimableForEver(m) ==
  /\ \/ msg[m].status \in {"pending", "failed"}
     \/ msg[m].status = "processing" /\ msg[m].lease = 0
  /\ msg[m].wait = 0
  /\ ~Locked(m)

\* Mutant: the rows are read without FOR UPDATE.
ClaimableUnlocked(m) ==
  /\ \/ msg[m].status \in {"pending", "failed"}
     \/ msg[m].status = "processing" /\ msg[m].lease = 0
  /\ msg[m].wait = 0
  /\ msg[m].attempts < MaxAttempts

\* Mutant: claims are never taken over.
ClaimableOnce(m) ==
  /\ msg[m].status \in {"pending", "failed"}
  /\ msg[m].wait = 0
  /\ msg[m].attempts < MaxAttempts
  /\ ~Locked(m)

\* The WHERE clause of the claim, FOR UPDATE SKIP LOCKED.
Claimable(m) ==
  /\ \/ msg[m].status \in {"pending", "failed"}
     \/ msg[m].status = "processing" /\ msg[m].lease = 0
  /\ msg[m].wait = 0
  /\ msg[m].attempts < MaxAttempts
  /\ ~Locked(m)

\* The first BatchSize of them, ORDER BY created_at.
Batches ==
  LET all == {m \in Message : Claimable(m)} IN
  {b \in SUBSET all :
     /\ b # {}
     /\ Cardinality(b) <= BatchSize
     /\ b # all => Cardinality(b) = BatchSize
     /\ \A m \in b, x \in all \ b : msg[m].rank < msg[x].rank}

\* The timer fires and the previous batch is over: the statement locks rows.
Poll(w) ==
  /\ worker[w].pc = "idle"
  /\ \E b \in Batches :
       worker' = [worker EXCEPT ![w].pc = "claiming",
         ![w].batch = {[id |-> m, n |-> msg[m].attempts + 1, lease |-> Lease] : m \in b}]
  /\ UNCHANGED <<msg, copies, faults>>

\* Mutant: the attempt is not counted when the row is claimed.
CommitClaimUncounted(w) ==
  /\ worker[w].pc = "claiming"
  /\ msg' = [m \in Message |->
       IF \E c \in worker[w].batch : c.id = m
       THEN [msg[m] EXCEPT !.status = "processing", !.lease = Lease]
       ELSE msg[m]]
  /\ worker' = [worker EXCEPT ![w].pc = "next"]
  /\ UNCHANGED <<copies, faults>>

CommitClaim(w) ==
  /\ worker[w].pc = "claiming"
  /\ msg' = [m \in Message |->
       IF \E c \in worker[w].batch : c.id = m
       THEN LET c == CHOOSE c \in worker[w].batch : c.id = m
            IN [msg[m] EXCEPT !.status = "processing", !.attempts = c.n, !.lease = c.lease]
       ELSE msg[m]]
  /\ worker' = [worker EXCEPT ![w].pc = "next"]
  /\ UNCHANGED <<copies, faults>>

\* The loop of processBatch: the next record, or the end of the batch.
Take(w) ==
  /\ worker[w].pc = "next"
  /\ \E c \in worker[w].batch :
       worker' = [worker EXCEPT ![w].pc = "sending", ![w].cur = c,
                                ![w].batch = @ \ {c}, ![w].tries = 0]
  /\ UNCHANGED <<msg, copies, faults>>

FinishBatch(w) ==
  /\ worker[w].pc = "next"
  /\ worker[w].batch = {}
  /\ worker' = [worker EXCEPT ![w] = Waiting]
  /\ UNCHANGED <<msg, copies, faults>>

-----------------------------------------------------------------------------
(* HttpEmailSender.send.                                                   *)

\* The provider accepts the message and its answer arrives.
Accept(w) ==
  /\ worker[w].pc = "sending"
  /\ copies' = [copies EXCEPT ![worker[w].cur.id] = @ + 1]
  /\ worker' = [worker EXCEPT ![w].pc = "accepted"]
  /\ UNCHANGED <<msg, faults>>

\* Mutant: when no try is left, send returns instead of throwing.
RetryWithoutThrow(w) ==
  worker' = [worker EXCEPT
    ![w].tries = @ + 1,
    ![w].pc = IF worker[w].tries + 1 = SendTries THEN "accepted" ELSE "sending"]

\* A try fails in a way that is tried again, if tries are left.
Retry(w) ==
  worker' = [worker EXCEPT
    ![w].tries = @ + 1,
    ![w].pc = IF worker[w].tries + 1 = SendTries THEN "refused" ELSE "sending"]

\* The provider accepts the message, but the answer is lost or comes too late.
AcceptUnheard(w) ==
  /\ worker[w].pc = "sending"
  /\ copies' = [copies EXCEPT ![worker[w].cur.id] = @ + 1]
  /\ Retry(w)
  /\ UNCHANGED <<msg, faults>>

\* No connection, 429 or a server error.
Unavailable(w) ==
  /\ worker[w].pc = "sending"
  /\ Retry(w)
  /\ UNCHANGED <<msg, copies, faults>>

\* Any other answer is not tried again.
Reject(w) ==
  /\ worker[w].pc = "sending"
  /\ worker' = [worker EXCEPT ![w].pc = "refused"]
  /\ UNCHANGED <<msg, copies, faults>>

-----------------------------------------------------------------------------
(* Recording the outcome.                                                  *)

Advance(w) == worker' = [worker EXCEPT ![w].pc = "next", ![w].cur = NoClaim]

\* UPDATE ... WHERE id = cur AND status = 'processing', whoever claimed it last.
MarkDelivered(w) ==
  LET c == worker[w].cur IN
  /\ worker[w].pc = "accepted"
  /\ ~Locked(c.id)
  /\ msg' = IF msg[c.id].status = "processing"
            THEN [msg EXCEPT ![c.id].status = "delivered"] ELSE msg
  /\ Advance(w)
  /\ UNCHANGED <<copies, faults>>

\* Mutant: the failure is recorded whatever the row's status.
MarkFailedAnyway(w) ==
  LET c == worker[w].cur IN
  /\ worker[w].pc = "refused"
  /\ ~Locked(c.id)
  /\ msg' = [msg EXCEPT ![c.id].status = "failed",
               ![c.id].wait = IF c.n >= MaxAttempts THEN @ ELSE Backoff(c.n)]
  /\ Advance(w)
  /\ UNCHANGED <<copies, faults>>

\* Mutant: an exhausted message is not updated at all.
MarkFailedUnlessExhausted(w) ==
  LET c == worker[w].cur IN
  /\ worker[w].pc = "refused"
  /\ ~Locked(c.id)
  /\ msg' = IF msg[c.id].status = "processing" /\ c.n < MaxAttempts
            THEN [msg EXCEPT ![c.id].status = "failed", ![c.id].wait = Backoff(c.n)]
            ELSE msg
  /\ Advance(w)
  /\ UNCHANGED <<copies, faults>>

MarkFailed(w) ==
  LET c == worker[w].cur IN
  /\ worker[w].pc = "refused"
  /\ ~Locked(c.id)
  /\ msg' = IF msg[c.id].status = "processing"
            THEN [msg EXCEPT ![c.id].status = "failed",
                   ![c.id].wait = IF c.n >= MaxAttempts THEN @ ELSE Backoff(c.n)]
            ELSE msg
  /\ Advance(w)
  /\ UNCHANGED <<copies, faults>>

-----------------------------------------------------------------------------
(* Faults.                                                                 *)

Fault == faults < MaxFaults /\ faults' = faults + 1

\* The UPDATE after a delivery fails: the catch block treats it as a failed send.
LoseDeliveredUpdate(w) ==
  /\ worker[w].pc = "accepted"
  /\ Fault
  /\ worker' = [worker EXCEPT ![w].pc = "refused"]
  /\ UNCHANGED <<msg, copies>>

\* The UPDATE in the catch block fails: the error ends the batch.
LoseFailedUpdate(w) ==
  /\ worker[w].pc = "refused"
  /\ Fault
  /\ worker' = [worker EXCEPT ![w] = Waiting]
  /\ UNCHANGED <<msg, copies>>

\* The replica stops (a crash, or process.exit during a batch) and comes back,
\* or the claim fails: an open claim is rolled back, a committed one stays.
Crash(w) ==
  /\ worker[w].pc # "idle"
  /\ Fault
  /\ worker' = [worker EXCEPT ![w] = Waiting]
  /\ UNCHANGED <<msg, copies>>

-----------------------------------------------------------------------------
Down(n) == IF n = 0 THEN 0 ELSE n - 1

Older(c) == [c EXCEPT !.lease = Down(@)]

Tick ==
  /\ msg' = [m \in Message |-> [msg[m] EXCEPT !.wait = Down(@), !.lease = Down(@)]]
  /\ worker' = [w \in Worker |->
       [worker[w] EXCEPT !.batch = {Older(c) : c \in @},
                         !.cur = IF @ = NoClaim THEN @ ELSE Older(@)]]
  /\ UNCHANGED <<copies, faults>>

Work(w) == \/ Poll(w) \/ CommitClaim(w) \/ Take(w) \/ FinishBatch(w)
           \/ Accept(w) \/ AcceptUnheard(w) \/ Unavailable(w) \/ Reject(w)
           \/ MarkDelivered(w) \/ MarkFailed(w)

Failure(w) == LoseDeliveredUpdate(w) \/ LoseFailedUpdate(w) \/ Crash(w)

Next == \/ \E m \in Message : Enqueue(m)
        \/ \E w \in Worker : Work(w) \/ Failure(w)
        \/ Tick

Spec == Init /\ [][Next]_vars

\* The interval timer fires again and again, a request to the provider ends at
\* the latest with its timeout, and time passes.
FairSpec == Spec /\ WF_vars(Tick) /\ \A w \in Worker : WF_vars(Work(w))

-----------------------------------------------------------------------------
(* Properties.                                                             *)

\* The claims a worker has not finished with.
Holding(w) == worker[w].batch \cup (IF worker[w].cur = NoClaim THEN {} ELSE {worker[w].cur})

\* No two workers ever hold the same attempt at a message: claims are exclusive
\* even when they overlap, and a claim that is taken over is a new attempt.
AttemptsExclusive ==
  \A v, w \in Worker : v # w =>
    \A c \in Holding(v), d \in Holding(w) : c.id = d.id => c.n # d.n

\* What is recorded as delivered was accepted by the provider, also when the
\* record was written by a worker whose claim had been taken over.
DeliveredWasAccepted ==
  \A m \in Message : msg[m].status = "delivered" => copies[m] > 0

\* Retries are bounded: a recipient gets at most SendTries copies per attempt
\* and MaxAttempts attempts, whatever is lost, repeated or taken over.
CopiesBounded ==
  \A m \in Message : /\ msg[m].attempts <= MaxAttempts
                     /\ copies[m] <= msg[m].attempts * SendTries

\* Neither a delivered message nor one that failed its last attempt changes
\* again: a late outcome of an older claim does not bring it back.
OutcomesAreFinal ==
  [][\A m \in Message :
       \/ msg[m].status = "delivered"
       \/ msg[m].status = "failed" /\ msg[m].attempts = MaxAttempts
       => msg'[m].status = msg[m].status]_vars

\* A queued message is not forgotten while it has attempts left, whatever
\* crashes and whichever UPDATE is lost.
NothingForgotten ==
  \A m \in Message :
    msg[m].status # "none" ~> msg[m].status = "delivered" \/ msg[m].attempts = MaxAttempts

\* As long as no fault happens, every message is delivered or failed for good in the end.
Settles ==
  \A m \in Message : msg[m].status # "none" ~>
    \/ msg[m].status = "delivered"
    \/ msg[m].status = "failed" /\ msg[m].attempts = MaxAttempts
    \/ faults > 0

\* user-management-alerts.yml: "A user-management email exhausted all delivery
\* attempts" asks to replay "the failed outbox record", so a message that has
\* used its attempts and that nobody works on is delivered or failed.
ExhaustedIsFailed ==
  \A m \in Message :
    msg[m].attempts = MaxAttempts /\ (\A w \in Worker : \A c \in Holding(w) : c.id # m)
      => msg[m].status \in {"delivered", "failed"}

\* release-readiness.md: "concurrent-safe claiming".  While the lease of a claim
\* runs no other worker claims the message.
LeaseExcludes ==
  \A v, w \in Worker : v # w =>
    \A c \in Holding(v), d \in Holding(w) : c.id = d.id => c.lease = 0 \/ d.lease = 0
=============================================================================
