-------------------------- MODULE MigrationsProofs --------------------------
(***************************************************************************)
(* The safety of Migrations, for every number of files and contents, every *)
(* set of runners and every number of attempts, edits and faults.          *)
(*                                                                         *)
(* Most properties speak of a runner that succeeds or executes a file.     *)
(* What carries them there is what a runner has established on the way:    *)
(* all files of its image before the one it is at are on record as it has  *)
(* them, and that stays so because nothing ever changes a record.  For the *)
(* attempts of a Job it is an account: a file to which one was lost is on  *)
(* record, so that no later attempt begins it and is lost to it again.     *)
(***************************************************************************)
EXTENDS Migrations, WellFoundedInduction, FiniteSetTheorems, TLAPS

\* All files of the runner's image before f are on record as it has them.
RecordedBefore(r, f) ==
  \A g \in File : g < f => runner[r].image[g] \in {None, records[g]}

\* A runner at work is past the last file or at one that its image has.
AtWork(r) ==
  runner[r].pc \in Live =>
    /\ runner[r].pc = "look" \/ Current(r) \in File
    /\ Current(r) \in File => Wanted(r) # None
    /\ RecordedBefore(r, Current(r))

\* Between a file and its record, its content has been executed.
ToBeRecorded(r) ==
  runner[r].pc = "record" => <<Current(r), Wanted(r)>> \in applied

\* A runner that has succeeded has been through all files.
AtEnd(r) == runner[r].pc = "done" => RecordedBefore(r, Last + 1)

\* The attempts that faults and lost races have ended.
Spent(r) == Cardinality(runner[r].lost) + runner[r].broken

\* The account of a Job's attempts: which are spent, which one runs, which are
\* left.  Only a mismatch ends others.
Accounted(r) ==
  /\ \A f \in runner[r].lost : records[f] # None
  /\ runner[r].pc \in {"apply", "record"} => Current(r) \notin runner[r].lost
  /\ runner[r].pc \in Live =>
       /\ Spent(r) + runner[r].left + 1 <= Attempts
       /\ Mismatch(r) \/ Spent(r) + runner[r].left + 1 = Attempts
  /\ runner[r].pc = "failed" => Mismatch(r) \/ OutOfAttempts(r)

IInv ==
  /\ TypeOK
  /\ RecordedWasApplied
  /\ \A r \in Runner : AtWork(r) /\ ToBeRecorded(r) /\ AtEnd(r) /\ Accounted(r)

USE MigrationsAssumption

-----------------------------------------------------------------------------
(* The next file of an image.                                              *)

\* Every set of numbers that is not empty has a smallest element.
LEMMA SmallestOf ==
  ASSUME NEW S, S \subseteq Nat, S # {}
  PROVE  \E x \in S : \A y \in S : x <= y
<1>1. PICK x \in S : \A y \in S : ~ (<<y, x>> \in OpToRel(<, Nat))
  BY NatLessThanWellFounded, WFMin, Zenon
<1>2. \A y \in Nat : y < x => <<y, x>> \in OpToRel(<, Nat)
  BY DEF OpToRel
<1>3. ASSUME NEW y \in S PROVE x <= y
  <2>1. ~(y < x)
    BY <1>1, <1>2, Zenon
  <2> QED BY <2>1
<1> QED BY <1>3

\* migrate.ts:66.  The loop goes on to a later file that the image has, or past
\* the last one, and passes over none that the image has.
LEMMA AfterIsNext ==
  ASSUME NEW img \in Image, NEW f \in Nat, f <= Last
  PROVE  /\ After(img, f) \in 1..Last + 1
         /\ f < After(img, f)
         /\ After(img, f) \in File => img[After(img, f)] # None
         /\ \A g \in File : f < g /\ g < After(img, f) => img[g] = None
<1> DEFINE later == {g \in File : g > f /\ img[g] # None}
<1>1. CASE later = {}
  <2>1. After(img, f) = Last + 1
    BY <1>1 DEF After
  <2> QED BY <1>1, <2>1 DEF File
<1>2. CASE later # {}
  <2>1. After(img, f) = CHOOSE g \in later : \A h \in later : g <= h
    BY <1>2 DEF After
  <2>2. \E g \in later : \A h \in later : g <= h
    <3>1. later \subseteq Nat
      BY DEF File
    <3> HIDE DEF later
    <3> QED BY <1>2, <3>1, SmallestOf
  <2>3. /\ After(img, f) \in later
        /\ \A h \in later : After(img, f) <= h
    BY <2>1, <2>2
  <2> QED BY <2>3 DEF File
<1> QED BY <1>1, <1>2

-----------------------------------------------------------------------------
(* One runner at a time.                                                   *)

\* The fields of the record of a runner.
LEMMA RunnerFields ==
  ASSUME NEW q \in RunnerState
  PROVE  /\ q.image \in Image /\ q.file \in 1..Last + 1
         /\ q.left \in Nat /\ q.broken \in Nat /\ q.lost \subseteq File
BY DEF RunnerState

\* The files that attempts were lost to can be counted.
LEMMA LostCounts ==
  ASSUME NEW S, S \subseteq File
  PROVE  /\ Cardinality(S) \in Nat
         /\ \A f \in File : f \notin S => Cardinality(S \cup {f}) = Cardinality(S) + 1
<1>1. IsFiniteSet(File)
  BY FS_Interval DEF File
<1>2. IsFiniteSet(S)
  BY <1>1, FS_Subset
<1> QED BY <1>2, FS_CardinalityType, FS_AddElement

\* The record of a runner that goes back to looking up a file.
LEMMA LooksUp ==
  ASSUME NEW q \in RunnerState, NEW f, NEW n
  PROVE  /\ [q EXCEPT !.pc = "look", !.file = f] =
              [pc |-> "look", image |-> q.image, file |-> f, left |-> q.left,
               lost |-> q.lost, broken |-> q.broken]
         /\ [q EXCEPT !.pc = "look", !.file = f, !.left = n] =
              [pc |-> "look", image |-> q.image, file |-> f, left |-> n,
               lost |-> q.lost, broken |-> q.broken]
<1> DEFINE p == [pc |-> "look", image |-> q.image, file |-> q.file, left |-> q.left,
                 lost |-> q.lost, broken |-> q.broken]
           g == [pc |-> "look", image |-> q.image, file |-> f, left |-> q.left,
                 lost |-> q.lost, broken |-> q.broken]
<1>1. [q EXCEPT !.pc = "look"] = p
  BY DEF RunnerState
<1>2. [p EXCEPT !.file = f] = g
  OBVIOUS
<1>3. [g EXCEPT !.left = n] =
        [pc |-> "look", image |-> q.image, file |-> f, left |-> n,
         lost |-> q.lost, broken |-> q.broken]
  OBVIOUS
<1> QED BY <1>1, <1>2, <1>3

\* What a step of r leaves alone or extends: other runners, records, applied.
Grows(r) ==
  /\ runner' \in [Runner -> RunnerState]
  /\ \A q \in Runner : q # r => runner'[q] = runner[q]
  /\ applied \subseteq applied'
  /\ \A f \in File : records[f] # None => records'[f] = records[f]

\* A mismatch is for good: the image of a Job is fixed, and so is a record.
LEMMA MismatchStays ==
  ASSUME NEW q, Mismatch(q), runner'[q].image = runner[q].image,
         \A f \in File : records[f] # None => records'[f] = records[f]
  PROVE  Mismatch(q)'
BY DEF Mismatch

\* What another runner has established outlasts a step of r.
LEMMA OthersKept ==
  ASSUME IInv, NEW r, Grows(r), NEW q \in Runner, q # r
  PROVE  AtWork(q)' /\ ToBeRecorded(q)' /\ AtEnd(q)' /\ Accounted(q)'
<1>1. runner'[q] = runner[q]
  BY DEF Grows
<1>2. AtWork(q) /\ ToBeRecorded(q) /\ AtEnd(q) /\ Accounted(q)
  BY DEF IInv
<1>3. ASSUME NEW f, RecordedBefore(q, f) PROVE RecordedBefore(q, f)'
  <2> SUFFICES ASSUME NEW g \in File, g < f
               PROVE  runner'[q].image[g] \in {None, records'[g]}
    BY DEF RecordedBefore
  <2>1. runner[q].image[g] \in {None, records[g]}
    BY <1>3 DEF RecordedBefore
  <2> QED BY <1>1, <2>1 DEF Grows
<1>4. AtWork(q)'
  BY <1>1, <1>2, <1>3 DEF AtWork, Current, Wanted
<1>5. ToBeRecorded(q)'
  BY <1>1, <1>2 DEF ToBeRecorded, Current, Wanted, Grows
<1>6. AtEnd(q)'
  BY <1>1, <1>2, <1>3 DEF AtEnd
<1>7. Accounted(q)'
  <2>1. \A f \in runner[q].lost : records'[f] # None
    <3>1. runner[q].lost \subseteq File
      BY DEF IInv, TypeOK, RunnerState
    <3> QED BY <1>2, <3>1 DEF Accounted, Grows
  <2>2. Mismatch(q) => Mismatch(q)'
    BY <1>1, MismatchStays DEF Grows
  <2> QED BY <1>1, <1>2, <2>1, <2>2 DEF Accounted, Spent, OutOfAttempts, Current
<1> QED BY <1>4, <1>5, <1>6, <1>7

\* What r itself has to establish, for its own part.
OwnPart(r) == AtWork(r) /\ ToBeRecorded(r) /\ AtEnd(r) /\ Accounted(r)

\* A step of r that grows what is there, keeps records truthful and leaves r
\* with its own part keeps the invariant.
LEMMA RunnerStep ==
  ASSUME IInv, NEW r \in Runner, Grows(r), OwnPart(r)', RecordedWasApplied',
         records' \in Image, applied' \subseteq File \X Content,
         image' = image, edits' = edits, faults' \in 0..MaxFaults
  PROVE  IInv'
<1>1. TypeOK'
  BY DEF IInv, TypeOK, Grows
<1>2. ASSUME NEW q \in Runner PROVE AtWork(q)' /\ ToBeRecorded(q)' /\ AtEnd(q)' /\ Accounted(q)'
  <2>1. CASE q = r
    BY <2>1 DEF OwnPart
  <2>2. CASE q # r
    BY <2>2, OthersKept
  <2> QED BY <2>1, <2>2
<1> QED BY <1>1, <1>2 DEF IInv

\* The record of a Job at the beginning of an image.
AtBeginning(r, img) ==
  /\ runner'[r] \in RunnerState
  /\ runner'[r].pc = "look"
  /\ runner'[r].image = img
  /\ runner'[r].file = After(img, 0)

\* A runner that starts an image from its first file has nothing behind it.
LEMMA BeginningIsFine ==
  ASSUME NEW r \in Runner, NEW img \in Image, AtBeginning(r, img), Accounted(r)'
  PROVE  OwnPart(r)'
<1>1. /\ After(img, 0) \in 1..Last + 1
      /\ After(img, 0) \in File => img[After(img, 0)] # None
      /\ \A g \in File : g < After(img, 0) => img[g] = None
  <2>1. 0 <= Last
    OBVIOUS
  <2>2. \A g \in File : 0 < g
    BY DEF File
  <2> QED BY <2>1, <2>2, AfterIsNext
<1>2. RecordedBefore(r, runner[r].file)'
  BY <1>1 DEF RecordedBefore, AtBeginning
<1>3. AtWork(r)'
  BY <1>1, <1>2 DEF AtWork, AtBeginning, Current, Wanted
<1> QED BY <1>3 DEF OwnPart, ToBeRecorded, AtEnd, AtBeginning

\* The record of a Job whose attempt ends, with what ended it on the account.
Charged(r, job) ==
  /\ job \in [pc : PC, image : Image, file : 1..Last + 1, left : 0..Attempts,
              lost : SUBSET File, broken : Nat]
  /\ job.image = runner[r].image
  /\ \A f \in job.lost : records[f] # None
  /\ Cardinality(job.lost) + job.broken + job.left <= Attempts
  /\ Mismatch(r) \/ Cardinality(job.lost) + job.broken + job.left = Attempts

\* A new attempt begins the image again; after the last one the Job has failed.
LEMMA EndAttemptIsFine ==
  ASSUME IInv, NEW r \in Runner, NEW job, Charged(r, job), EndAttempt(r, job),
         records' = records, applied' = applied
  PROVE  Grows(r) /\ OwnPart(r)'
<1>1. /\ runner \in [Runner -> RunnerState]
      /\ job.left \in 0..Attempts /\ job.broken \in Nat /\ job.lost \subseteq File
      /\ job.image \in Image /\ job.file \in 1..Last + 1
  BY DEF IInv, TypeOK, Charged
<1>2. Cardinality(job.lost) \in Nat
  BY <1>1, LostCounts
<1>3. job \in RunnerState
  <2>1. job.broken \in 0..Attempts
    BY <1>1, <1>2 DEF Charged
  <2> QED BY <1>1, <2>1 DEF Charged, RunnerState
<1>4. ASSUME runner'[r].image = job.image PROVE Mismatch(r) => Mismatch(r)'
  BY <1>4, MismatchStays DEF Charged
<1>5. CASE job.left = 0
  <2> DEFINE new == [job EXCEPT !.pc = "failed"]
  <2>1. runner' = [runner EXCEPT ![r] = new]
    BY <1>5 DEF EndAttempt
  <2>2. /\ new \in RunnerState /\ new.pc = "failed" /\ new.image = job.image
        /\ new.lost = job.lost /\ new.broken = job.broken
    BY <1>3 DEF RunnerState, PC
  <2> HIDE DEF new
  <2>3. runner'[r] = new
    BY <1>1, <2>1
  <2>4. Accounted(r)'
    <3>1. Mismatch(r)' \/ OutOfAttempts(r)'
      BY <1>1, <1>2, <1>4, <1>5, <2>2, <2>3 DEF Charged, OutOfAttempts
    <3> QED BY <2>2, <2>3, <3>1 DEF Accounted, Charged, Live
  <2>5. OwnPart(r)'
    BY <2>2, <2>3, <2>4 DEF OwnPart, AtWork, ToBeRecorded, AtEnd, Live
  <2>6. Grows(r)
    BY <1>1, <2>1, <2>2 DEF Grows
  <2> QED BY <2>5, <2>6
<1>6. CASE job.left # 0
  <2> DEFINE new == [job EXCEPT !.pc = "look", !.file = After(job.image, 0), !.left = @ - 1]
  <2>1. runner' = [runner EXCEPT ![r] = new]
    BY <1>6 DEF EndAttempt
  <2>2. After(job.image, 0) \in 1..Last + 1
    <3>1. 0 <= Last
      OBVIOUS
    <3> QED BY <1>1, <3>1, AfterIsNext
  <2>3. job.left - 1 \in 0..Attempts
    BY <1>1, <1>6
  <2>4. new = [pc |-> "look", image |-> job.image, file |-> After(job.image, 0),
               left |-> job.left - 1, lost |-> job.lost, broken |-> job.broken]
    BY <1>3, LooksUp
  <2>5. /\ new \in RunnerState /\ new.pc = "look" /\ new.image = job.image
        /\ new.file = After(job.image, 0) /\ new.left = job.left - 1
        /\ new.lost = job.lost /\ new.broken = job.broken
    BY <1>3, <2>2, <2>3, <2>4 DEF RunnerState, PC
  <2> HIDE DEF new
  <2>6. runner'[r] = new
    BY <1>1, <2>1
  <2>7. Grows(r)
    BY <1>1, <2>1, <2>5 DEF Grows
  <2>8. Accounted(r)'
    <3>1. /\ Spent(r)' + runner'[r].left + 1 <= Attempts
          /\ Mismatch(r)' \/ Spent(r)' + runner'[r].left + 1 = Attempts
      <4>1. Spent(r)' + runner'[r].left + 1 = Cardinality(job.lost) + job.broken + job.left
        BY <1>1, <1>2, <2>5, <2>6 DEF Spent
      <4> QED BY <1>4, <2>5, <2>6, <4>1 DEF Charged
    <3> QED BY <2>5, <2>6, <3>1 DEF Accounted, Charged
  <2>9. AtBeginning(r, job.image)
    BY <2>5, <2>6 DEF AtBeginning
  <2> QED BY <1>1, <2>7, <2>8, <2>9, BeginningIsFine
<1> QED BY <1>1, <1>5, <1>6

\* What a step keeps of the account of r while r goes on with its attempt.
LEMMA AccountKept ==
  ASSUME IInv, NEW r \in Runner, runner[r].pc \in Live,
         runner'[r].pc \in Live \cup {"done"},
         runner'[r].image = runner[r].image, runner'[r].left = runner[r].left,
         runner'[r].lost = runner[r].lost, runner'[r].broken = runner[r].broken,
         runner'[r].pc \in {"apply", "record"} => Current(r)' \notin runner[r].lost,
         \A f \in File : records[f] # None => records'[f] = records[f]
  PROVE  Accounted(r)'
<1>1. Accounted(r)
  BY DEF IInv
<1>2. \A f \in runner[r].lost : records'[f] # None
  <2>1. runner[r].lost \subseteq File
    BY DEF IInv, TypeOK, RunnerState
  <2> QED BY <1>1, <2>1 DEF Accounted
<1>3. Mismatch(r) => Mismatch(r)'
  BY MismatchStays
<1>4. Spent(r)' = Spent(r)
  BY DEF Spent
<1> QED BY <1>1, <1>2, <1>3, <1>4 DEF Accounted, Live

\* A runner goes on from a file only when that is on record as its image has it.
LEMMA MoveOnIsFine ==
  ASSUME IInv, NEW r \in Runner, Current(r) \in File, runner[r].pc \in Live, MoveOn(r),
         \A f \in File : records[f] # None => records'[f] = records[f],
         records'[Current(r)] = Wanted(r), applied' = applied
  PROVE  Grows(r) /\ OwnPart(r)'
<1> DEFINE job == runner[r]
           next == After(job.image, job.file)
<1>1. job \in RunnerState /\ runner \in [Runner -> RunnerState]
  BY DEF IInv, TypeOK
<1>2. runner' = [runner EXCEPT ![r] = [job EXCEPT !.pc = "look", !.file = next]]
  BY <1>1 DEF MoveOn, Current
<1>3. /\ next \in 1..Last + 1
      /\ next \in File => job.image[next] # None
      /\ \A g \in File : job.file < g /\ g < next => job.image[g] = None
  <2>1. job.image \in Image /\ job.file \in File
    BY <1>1, RunnerFields DEF Current
  <2>2. job.file \in Nat /\ job.file <= Last
    BY <2>1 DEF File
  <2> QED BY <2>1, <2>2, AfterIsNext
<1>4. /\ runner'[r] \in RunnerState
      /\ runner'[r].pc = "look"
      /\ runner'[r].image = job.image
      /\ runner'[r].file = next
      /\ runner'[r].left = job.left
      /\ runner'[r].lost = job.lost /\ runner'[r].broken = job.broken
  <2>1. [job EXCEPT !.pc = "look", !.file = next] =
          [pc |-> "look", image |-> job.image, file |-> next, left |-> job.left,
           lost |-> job.lost, broken |-> job.broken]
    BY <1>1, LooksUp
  <2> HIDE DEF next
  <2> QED BY <1>1, <1>2, <1>3, <2>1 DEF RunnerState, PC
<1>5. Grows(r)
  BY <1>1, <1>2, <1>4 DEF Grows
<1>6. RecordedBefore(r, job.file)
  BY DEF IInv, AtWork, Current
<1>7. ASSUME NEW g \in File, g < next
      PROVE  job.image[g] \in {None, records'[g]}
  <2>1. CASE g < job.file
    BY <1>6, <2>1 DEF RecordedBefore
  <2>2. CASE g = job.file
    BY <2>2 DEF Current, Wanted
  <2>3. CASE job.file < g
    BY <1>3, <1>7, <2>3
  <2> QED BY <1>1, <2>1, <2>2, <2>3 DEF File, RunnerState
<1>8. AtWork(r)'
  <2> HIDE DEF next
  <2> QED BY <1>3, <1>4, <1>7 DEF AtWork, RecordedBefore, Current, Wanted
<1>9. Accounted(r)'
  BY <1>4, AccountKept DEF Live
<1> QED BY <1>4, <1>5, <1>8, <1>9 DEF OwnPart, ToBeRecorded, AtEnd

-----------------------------------------------------------------------------
(* The invariant.                                                          *)

LEMMA InitIInv == Init => IInv
<1> SUFFICES ASSUME Init PROVE IInv
  OBVIOUS
<1>1. Empty \in Image /\ \A f \in File : Empty[f] = None
  BY DEF Empty, Image
<1>2. [pc |-> "idle", image |-> Empty, file |-> 1, left |-> 0, lost |-> {}, broken |-> 0]
        \in RunnerState
  BY <1>1 DEF RunnerState, PC
<1>3. TypeOK
  BY <1>1, <1>2 DEF Init, TypeOK
<1>4. RecordedWasApplied
  BY <1>1 DEF Init, RecordedWasApplied
<1>5. \A r \in Runner : AtWork(r) /\ ToBeRecorded(r) /\ AtEnd(r) /\ Accounted(r)
  BY DEF Init, AtWork, ToBeRecorded, AtEnd, Accounted, Live
<1> QED BY <1>3, <1>4, <1>5 DEF IInv

\* A runner that takes a file in hand or puts it down stays at that file.
LEMMA SameFile ==
  ASSUME IInv, NEW r \in Runner, runner[r].pc \in Live, NEW pc \in PC,
         pc \in {"apply", "record"} => Current(r) \in File /\ Current(r) \notin runner[r].lost,
         pc \in Live \cup {"done"},
         runner' = [runner EXCEPT ![r].pc = pc],
         records' = records, applied \subseteq applied'
  PROVE  /\ Grows(r)
         /\ AtWork(r)' /\ Accounted(r)'
         /\ Current(r)' = Current(r) /\ Wanted(r)' = Wanted(r) /\ runner'[r].pc = pc
<1>1. runner[r] \in RunnerState /\ runner \in [Runner -> RunnerState]
  BY DEF IInv, TypeOK
<1>2. /\ runner'[r] = [runner[r] EXCEPT !.pc = pc]
      /\ runner'[r] \in RunnerState
      /\ runner' \in [Runner -> RunnerState]
  BY <1>1 DEF RunnerState
<1>3. /\ runner'[r].pc = pc
      /\ runner'[r].image = runner[r].image
      /\ runner'[r].file = runner[r].file
      /\ runner'[r].left = runner[r].left
      /\ runner'[r].lost = runner[r].lost /\ runner'[r].broken = runner[r].broken
  BY <1>1, <1>2 DEF RunnerState
<1>4. AtWork(r)
  BY DEF IInv
<1>5. AtWork(r)'
  BY <1>3, <1>4 DEF AtWork, RecordedBefore, Current, Wanted, Live
<1>6. Accounted(r)'
  BY <1>3, AccountKept DEF Current
<1> QED BY <1>1, <1>2, <1>3, <1>5, <1>6 DEF Grows, Current, Wanted

-----------------------------------------------------------------------------
(* What ends an attempt, and what the account shows for it.                *)

\* "Migration checksum mismatch": the file of the image is there and differs.
LEMMA RefuseCharges ==
  ASSUME IInv, NEW r \in Runner, Refuse(r)
  PROVE  Charged(r, runner[r])
<1>1. runner[r] \in RunnerState /\ Accounted(r) /\ AtWork(r) /\ runner[r].pc \in Live
  BY DEF IInv, TypeOK, Refuse, At, Live
<1>2. Mismatch(r)
  BY <1>1 DEF AtWork, Refuse, At, Mismatch, Wanted, Current
<1>3. Cardinality(runner[r].lost) \in Nat /\ runner[r].left \in Nat /\ runner[r].broken \in Nat
  BY <1>1, RunnerFields, LostCounts
<1>4. Cardinality(runner[r].lost) + runner[r].broken + runner[r].left <= Attempts
  BY <1>1, <1>3 DEF Accounted, Spent
<1> QED BY <1>1, <1>2, <1>4 DEF Charged, Accounted, RunnerState

\* A lost race is for a file that no attempt of this Job was lost to before.
LEMMA ConflictCharges ==
  ASSUME IInv, NEW r \in Runner, Conflict(r)
  PROVE  Charged(r, [runner[r] EXCEPT !.lost = @ \cup {Current(r)}])
<1> DEFINE job == [runner[r] EXCEPT !.lost = @ \cup {Current(r)}]
<1>1. /\ runner[r] \in RunnerState /\ Accounted(r) /\ runner[r].pc \in Live
      /\ Current(r) \in File /\ Current(r) \notin runner[r].lost /\ records[Current(r)] # None
  BY DEF IInv, TypeOK, Accounted, Conflict, At, Live
<1>2. /\ job.image = runner[r].image /\ job.left = runner[r].left
      /\ job.broken = runner[r].broken /\ job.lost = runner[r].lost \cup {Current(r)}
      /\ job \in RunnerState
  BY <1>1 DEF RunnerState
<1>3. Cardinality(runner[r].lost) \in Nat /\ runner[r].left \in Nat /\ runner[r].broken \in Nat
  BY <1>1, RunnerFields, LostCounts
<1>4. Cardinality(runner[r].lost \cup {Current(r)}) = Cardinality(runner[r].lost) + 1
  BY <1>1, RunnerFields, LostCounts
<1>5. Cardinality(job.lost) + job.broken + job.left = Spent(r) + runner[r].left + 1
  BY <1>2, <1>3, <1>4 DEF Spent
<1>6. job \in [pc : PC, image : Image, file : 1..Last + 1, left : 0..Attempts,
               lost : SUBSET File, broken : Nat]
  BY <1>2 DEF RunnerState
<1> HIDE DEF job
<1>7. \A f \in job.lost : records[f] # None
  BY <1>1, <1>2 DEF Accounted
<1> QED BY <1>1, <1>2, <1>5, <1>6, <1>7 DEF Charged, Accounted, job

LEMMA FailCharges ==
  ASSUME IInv, NEW r \in Runner, Fail(r)
  PROVE  Charged(r, [runner[r] EXCEPT !.broken = @ + 1])
<1> DEFINE job == [runner[r] EXCEPT !.broken = @ + 1]
<1>1. runner[r] \in RunnerState /\ Accounted(r) /\ runner[r].pc \in Live
  BY DEF IInv, TypeOK, Fail
<1>2. Cardinality(runner[r].lost) \in Nat /\ runner[r].left \in Nat /\ runner[r].broken \in Nat
  BY <1>1, RunnerFields, LostCounts
<1>3. /\ job.image = runner[r].image /\ job.left = runner[r].left
      /\ job.broken = runner[r].broken + 1 /\ job.lost = runner[r].lost
  BY <1>1 DEF RunnerState
<1>4. job \in [pc : PC, image : Image, file : 1..Last + 1, left : 0..Attempts,
               lost : SUBSET File, broken : Nat]
  BY <1>1, <1>2 DEF RunnerState
<1> HIDE DEF job
<1>5. Cardinality(job.lost) + job.broken + job.left = Spent(r) + runner[r].left + 1
  BY <1>2, <1>3 DEF Spent
<1> QED BY <1>1, <1>3, <1>4, <1>5 DEF Charged, Accounted, job

LEMMA StepIInv == IInv /\ [Next]_vars => IInv'
<1> SUFFICES ASSUME IInv, [Next]_vars PROVE IInv'
  OBVIOUS
<1>0. TypeOK /\ RecordedWasApplied
  BY DEF IInv
<1>1. ASSUME NEW r \in Runner, StartJob(r) PROVE IInv'
  <2>1. /\ After(image, 0) \in 1..Last + 1
        /\ Attempts - 1 \in 0..Attempts
        /\ image \in Image
    <3>1. image \in Image
      BY <1>0 DEF TypeOK
    <3>2. 0 <= Last
      OBVIOUS
    <3> QED BY <3>1, <3>2, AfterIsNext
  <2>2. runner'[r] = [pc |-> "look", image |-> image, file |-> After(image, 0),
                      left |-> Attempts - 1, lost |-> {}, broken |-> 0]
    BY <1>0, <1>1 DEF StartJob, TypeOK
  <2>3. AtBeginning(r, image) /\ Grows(r)
    <3>1. runner'[r] \in RunnerState
      BY <2>1, <2>2 DEF RunnerState, PC
    <3> QED BY <1>0, <1>1, <2>2, <3>1 DEF AtBeginning, Grows, StartJob, TypeOK
  <2>4. Accounted(r)'
    <3>1. Spent(r)' + runner'[r].left + 1 = Attempts
      BY <2>2, FS_EmptySet DEF Spent
    <3> QED BY <2>2, <3>1 DEF Accounted
  <2>5. OwnPart(r)'
    BY <2>1, <2>3, <2>4, BeginningIsFine
  <2> QED BY <1>0, <1>1, <2>3, <2>5, RunnerStep DEF StartJob, RecordedWasApplied, TypeOK
<1>2. ASSUME NEW r \in Runner, Skip(r) PROVE IInv'
  <2>1. Grows(r) /\ OwnPart(r)'
    BY <1>2, MoveOnIsFine DEF Skip, At, Live
  <2> QED BY <1>0, <1>2, <2>1, RunnerStep DEF Skip, RecordedWasApplied, TypeOK
<1>3. ASSUME NEW r \in Runner, Refuse(r) \/ Conflict(r) PROVE IInv'
  <2>1. Grows(r) /\ OwnPart(r)'
    BY <1>3, RefuseCharges, ConflictCharges, EndAttemptIsFine DEF Refuse, Conflict
  <2> QED BY <1>0, <1>3, <2>1, RunnerStep DEF Refuse, Conflict, RecordedWasApplied, TypeOK
<1>4. ASSUME NEW r \in Runner, Begin(r) PROVE IInv'
  <2>1. Current(r) \in File /\ Current(r) \notin runner[r].lost
    BY <1>4 DEF IInv, Accounted, Begin, At
  <2>2. Grows(r) /\ AtWork(r)' /\ Accounted(r)' /\ runner'[r].pc = "apply"
    BY <1>4, <2>1, SameFile DEF Begin, At, Live, PC
  <2>3. OwnPart(r)'
    BY <2>2 DEF OwnPart, ToBeRecorded, AtEnd
  <2> QED BY <1>0, <1>4, <2>2, <2>3, RunnerStep DEF Begin, RecordedWasApplied, TypeOK
<1>5. ASSUME NEW r \in Runner, Apply(r) PROVE IInv'
  <2>1. /\ Grows(r) /\ AtWork(r)' /\ Accounted(r)'
        /\ Current(r)' = Current(r) /\ Wanted(r)' = Wanted(r)
        /\ runner'[r].pc = "record"
    <3>1. Current(r) \in File /\ Current(r) \notin runner[r].lost
      BY <1>5 DEF IInv, Accounted, Apply, At
    <3> QED BY <1>5, <3>1, SameFile DEF Apply, At, Live, PC
  <2>2. OwnPart(r)'
    BY <1>5, <2>1 DEF Apply, OwnPart, ToBeRecorded, AtEnd
  <2>3. <<Current(r), Wanted(r)>> \in File \X Content
    BY <1>0, <1>5 DEF IInv, AtWork, Apply, At, Live, Wanted, TypeOK, RunnerState, Image
  <2>4. applied' \subseteq File \X Content
    BY <1>0, <1>5, <2>3 DEF Apply, TypeOK
  <2> QED BY <1>0, <1>5, <2>1, <2>2, <2>4, RunnerStep DEF Apply, RecordedWasApplied, TypeOK
<1>6. ASSUME NEW r \in Runner, Record(r) PROVE IInv'
  <2>1. /\ Current(r) \in File
        /\ runner[r].pc \in Live
        /\ records[Current(r)] = None
        /\ records' = [records EXCEPT ![Current(r)] = Wanted(r)]
    BY <1>6 DEF Record, At, Live
  <2>2. Wanted(r) \in Content /\ <<Current(r), Wanted(r)>> \in applied
    BY <1>0, <1>6, <2>1 DEF IInv, AtWork, ToBeRecorded, Record, At, Wanted, TypeOK, RunnerState, Image
  <2>3. records' \in Image /\ records'[Current(r)] = Wanted(r)
    BY <1>0, <2>1, <2>2 DEF TypeOK, Image
  <2>4. \A f \in File : records[f] # None => records'[f] = records[f]
    BY <1>0, <2>1 DEF TypeOK, Image
  <2>5. Grows(r) /\ OwnPart(r)'
    BY <1>6, <2>1, <2>3, <2>4, MoveOnIsFine DEF Record
  <2>6. RecordedWasApplied'
    BY <1>0, <1>6, <2>1, <2>2 DEF RecordedWasApplied, Record, TypeOK, Image
  <2> QED BY <1>0, <1>6, <2>3, <2>5, <2>6, RunnerStep DEF Record, TypeOK
<1>7. ASSUME NEW r \in Runner, Finish(r) PROVE IInv'
  <2>1. Grows(r) /\ Accounted(r)' /\ Current(r)' = Current(r) /\ runner'[r].pc = "done"
    BY <1>7, SameFile DEF Finish, Live, PC
  <2>2. RecordedBefore(r, Last + 1)
    BY <1>7 DEF IInv, AtWork, Finish, Live
  <2>3. RecordedBefore(r, Last + 1)'
    BY <1>0, <1>7, <2>2 DEF RecordedBefore, Finish, TypeOK, RunnerState
  <2>4. OwnPart(r)'
    BY <2>1, <2>3 DEF OwnPart, AtWork, ToBeRecorded, AtEnd, Live
  <2> QED BY <1>0, <1>7, <2>1, <2>4, RunnerStep DEF Finish, RecordedWasApplied, TypeOK
<1>8. ASSUME NEW r \in Runner, Fail(r) PROVE IInv'
  <2>1. Grows(r) /\ OwnPart(r)'
    BY <1>8, FailCharges, EndAttemptIsFine DEF Fail
  <2>2. faults' \in 0..MaxFaults
    BY <1>0, <1>8 DEF Fail, TypeOK
  <2> QED BY <1>0, <1>8, <2>1, <2>2, RunnerStep DEF Fail, RecordedWasApplied, TypeOK
<1>9. ASSUME NEW f \in File, NEW c \in Content, Release(f, c) PROVE IInv'
  <2>1. TypeOK'
    <3>1. edits' \in 0..MaxEdits
      BY <1>0, <1>9 DEF Release, TypeOK
    <3>2. image' \in Image
      BY <1>0, <1>9 DEF Release, TypeOK, Image
    <3> QED BY <1>0, <1>9, <3>1, <3>2 DEF Release, TypeOK
  <2>2. ASSUME NEW r \in Runner PROVE AtWork(r)' /\ ToBeRecorded(r)' /\ AtEnd(r)' /\ Accounted(r)'
    BY <1>9 DEF IInv, Release, AtWork, ToBeRecorded, AtEnd, Accounted, Spent, Mismatch,
                OutOfAttempts, RecordedBefore, Current, Wanted
  <2> QED BY <1>0, <1>9, <2>1, <2>2 DEF IInv, Release, RecordedWasApplied
<1>10. CASE UNCHANGED vars
  <2>1. TypeOK' /\ RecordedWasApplied'
    BY <1>0, <1>10 DEF vars, TypeOK, RecordedWasApplied
  <2>2. ASSUME NEW r \in Runner PROVE AtWork(r)' /\ ToBeRecorded(r)' /\ AtEnd(r)' /\ Accounted(r)'
    BY <1>10 DEF IInv, vars, AtWork, ToBeRecorded, AtEnd, Accounted, Spent, Mismatch,
                 OutOfAttempts, RecordedBefore, Current, Wanted
  <2> QED BY <2>1, <2>2 DEF IInv
<1> QED BY <1>1, <1>2, <1>3, <1>4, <1>5, <1>6, <1>7, <1>8, <1>9, <1>10 DEF Next, Step

-----------------------------------------------------------------------------
(* The theorems.                                                           *)

THEOREM Invariance == Spec => []IInv
BY InitIInv, StepIInv, PTL DEF Spec

\* The tables and the runners keep their types in every behaviour.
THEOREM TypeCorrect == Spec => []TypeOK
<1>1. IInv => TypeOK
  BY DEF IInv
<1> QED BY <1>1, Invariance, PTL

\* migrate.ts:84.  A content on record has been executed, whatever stopped
\* between the two statements or ran beside them.
THEOREM RecordsAreTrue == Spec => []RecordedWasApplied
<1>1. IInv => RecordedWasApplied
  BY DEF IInv
<1> QED BY <1>1, Invariance, PTL

\* migrate.ts:76.  A runner that has succeeded leaves the files of its image on
\* record with the content it has, for good.
THEOREM SuccessMeansRecorded == Spec => []DoneMeansRecorded
<1>1. IInv => DoneMeansRecorded
  <2> SUFFICES ASSUME IInv, NEW r \in Runner, runner[r].pc = "done", NEW f \in File
               PROVE  runner[r].image[f] \in {None, records[f]}
    BY DEF DoneMeansRecorded
  <2>1. RecordedBefore(r, Last + 1)
    BY DEF IInv, AtEnd
  <2>2. f < Last + 1
    BY DEF File
  <2> QED BY <2>1, <2>2 DEF RecordedBefore
<1> QED BY <1>1, Invariance, PTL

\* migrate.ts:62, migration-job.yaml:7.  A Job whose files agree with the record
\* fails only after as many faults and lost races for different files as it has
\* attempts, however many runners overlap.
THEOREM AttemptsWellSpent == Spec => []GivesUpRightly
<1>1. IInv => GivesUpRightly
  BY DEF IInv, Accounted, GivesUpRightly
<1> QED BY <1>1, Invariance, PTL

\* migrate.ts:66.  Whenever a file is executed, those before it in the same
\* image are on record, in the first attempt and in every later one.
THEOREM AppliedInOrder == Spec => InOrder
<1>1. IInv => \A r \in Runner : Apply(r) =>
                \A f \in File : f < Current(r) => runner[r].image[f] \in {None, records[f]}
  BY DEF IInv, AtWork, RecordedBefore, Apply, At, Live
<1> QED BY <1>1, Invariance, PTL DEF InOrder
=============================================================================
