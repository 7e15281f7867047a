----------------------------- MODULE Migrations -----------------------------
(***************************************************************************)
(* The migration runner of user-management (scripts/migrate.ts), as the    *)
(* Jobs of k8s/migration-job.yaml run it.                                  *)
(*                                                                         *)
(* A runner looks up each file of its image in schema_migrations, applies  *)
(* it if it is not there, and records it.  These are three transactions,   *)
(* and nothing keeps two runners apart: between any two of them the runner *)
(* may stop, or another one, of the same release or another, may step in.  *)
(***************************************************************************)
EXTENDS Naturals, FiniteSets

CONSTANTS
  Last,       \* number of file names, in the order in which they are applied
  Content,    \* contents of files, as their checksums tell them apart
  Runner,     \* Jobs, and runs by hand, that may overlap
  None,       \* no file, no record
  Attempts,   \* backoffLimit + 1
  MaxEdits,   \* bound of the releases
  MaxFaults   \* bound of the failed statements and lost pods

File == 1..Last

ASSUME MigrationsAssumption ==
  /\ None \notin Content
  /\ {Last, Attempts} \subseteq Nat \ {0}
  /\ {MaxEdits, MaxFaults} \subseteq Nat

VARIABLES
  image,    \* migrations/ as released last
  records,  \* schema_migrations
  applied,  \* the contents that have been executed on the database
  runner,   \* what each runner is doing
  edits, faults

vars == <<image, records, applied, runner, edits, faults>>

Image == [File -> Content \cup {None}]

PC == {"idle", "look", "apply", "record", "done", "failed"}
Live == {"look", "apply", "record"}

\* file: the next one; Last + 1 after the last.  left: attempts of the Job.
\* lost, broken: the files at which its attempts ended because another runner
\* had been faster, and the number of those that a fault ended (history).
RunnerState ==
  [pc : PC, image : Image, file : 1..Last + 1, left : 0..Attempts,
   lost : SUBSET File, broken : 0..Attempts]

TypeOK ==
  /\ image \in Image /\ records \in Image
  /\ applied \subseteq File \X Content
  /\ runner \in [Runner -> RunnerState]
  /\ edits \in 0..MaxEdits /\ faults \in 0..MaxFaults

Empty == [f \in File |-> None]

Init ==
  /\ image = Empty /\ records = Empty /\ applied = {}
  /\ runner = [r \in Runner |-> [pc |-> "idle", image |-> Empty, file |-> 1, left |-> 0,
                                lost |-> {}, broken |-> 0]]
  /\ edits = 0 /\ faults = 0

-----------------------------------------------------------------------------
\* A release adds a file, or changes one against the rules.
Release(f, c) ==
  /\ edits < MaxEdits
  /\ image[f] # c
  /\ image' = [image EXCEPT ![f] = c]
  /\ edits' = edits + 1
  /\ UNCHANGED <<records, applied, runner, faults>>

\* Mutant: the loop runs over the names in a circle.
AfterWrapping(img, f) ==
  LET later == {g \in File : g > f /\ img[g] # None} IN
  IF later = {} THEN 0 ELSE CHOOSE g \in later : \A h \in later : g <= h

\* The first file of the image after f.
After(img, f) ==
  LET later == {g \in File : g > f /\ img[g] # None} IN
  IF later = {} THEN Last + 1 ELSE CHOOSE g \in later : \A h \in later : g <= h

Current(r) == runner[r].file
Wanted(r) == runner[r].image[Current(r)]

At(r, pc) == runner[r].pc = pc /\ Current(r) \in File

\* A Job is created from the latest image; one that ended may be run anew.
StartJob(r) ==
  /\ runner[r].pc \notin Live
  /\ runner' = [runner EXCEPT ![r] = [pc |-> "look", image |-> image,
                                      file |-> After(image, 0), left |-> Attempts - 1,
                                      lost |-> {}, broken |-> 0]]
  /\ UNCHANGED <<image, records, applied, edits, faults>>

\* The process ends with an error; the Job starts the same image again.
EndAttempt(r, job) ==
  runner' = [runner EXCEPT ![r] =
               IF job.left = 0 THEN [job EXCEPT !.pc = "failed"]
               ELSE [job EXCEPT !.pc = "look", !.file = After(job.image, 0), !.left = @ - 1]]

MoveOn(r) == runner' = [runner EXCEPT ![r].pc = "look",
                                      ![r].file = After(runner[r].image, Current(r))]

\* "Already applied".
Skip(r) ==
  /\ At(r, "look") /\ records[Current(r)] = Wanted(r)
  /\ MoveOn(r)
  /\ UNCHANGED <<image, records, applied, edits, faults>>

\* Mutant: a file that is on record is an error, whatever its checksum.
RefuseKnown(r) ==
  /\ At(r, "look") /\ records[Current(r)] # None
  /\ EndAttempt(r, runner[r])
  /\ UNCHANGED <<image, records, applied, edits, faults>>

\* "Migration checksum mismatch".
Refuse(r) ==
  /\ At(r, "look") /\ records[Current(r)] \notin {None, Wanted(r)}
  /\ EndAttempt(r, runner[r])
  /\ UNCHANGED <<image, records, applied, edits, faults>>

\* Mutant: the file is recorded and not executed.
BeginRecording(r) ==
  /\ At(r, "look") /\ records[Current(r)] = None
  /\ runner' = [runner EXCEPT ![r].pc = "record"]
  /\ UNCHANGED <<image, records, applied, edits, faults>>

\* Mutant: the file is executed without being looked up.
BeginUnasked(r) ==
  /\ At(r, "look")
  /\ runner' = [runner EXCEPT ![r].pc = "apply"]
  /\ UNCHANGED <<image, records, applied, edits, faults>>

Begin(r) ==
  /\ At(r, "look") /\ records[Current(r)] = None
  /\ runner' = [runner EXCEPT ![r].pc = "apply"]
  /\ UNCHANGED <<image, records, applied, edits, faults>>

\* A file is sent as one query: it is one transaction, its own or implicit.
Apply(r) ==
  /\ At(r, "apply")
  /\ applied' = applied \cup {<<Current(r), Wanted(r)>>}
  /\ runner' = [runner EXCEPT ![r].pc = "record"]
  /\ UNCHANGED <<image, records, edits, faults>>

Record(r) ==
  /\ At(r, "record") /\ records[Current(r)] = None
  /\ records' = [records EXCEPT ![Current(r)] = Wanted(r)]
  /\ MoveOn(r)
  /\ UNCHANGED <<image, applied, edits, faults>>

\* Mutant: INSERT ... ON CONFLICT DO NOTHING.
ConflictIgnored(r) ==
  /\ At(r, "record") /\ records[Current(r)] # None
  /\ MoveOn(r)
  /\ UNCHANGED <<image, records, applied, edits, faults>>

\* Another runner has recorded the file: its name is the primary key.
Conflict(r) ==
  /\ At(r, "record") /\ records[Current(r)] # None
  /\ EndAttempt(r, [runner[r] EXCEPT !.lost = @ \cup {Current(r)}])
  /\ UNCHANGED <<image, records, applied, edits, faults>>

Finish(r) ==
  /\ runner[r].pc = "look" /\ Current(r) = Last + 1
  /\ runner' = [runner EXCEPT ![r].pc = "done"]
  /\ UNCHANGED <<image, records, applied, edits, faults>>

\* Mutant: the error is caught inside the loop.
FailGoingOn(r) ==
  /\ runner[r].pc \in Live /\ Current(r) \in File
  /\ faults < MaxFaults /\ faults' = faults + 1
  /\ MoveOn(r)
  /\ UNCHANGED <<image, records, applied, edits>>

\* A statement fails, two runners disturb each other's DDL, or the pod is lost.
Fail(r) ==
  /\ runner[r].pc \in Live
  /\ faults < MaxFaults /\ faults' = faults + 1
  /\ EndAttempt(r, [runner[r] EXCEPT !.broken = @ + 1])
  /\ UNCHANGED <<image, records, applied, edits>>

-----------------------------------------------------------------------------
Step(r) == \/ Skip(r) \/ Refuse(r) \/ Begin(r) \/ Apply(r)
           \/ Record(r) \/ Conflict(r) \/ Finish(r)

Next == \/ \E r \in Runner : StartJob(r) \/ Step(r) \/ Fail(r)
        \/ \E f \in File, c \in Content : Release(f, c)

Spec == Init /\ [][Next]_vars

\* A process that runs goes on; a Job starts its next attempt by itself.
FairSpec == Spec /\ \A r \in Runner : WF_vars(Step(r))
-----------------------------------------------------------------------------
(* Properties.                                                             *)

\* operations.md: "Apply migrations before switching application traffic".  A
\* content on record has been executed, whatever stopped or overlapped.
RecordedWasApplied ==
  \A f \in File : records[f] # None => <<f, records[f]>> \in applied

\* operations.md: "It refuses to continue if an already-applied migration was
\* edited".  A runner that succeeds has found or left every file of its image
\* on record with the content it has, also if another release ran beside it.
DoneMeansRecorded ==
  \A r \in Runner : runner[r].pc = "done" =>
    \A f \in File : runner[r].image[f] \in {None, records[f]}

\* Files are applied in order: when one is executed, all before it in the same
\* image are on record, although attempts fail and start again.
InOrder ==
  [][\A r \in Runner : Apply(r) =>
       \A f \in File : f < Current(r) => runner[r].image[f] \in {None, records[f]}]_vars

\* A file of the runner's image is on record with another content.
Mismatch(r) ==
  \E f \in File : runner[r].image[f] # None /\ records[f] \notin {None, runner[r].image[f]}

\* Each attempt of the Job has met a fault or has lost the race for a file of its own.
OutOfAttempts(r) == Cardinality(runner[r].lost) + runner[r].broken = Attempts

\* migration-job.yaml: "backoffLimit: 3".  A Job whose files agree with the record
\* loses at most one attempt to each of them, however many runners overlap: it
\* fails only when as many faults and races for different files as it has
\* attempts have ended them.  (Four files and four attempts let it fail so.)
GivesUpRightly ==
  \A r \in Runner : runner[r].pc = "failed" => Mismatch(r) \/ OutOfAttempts(r)

\* local-kubernetes.md: "an idempotent migration Job".  A Job ends, and ends well,
\* after crashes between a file and its record and beside other runners, unless
\* a file it has differs from the record or it is out of attempts as above.
JobSucceeds ==
  \A r \in Runner :
    runner[r].pc \in Live ~>
      \/ runner[r].pc = "done"
      \/ runner[r].pc = "failed" /\ OutOfAttempts(r)
      \/ Mismatch(r)
=============================================================================
