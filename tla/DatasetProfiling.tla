-------------------------- MODULE DatasetProfiling --------------------------
(***************************************************************************)
(* Profiling of a session's dataset (event/handlers/pipeline_events.py,    *)
(* lifecycle.py, risk_checks.py, exec/profile.py). DataExists takes a lock *)
(* profiling:lock:{did}:{session} (SET NX EX 600) and submits a job, or    *)
(* leaves a rerun flag when the lock is taken. The job waits for the       *)
(* user's column answers and reads them and the others; its completion     *)
(* handler merges the result into the session meta document (a GET and a   *)
(* SET with awaits between), fills in missing columns, deletes the lock    *)
(* and turns a rerun flag into a new DataExists. A claimer that finds the  *)
(* entry of the job pending for 60 s runs it a second time, beside an      *)
(* execution that still waits for the user. Answers, column edits and an   *)
(* accepted mitigation, which replaces the dataset, arrive meanwhile. One  *)
(* action is one Redis command or one that follows it without an await; of *)
(* the meta document the dataset block is kept.                            *)
(***************************************************************************)
EXTENDS Integers, FiniteSets

CONSTANTS
  Datasets, First,       \* dataset ids, and the one the session starts with
  NoProfile,             \* the profile of a dataset not yet profiled
  Jobs, Forms,           \* executions of jobs and feedback submissions that can be under way
  MaxEvents              \* bound: reconnects that find no profile, requests to edit the
                         \* columns, takeovers and faults (expired keys, failed submissions,
                         \* failed and lost jobs), together

ASSUME ConstantsAssumption ==
  /\ First \in Datasets /\ IsFiniteSet(Datasets) /\ IsFiniteSet(Jobs) /\ IsFiniteSet(Forms)
  /\ MaxEvents \in Nat
  /\ NoProfile \notin [did : Datasets, answers : Nat]

VARIABLES
  meta,       \* the dataset block of the meta document: its did and its profile
  answers,    \* version of the answer keys dataset:{did}:* of each dataset, one SET apart
  columns,    \* dataset:{did}:{feature,target}_columns: absent, guessed or the user's
  lock,       \* datasets whose profiling lock exists
  rerun,      \* datasets whose rerun flag exists
  exists,     \* DataExists events not yet handled
  refused,    \* handlers of DataExists whose SET NX failed and that have yet to SET rerun
  job,        \* executions of profile jobs, from the lock to its release
  form,       \* handlers of FeedbackReceived
  mitig,      \* the handler of an accepted dataset mitigation
  lost,       \* has an execution, or its completion, vanished?
  seeds, edits, takeovers, faults

counts == <<lost, seeds, edits, takeovers, faults>>
vars == <<meta, answers, columns, lock, rerun, exists, refused, job, form, mitig, counts>>

\* The two column keys, and one for all the other answers, which a form always has.
ColumnKeys == {"features", "target"}
Keys == ColumnKeys \cup {"others"}

\* A profile has at least the answers that were there when its job began to read them.
Profiles == {NoProfile} \cup [did : Datasets, answers : Nat]
Docs == [did : Datasets, profile : Profiles]

\* "taken" holds the lock, "queued" is in exec:jobs, "running" polls for the features,
\* "reading" has them and polls for the target and reads the rest, "profiled" awaits its
\* completion handler, "merging" has read meta, "merged" has stored it, "guessing" found
\* no column answer, "guessed" has set the features, "mirroring" has set the target and
\* read meta to add the guess, "closing" deletes the lock, "released" reads the rerun flag.
JobStages == {"free", "taken", "queued", "running", "reading", "profiled", "merging",
              "merged", "guessing", "guessed", "mirroring", "closing", "released"}
InFlight == JobStages \ {"free", "released"}
Unread == {"taken", "queued", "running"}

StartDoc == [did |-> First, profile |-> NoProfile]
NoJob == [at |-> "free", did |-> First, answers |-> 0, ok |-> TRUE, doc |-> StartDoc]

Job == [at : JobStages, did : Datasets, answers : Nat, ok : BOOLEAN, doc : Docs]
Form == [at : {"new", "answering", "editing", "saved", "done"}, did : Datasets,
         left : SUBSET Keys, doc : Docs]
Mitig == [at : {"none", "computing", "features", "target", "others", "emitting", "done"},
          old : Datasets, new : Datasets]
NewForm == [at |-> "new", did |-> First, left |-> {}, doc |-> StartDoc]

TypeOK ==
  /\ meta \in Docs /\ answers \in [Datasets -> Nat]
  /\ columns \in [Datasets -> [ColumnKeys -> {"absent", "guessed", "user"}]]
  /\ lock \subseteq Datasets /\ rerun \subseteq Datasets
  /\ exists \in [Datasets -> Nat] /\ refused \in [Datasets -> Nat]
  /\ job \in [Jobs -> Job] /\ form \in [Forms -> Form] /\ mitig \in Mitig
  /\ lost \in BOOLEAN /\ seeds \in Nat /\ edits \in Nat /\ takeovers \in Nat /\ faults \in Nat

Init ==
  /\ meta = StartDoc /\ answers = [d \in Datasets |-> 0]
  /\ columns = [d \in Datasets |-> [k \in ColumnKeys |-> "absent"]]
  /\ lock = {} /\ rerun = {}
  /\ exists = [d \in Datasets |-> IF d = First THEN 1 ELSE 0]
  /\ refused = [d \in Datasets |-> 0]
  /\ job = [j \in Jobs |-> NoJob]
  /\ form = [f \in Forms |-> NewForm]
  /\ mitig = [at |-> "none", old |-> First, new |-> First]
  /\ lost = FALSE /\ seeds = 0 /\ edits = 0 /\ takeovers = 0 /\ faults = 0

\* Bound: there is room for one more event.
Room == seeds + edits + takeovers + faults < MaxEvents

\* aemit of DataExists.
EmitExists(d) == exists' = [exists EXCEPT ![d] = @ + 1]
Move(j, at) == job' = [job EXCEPT ![j].at = at]

-----------------------------------------------------------------------------
(* DataExists: the lock and the submission *)

\* check_data takes no account of the lock (faulty).
CheckDataUnlocked(d, j) ==
  /\ exists[d] > 0 /\ job[j].at = "free"
  /\ exists' = [exists EXCEPT ![d] = @ - 1]
  /\ lock' = lock \cup {d}
  /\ job' = [job EXCEPT ![j].at = "taken", ![j].did = d]
  /\ UNCHANGED <<meta, answers, columns, rerun, refused, form, mitig, counts>>

\* check_data finds the lock free (SET NX) and spawns _run_profiling.
CheckData(d, j) ==
  /\ exists[d] > 0 /\ d \notin lock /\ job[j].at = "free"
  /\ exists' = [exists EXCEPT ![d] = @ - 1]
  /\ lock' = lock \cup {d}
  /\ job' = [job EXCEPT ![j].at = "taken", ![j].did = d]
  /\ UNCHANGED <<meta, answers, columns, rerun, refused, form, mitig, counts>>

\* check_data finds it taken ...
CheckDataLocked(d) ==
  /\ exists[d] > 0 /\ d \in lock
  /\ exists' = [exists EXCEPT ![d] = @ - 1]
  /\ refused' = [refused EXCEPT ![d] = @ + 1]
  /\ UNCHANGED <<meta, answers, columns, lock, rerun, job, form, mitig, counts>>

\* ... and forgets it (faulty).
DropRerun(d) ==
  /\ refused[d] > 0
  /\ refused' = [refused EXCEPT ![d] = @ - 1]
  /\ UNCHANGED <<meta, answers, columns, lock, rerun, exists, job, form, mitig, counts>>

\* ... and leaves the rerun flag, whatever became of the lock in between.
QueueRerun(d) ==
  /\ refused[d] > 0
  /\ refused' = [refused EXCEPT ![d] = @ - 1]
  /\ rerun' = rerun \cup {d}
  /\ UNCHANGED <<meta, answers, columns, lock, exists, job, form, mitig, counts>>

SubmitJob(j) ==
  /\ job[j].at = "taken" /\ Move(j, "queued")
  /\ UNCHANGED <<meta, answers, columns, lock, rerun, exists, refused, form, mitig, counts>>

\* The XADD fails: the lock and a rerun flag are deleted.
SubmitFails(j) ==
  /\ job[j].at = "taken" /\ Room
  /\ faults' = faults + 1
  /\ lock' = lock \ {job[j].did} /\ rerun' = rerun \ {job[j].did}
  /\ job' = [job EXCEPT ![j] = NoJob]
  /\ UNCHANGED <<meta, answers, columns, exists, refused, form, mitig,
                 lost, seeds, edits, takeovers>>

-----------------------------------------------------------------------------
(* The profile job *)

StartJob(j) ==
  /\ job[j].at = "queued" /\ Move(j, "running")
  /\ UNCHANGED <<meta, answers, columns, lock, rerun, exists, refused, form, mitig, counts>>

\* A claimer takes the entry over and runs it as well: it was pending for 60 s because j
\* waits for the user, or because the worker died before it acknowledged it.
TakeOver(j, k) ==
  /\ job[j].at \notin {"free", "taken", "queued"} /\ job[k].at = "free"
  /\ Room
  /\ takeovers' = takeovers + 1
  /\ job' = [job EXCEPT ![k].at = "running", ![k].did = job[j].did]
  /\ UNCHANGED <<meta, answers, columns, lock, rerun, exists, refused, form, mitig,
                 lost, seeds, edits, faults>>

\* The job does not wait for the columns (faulty).
ReadAnswersAtOnce(j) ==
  /\ job[j].at = "running"
  /\ job' = [job EXCEPT ![j].at = "profiled", ![j].answers = answers[job[j].did]]
  /\ UNCHANGED <<meta, answers, columns, lock, rerun, exists, refused, form, mitig, counts>>

\* get_features polls without a limit until the key is there, and reads it ...
ReadFeatures(j) ==
  /\ job[j].at = "running" /\ columns[job[j].did]["features"] # "absent"
  /\ job' = [job EXCEPT ![j].at = "reading", ![j].answers = answers[job[j].did]]
  /\ UNCHANGED <<meta, answers, columns, lock, rerun, exists, refused, form, mitig, counts>>

\* ... and so does get_targets; the other answers are read after the two.
ReadTarget(j) ==
  /\ job[j].at = "reading" /\ columns[job[j].did]["target"] # "absent" /\ Move(j, "profiled")
  /\ UNCHANGED <<meta, answers, columns, lock, rerun, exists, refused, form, mitig, counts>>

\* An unreadable file or an exception: the completion carries an error.
JobFails(j) ==
  /\ job[j].at \in {"running", "reading"} /\ Room
  /\ faults' = faults + 1
  /\ job' = [job EXCEPT ![j].at = "profiled", ![j].ok = FALSE]
  /\ UNCHANGED <<meta, answers, columns, lock, rerun, exists, refused, form, mitig,
                 lost, seeds, edits, takeovers>>

\* The backend dies between lock and XADD, or with the completion in hand; a worker is
\* stopped, which acknowledges the entry of the job it cuts off; a claimer puts the entry
\* of a dead worker into the dead letters. Nothing deletes the lock.
LoseJob(j) ==
  /\ job[j].at \notin {"free", "queued"} /\ Room
  /\ faults' = faults + 1 /\ lost' = TRUE
  /\ job' = [job EXCEPT ![j] = NoJob]
  /\ UNCHANGED <<meta, answers, columns, lock, rerun, exists, refused, form, mitig,
                 seeds, edits, takeovers>>

-----------------------------------------------------------------------------
(* handle_profile_and_quality_completed *)

CompletionFails(j) ==
  /\ job[j].at = "profiled" /\ ~job[j].ok /\ Move(j, "closing")
  /\ UNCHANGED <<meta, answers, columns, lock, rerun, exists, refused, form, mitig, counts>>

LoadMeta(j) ==
  /\ job[j].at = "profiled" /\ job[j].ok
  /\ job' = [job EXCEPT ![j].at = "merging", ![j].doc = meta]
  /\ UNCHANGED <<meta, answers, columns, lock, rerun, exists, refused, form, mitig, counts>>

\* The document as it was read, with the profile of the job's dataset.
StoreProfile(j) ==
  /\ job[j].at = "merging"
  /\ meta' = [job[j].doc EXCEPT !.profile =
                [did |-> job[j].did, answers |-> job[j].answers]]
  /\ job' = [job EXCEPT ![j].at = "merged", ![j].doc = StartDoc]
  /\ UNCHANGED <<answers, columns, lock, rerun, exists, refused, form, mitig, counts>>

\* _autodetect_columns_if_missing: EXISTS of both keys ...
FindColumns(j) ==
  /\ job[j].at = "merged"
  /\ Move(j, IF \A k \in ColumnKeys : columns[job[j].did][k] = "absent"
             THEN "guessing" ELSE "closing")
  /\ UNCHANGED <<meta, answers, columns, lock, rerun, exists, refused, form, mitig, counts>>

\* ... no confident guess ...
SkipGuess(j) ==
  /\ job[j].at = "guessing" /\ Move(j, "closing")
  /\ UNCHANGED <<meta, answers, columns, lock, rerun, exists, refused, form, mitig, counts>>

\* ... or the features SET ...
GuessFeatures(j) ==
  /\ job[j].at = "guessing" /\ Move(j, "guessed")
  /\ columns' = [columns EXCEPT ![job[j].did]["features"] = "guessed"]
  /\ UNCHANGED <<meta, answers, lock, rerun, exists, refused, form, mitig, counts>>

\* ... then the target, and the document read ...
GuessTarget(j) ==
  /\ job[j].at = "guessed"
  /\ columns' = [columns EXCEPT ![job[j].did]["target"] = "guessed"]
  /\ job' = [job EXCEPT ![j].at = "mirroring", ![j].doc = meta]
  /\ UNCHANGED <<meta, answers, lock, rerun, exists, refused, form, mitig, counts>>

\* ... and stored with the guess.
MirrorGuess(j) ==
  /\ job[j].at = "mirroring"
  /\ meta' = job[j].doc /\ job' = [job EXCEPT ![j].at = "closing", ![j].doc = StartDoc]
  /\ UNCHANGED <<answers, columns, lock, rerun, exists, refused, form, mitig, counts>>

\* The lock is kept when the job failed (faulty).
ReleaseLockOnSuccess(j) ==
  /\ job[j].at = "closing"
  /\ lock' = (IF job[j].ok THEN lock \ {job[j].did} ELSE lock) /\ Move(j, "released")
  /\ UNCHANGED <<meta, answers, columns, rerun, exists, refused, form, mitig, counts>>

\* The finally clause: DEL of the lock, whoever holds it ...
ReleaseLock(j) ==
  /\ job[j].at = "closing"
  /\ lock' = lock \ {job[j].did} /\ Move(j, "released")
  /\ UNCHANGED <<meta, answers, columns, rerun, exists, refused, form, mitig, counts>>

\* ... then GET and DEL of the rerun flag, and the DataExists it stands for.
TakeRerun(j) ==
  /\ job[j].at = "released" /\ job' = [job EXCEPT ![j] = NoJob]
  /\ rerun' = rerun \ {job[j].did}
  /\ IF job[j].did \in rerun THEN EmitExists(job[j].did) ELSE UNCHANGED exists
  /\ UNCHANGED <<meta, answers, columns, lock, refused, form, mitig, counts>>

\* 600 s pass: Redis drops the lock, or a rerun flag.
LockExpires(d) ==
  /\ d \in lock /\ Room
  /\ faults' = faults + 1 /\ lock' = lock \ {d}
  /\ UNCHANGED <<meta, answers, columns, rerun, exists, refused, job, form, mitig,
                 lost, seeds, edits, takeovers>>

RerunExpires(d) ==
  /\ d \in rerun /\ Room
  /\ faults' = faults + 1 /\ rerun' = rerun \ {d}
  /\ UNCHANGED <<meta, answers, columns, lock, exists, refused, job, form, mitig,
                 lost, seeds, edits, takeovers>>

-----------------------------------------------------------------------------
(* The user *)

\* The user submits a form about the active dataset, with the column questions or not.
SubmitForm(f, asked) ==
  /\ form[f].at = "new"
  /\ form' = [form EXCEPT ![f] = [at |-> "answering", did |-> meta.did,
                                  left |-> asked \cup {"others"}, doc |-> StartDoc]]
  /\ UNCHANGED <<meta, answers, columns, lock, rerun, exists, refused, job, mitig, counts>>

\* The column answers set by one SET of key k.
SetColumn(d, k, v) == IF k \in ColumnKeys THEN [columns EXCEPT ![d][k] = v] ELSE columns

\* handle_feedback stores them key by key, those that it has added itself at the end ...
StoreAnswer(f, k) ==
  /\ form[f].at = "answering" /\ k \in form[f].left
  /\ k = "others" => form[f].left = {k}
  /\ answers' = [answers EXCEPT ![form[f].did] = @ + 1]
  /\ columns' = SetColumn(form[f].did, k, "user")
  /\ form' = [form EXCEPT ![f].left = @ \ {k}]
  /\ UNCHANGED <<meta, lock, rerun, exists, refused, job, mitig, counts>>

\* ... updates the document in session_meta_tx, whose lock no other action takes here ...
LoadForForm(f) ==
  /\ form[f].at = "answering" /\ form[f].left = {}
  /\ \A g \in Forms : form[g].at # "editing"
  /\ form' = [form EXCEPT ![f].at = "editing", ![f].doc = meta]
  /\ UNCHANGED <<meta, answers, columns, lock, rerun, exists, refused, job, mitig, counts>>

StoreForForm(f) ==
  /\ form[f].at = "editing"
  /\ meta' = form[f].doc /\ form' = [form EXCEPT ![f].at = "saved", ![f].doc = StartDoc]
  /\ UNCHANGED <<answers, columns, lock, rerun, exists, refused, job, mitig, counts>>

\* ... and asks for a new profile of the dataset the document names by now.
AskReprofile(f) ==
  /\ form[f].at = "saved"
  /\ EmitExists(meta.did) /\ form' = [form EXCEPT ![f].at = "done"]
  /\ UNCHANGED <<meta, answers, columns, lock, rerun, refused, job, mitig, counts>>

\* Does the document list columns? They come with the first profile, and a mitigated
\* dataset keeps those of the one it was made from.
Listed(doc) == doc.profile # NoProfile \/ doc.did # First

\* handle_feedback_edit_requested deletes the column answers, if there are columns to list.
EditColumns ==
  /\ Listed(meta) /\ Room
  /\ edits' = edits + 1
  /\ columns' = [columns EXCEPT ![meta.did] = [k \in ColumnKeys |-> "absent"]]
  /\ UNCHANGED <<meta, answers, lock, rerun, exists, refused, job, form, mitig,
                 lost, seeds, takeovers, faults>>

\* seed_session on a reconnect: _verify_dataset_profiling finds no profile.
VerifyProfiling ==
  /\ meta.profile = NoProfile /\ Room
  /\ seeds' = seeds + 1 /\ EmitExists(meta.did)
  /\ UNCHANGED <<meta, answers, columns, lock, rerun, refused, job, form, mitig,
                 lost, edits, takeovers, faults>>

\* apply_mitigation, offered for a profiled dataset, reads the document and computes a new
\* dataset ...
ApplyMitigation(d) ==
  /\ mitig.at = "none" /\ meta.profile # NoProfile /\ d # meta.did
  /\ mitig' = [at |-> "computing", old |-> meta.did, new |-> d]
  /\ UNCHANGED <<meta, answers, columns, lock, rerun, exists, refused, job, form, counts>>

\* ... stores the document with the new dataset in place of the old ...
StoreMitigated ==
  /\ mitig.at = "computing"
  /\ meta' = [did |-> mitig.new, profile |-> NoProfile]
  /\ mitig' = [mitig EXCEPT !.at = "features"]
  /\ UNCHANGED <<answers, columns, lock, rerun, exists, refused, job, form, counts>>

\* ... copies its answers key by key, those that are there ...
AfterKey(k) == IF k = "features" THEN "target" ELSE IF k = "target" THEN "others" ELSE "emitting"
CopyAnswer(k) ==
  /\ mitig.at = k /\ mitig' = [mitig EXCEPT !.at = AfterKey(k)]
  /\ IF k \in ColumnKeys /\ columns[mitig.old][k] = "absent"
     THEN UNCHANGED <<answers, columns>>
     ELSE /\ answers' = [answers EXCEPT ![mitig.new] = @ + 1]
          /\ columns' = SetColumn(mitig.new, k, columns[mitig.old][k])
  /\ UNCHANGED <<meta, lock, rerun, exists, refused, job, form, counts>>

\* ... and has it profiled.
EmitMitigated ==
  /\ mitig.at = "emitting"
  /\ EmitExists(mitig.new) /\ mitig' = [mitig EXCEPT !.at = "done"]
  /\ UNCHANGED <<meta, answers, columns, lock, rerun, refused, job, form, counts>>

-----------------------------------------------------------------------------
Handler(d) == \/ \E j \in Jobs : CheckData(d, j)
              \/ CheckDataLocked(d)
              \/ QueueRerun(d)
Worker(j) == SubmitJob(j) \/ ReadFeatures(j) \/ ReadTarget(j)
Completion(j) ==
  \/ CompletionFails(j) \/ LoadMeta(j) \/ StoreProfile(j) \/ FindColumns(j) \/ SkipGuess(j)
  \/ GuessFeatures(j) \/ GuessTarget(j) \/ MirrorGuess(j) \/ ReleaseLock(j) \/ TakeRerun(j)
Feedback(f) == (\E k \in Keys : StoreAnswer(f, k)) \/ LoadForForm(f) \/ StoreForForm(f)
               \/ AskReprofile(f)
Mitigation == StoreMitigated \/ (\E k \in Keys : CopyAnswer(k)) \/ EmitMitigated
Claimer == \E j, k \in Jobs : TakeOver(j, k)
Fault == \/ \E j \in Jobs : SubmitFails(j) \/ JobFails(j) \/ LoseJob(j)
         \/ \E d \in Datasets : LockExpires(d) \/ RerunExpires(d)
User == \/ \E f \in Forms, asked \in SUBSET ColumnKeys : SubmitForm(f, asked)
        \/ EditColumns \/ VerifyProfiling
        \/ \E d \in Datasets : ApplyMitigation(d)

Next == \/ \E d \in Datasets : Handler(d)
        \/ \E j \in Jobs : StartJob(j) \/ Worker(j) \/ Completion(j)
        \/ \E f \in Forms : Feedback(f)
        \/ Mitigation \/ Claimer \/ User \/ Fault

\* The event workers, a started job and the handlers go on; users, faults and claimers
\* need not act, and no slot of an exec-worker need ever become free.
Fairness == /\ \A d \in Datasets : WF_vars(Handler(d))
            /\ \A j \in Jobs : WF_vars(Worker(j)) /\ WF_vars(Completion(j))
            /\ \A f \in Forms : WF_vars(Feedback(f))
            /\ WF_vars(Mitigation)

Spec == Init /\ [][Next]_vars
FairSpec == Spec /\ Fairness

-----------------------------------------------------------------------------
(* Properties *)

Running(d) == {j \in Jobs : job[j].did = d /\ job[j].at \in InFlight}

\* A dataset is profiled twice at once only as far as takeovers and faults explain it: a
\* claimer runs a waiting job a second time, and the lock is deleted without looking at
\* its owner, so the first of two executions to end lets a third in, whose lock the second
\* deletes, and so on - but each takeover and each fault adds at most one execution to
\* those in flight (check_data, the finally clause of the completion handler).
OverlapIsExplained ==
  \A d \in Datasets :
    Cardinality(Running(d)) <= (IF d \in lock THEN 1 ELSE 0) + takeovers + faults

\* The answers of the active dataset are profiled, or something under way will have them
\* profiled: an event, a handler, a form or an execution that has yet to read them.
Profiled(d) == meta.profile # NoProfile /\ meta.profile.did = d /\ meta.profile.answers = answers[d]
OnItsWay(d) ==
  \/ exists[d] > 0 \/ refused[d] > 0
  \/ \E j \in Jobs : job[j].did = d
       /\ \/ job[j].at \in Unread
          \/ job[j].at \in InFlight /\ job[j].answers = answers[d]
          \/ job[j].at = "released" /\ d \in rerun
  \/ \E f \in Forms : form[f].at \in {"answering", "editing", "saved"}
\* With no fault, no job run twice, no edit and no change of dataset.
Undisturbed == faults = 0 /\ takeovers = 0 /\ edits = 0 /\ mitig.at = "none"

\* As long as the dataset is not replaced and no job fails or is run twice, an answer can
\* be left out of the profile only by a rerun flag set after the completion handler had
\* looked for it.
OnlyAStrandedRerunLosesAnAnswer ==
  Undisturbed => Profiled(meta.did) \/ OnItsWay(meta.did) \/ meta.did \in rerun

\* Columns are guessed only after the user asked to edit an earlier answer: the job waits
\* for the column answers, so a new dataset never reaches _autodetect_columns_if_missing
\* with both keys absent.
GuessNeedsAnEdit ==
  edits = 0 => \A d \in Datasets, k \in ColumnKeys : columns[d][k] # "guessed"

\* The lock of a dataset is not kept for ever by the handlers, without its 600 s passing:
\* either it is given back again and again, or the user's column answers are missing, or
\* a job of the dataset waits for a slot of a worker, or a job was lost. Error, empty
\* result and success all end in the finally clause.
Answered(d) == \A k \in ColumnKeys : columns[d][k] # "absent"
Queued(d) == \E j \in Jobs : job[j].did = d /\ job[j].at = "queued"
LockIsGivenBack ==
  \A d \in Datasets : []<>(d \notin lock \/ ~Answered(d) \/ Queued(d) \/ lost)
=============================================================================
