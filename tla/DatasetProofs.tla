--------------------------- MODULE DatasetProofs ---------------------------
(***************************************************************************)
(* Proofs about DatasetProfiling, for any finite sets of datasets, jobs    *)
(* and forms and any number of answers, requests, takeovers and faults:    *)
(* profiles overlap only as far as takeovers and faults explain it,        *)
(* columns are guessed only after an edit, and only a stranded rerun flag  *)
(* loses an answer.                                                        *)
(***************************************************************************)
EXTENDS DatasetProfiling, FiniteSetTheorems, TLAPS

-----------------------------------------------------------------------------
(* Types *)

\* The initial document is a document and a free job a job.
LEMMA StartTypes == StartDoc \in Docs /\ NoJob \in Job
  BY ConstantsAssumption DEF StartDoc, NoJob, Job, Docs, Profiles, JobStages

\* A profile, or a dataset without one, written into a document keeps it a document.
LEMMA DocTypes ==
  ASSUME NEW doc \in Docs, NEW d \in Datasets, NEW a \in Nat
  PROVE  /\ doc.did \in Datasets
         /\ [doc EXCEPT !.profile = [did |-> d, answers |-> a]] \in Docs
         /\ [did |-> d, profile |-> NoProfile] \in Docs
  <1>1. [did |-> d, answers |-> a] \in Profiles /\ NoProfile \in Profiles
    BY DEF Profiles
  <1>2. QED
    BY <1>1 DEF Docs

\* What the fields of a job are, and the names its steps use.
LEMMA JobTypes ==
  ASSUME TypeOK, NEW j \in Jobs
  PROVE  /\ job \in [Jobs -> Job] /\ NoJob \in Job
         /\ job[j].did \in Datasets /\ job[j].answers \in Nat /\ job[j].doc \in Docs
         /\ meta \in Docs /\ StartDoc \in Docs /\ answers[job[j].did] \in Nat
         /\ {"taken", "queued", "running", "reading", "profiled", "merging", "merged",
             "guessing", "guessed", "mirroring", "closing", "released"} \subseteq JobStages
  <1>1. job \in [Jobs -> Job] /\ job[j] \in Job /\ meta \in Docs
    BY DEF TypeOK
  <1>2. job[j].did \in Datasets /\ job[j].answers \in Nat /\ job[j].doc \in Docs
    BY <1>1 DEF Job
  <1>3. answers[job[j].did] \in Nat
    BY <1>2 DEF TypeOK
  <1>4. QED
    BY <1>1, <1>2, <1>3, StartTypes DEF JobStages

\* A column key set, or another key, leaves the column answers what they are.
LEMMA ColumnTypes ==
  ASSUME TypeOK, NEW d \in Datasets, NEW k, NEW v \in {"absent", "guessed", "user"}
  PROVE  /\ SetColumn(d, k, v) \in [Datasets -> [ColumnKeys -> {"absent", "guessed", "user"}]]
         /\ \A e \in Datasets, l \in ColumnKeys : SetColumn(d, k, v)[e][l] \in {columns[e][l], v}
  <1>1. columns \in [Datasets -> [ColumnKeys -> {"absent", "guessed", "user"}]]
    BY DEF TypeOK
  <1>2. CASE k \in ColumnKeys
    <2>1. SetColumn(d, k, v) = [columns EXCEPT ![d] = [@ EXCEPT ![k] = v]]
      BY <1>1, <1>2 DEF SetColumn
    <2>2. columns[d] \in [ColumnKeys -> {"absent", "guessed", "user"}]
      BY <1>1
    <2>3. [columns[d] EXCEPT ![k] = v] \in [ColumnKeys -> {"absent", "guessed", "user"}]
      BY <2>2
    <2>4. QED
      BY <1>1, <2>1, <2>2, <2>3
  <1>3. CASE k \notin ColumnKeys
    BY <1>1, <1>3 DEF SetColumn
  <1>4. QED
    BY <1>2, <1>3

\* A feedback handler that moves on remains one.
LEMMA FormTypes ==
  ASSUME TypeOK, NEW f \in Forms, NEW s \in {"new", "answering", "editing", "saved", "done"},
         NEW doc \in Docs
  PROVE  /\ form[f].doc \in Docs /\ form[f].did \in Datasets /\ form[f].left \in SUBSET Keys
         /\ [form EXCEPT ![f].at = s] \in [Forms -> Form]
         /\ [form EXCEPT ![f].at = s, ![f].doc = doc] \in [Forms -> Form]
  <1>1. form \in [Forms -> Form] /\ form[f] \in Form
    BY DEF TypeOK
  <1>2. /\ form[f].doc \in Docs /\ form[f].did \in Datasets /\ form[f].left \in SUBSET Keys
        /\ [form[f] EXCEPT !.at = s] \in Form /\ [form[f] EXCEPT !.at = s, !.doc = doc] \in Form
    BY <1>1 DEF Form
  <1>3. QED
    BY <1>1, <1>2

\* The handler of a mitigation that moves on remains one.
LEMMA MitigTypes ==
  ASSUME TypeOK,
         NEW s \in {"none", "computing", "features", "target", "others", "emitting", "done"}
  PROVE  /\ mitig.old \in Datasets /\ mitig.new \in Datasets
         /\ [mitig EXCEPT !.at = s] \in Mitig
  BY DEF TypeOK, Mitig

\* A step that changes the jobs only, or the jobs and nothing typed narrowly.
LEMMA JobStepTypes ==
  ASSUME TypeOK, job' \in [Jobs -> Job],
         UNCHANGED <<meta, answers, columns, lock, rerun, exists, refused, form, mitig, counts>>
  PROVE  TypeOK'
  BY DEF TypeOK, counts

\* Every step of the system keeps every variable in its type.
LEMMA TypeStep == TypeOK /\ [Next]_vars => TypeOK'
  <1> SUFFICES ASSUME TypeOK, [Next]_vars PROVE TypeOK'
    OBVIOUS
  <1> USE DEF counts
  <1>1. ASSUME NEW d \in Datasets, Handler(d) PROVE TypeOK'
    <2>1. ASSUME NEW j \in Jobs, CheckData(d, j) PROVE TypeOK'
      <3>1. job' \in [Jobs -> Job]
        BY <2>1, JobTypes DEF CheckData, Job
      <3>2. QED
        BY <2>1, <3>1 DEF CheckData, TypeOK
    <2>2. CASE CheckDataLocked(d)
      BY <2>2 DEF CheckDataLocked, TypeOK
    <2>3. CASE QueueRerun(d)
      BY <2>3 DEF QueueRerun, TypeOK
    <2>4. QED
      BY <1>1, <2>1, <2>2, <2>3 DEF Handler
  <1>2. ASSUME NEW j \in Jobs, StartJob(j) \/ Worker(j) PROVE TypeOK'
    <2>1. CASE SubmitJob(j) \/ StartJob(j) \/ ReadTarget(j)
      <3>1. job' \in [Jobs -> Job]
        BY <2>1, JobTypes DEF SubmitJob, StartJob, ReadTarget, Move, Job
      <3>2. QED
        BY <2>1, <3>1, JobStepTypes DEF SubmitJob, StartJob, ReadTarget
    <2>2. CASE ReadFeatures(j)
      <3>1. job' \in [Jobs -> Job]
        BY <2>2, JobTypes DEF ReadFeatures, Job
      <3>2. QED
        BY <2>2, <3>1, JobStepTypes DEF ReadFeatures
    <2>3. QED
      BY <1>2, <2>1, <2>2 DEF Worker
  <1>3. ASSUME NEW j \in Jobs, Completion(j) PROVE TypeOK'
    <2>1. CASE CompletionFails(j) \/ SkipGuess(j)
      <3>1. job' \in [Jobs -> Job]
        BY <2>1, JobTypes DEF CompletionFails, SkipGuess, Move, Job
      <3>2. QED
        BY <2>1, <3>1, JobStepTypes DEF CompletionFails, SkipGuess
    <2>2. CASE FindColumns(j)
      <3>1. job' \in [Jobs -> Job]
        BY <2>2, JobTypes DEF FindColumns, Move, Job
      <3>2. QED
        BY <2>2, <3>1, JobStepTypes DEF FindColumns
    <2>3. CASE LoadMeta(j)
      <3>1. job' \in [Jobs -> Job]
        BY <2>3, JobTypes DEF LoadMeta, Job
      <3>2. QED
        BY <2>3, <3>1, JobStepTypes DEF LoadMeta
    <2>4. CASE StoreProfile(j)
      <3>1. job' \in [Jobs -> Job]
        BY <2>4, JobTypes DEF StoreProfile, Job
      <3>2. meta' = [job[j].doc EXCEPT !.profile = [did |-> job[j].did, answers |-> job[j].answers]]
        BY <2>4 DEF StoreProfile
      <3>3. meta' \in Docs
        BY <3>2, JobTypes, DocTypes, Zenon
      <3>4. QED
        BY <2>4, <3>1, <3>3 DEF StoreProfile, TypeOK
    <2>5. CASE GuessFeatures(j) \/ GuessTarget(j)
      <3>1. job' \in [Jobs -> Job]
        BY <2>5, JobTypes DEF GuessFeatures, GuessTarget, Move, Job
      <3>2. \E k \in ColumnKeys : columns' = SetColumn(job[j].did, k, "guessed")
        BY <2>5 DEF GuessFeatures, GuessTarget, SetColumn, ColumnKeys
      <3>3. columns' \in [Datasets -> [ColumnKeys -> {"absent", "guessed", "user"}]]
        BY <3>2, JobTypes, ColumnTypes
      <3>4. QED
        BY <2>5, <3>1, <3>3 DEF GuessFeatures, GuessTarget, TypeOK
    <2>6. CASE MirrorGuess(j)
      <3>1. job' \in [Jobs -> Job]
        BY <2>6, JobTypes DEF MirrorGuess, Job
      <3>2. meta' \in Docs
        BY <2>6, JobTypes DEF MirrorGuess
      <3>3. QED
        BY <2>6, <3>1, <3>2 DEF MirrorGuess, TypeOK
    <2>7. CASE ReleaseLock(j)
      <3>1. job' \in [Jobs -> Job]
        BY <2>7, JobTypes DEF ReleaseLock, Move, Job
      <3>2. QED
        BY <2>7, <3>1 DEF ReleaseLock, TypeOK
    <2>8. CASE TakeRerun(j)
      <3>1. job' \in [Jobs -> Job]
        BY <2>8, JobTypes DEF TakeRerun
      <3>2. exists' \in [Datasets -> Nat]
        BY <2>8, JobTypes DEF TakeRerun, EmitExists, TypeOK
      <3>3. QED
        BY <2>8, <3>1, <3>2 DEF TakeRerun, TypeOK
    <2>9. QED
      BY <1>3, <2>1, <2>2, <2>3, <2>4, <2>5, <2>6, <2>7, <2>8 DEF Completion
  <1>4. ASSUME NEW f \in Forms, Feedback(f) PROVE TypeOK'
    <2>1. /\ meta \in Docs /\ meta.did \in Datasets /\ form[f].doc \in Docs
          /\ form[f].did \in Datasets /\ StartDoc \in Docs
      BY FormTypes, StartTypes DEF TypeOK, Docs
    <2>2. ASSUME NEW k \in Keys, StoreAnswer(f, k) PROVE TypeOK'
      <3>1. form' \in [Forms -> Form]
        BY <2>2 DEF StoreAnswer, Form, TypeOK
      <3>2. columns' \in [Datasets -> [ColumnKeys -> {"absent", "guessed", "user"}]]
        BY <2>1, <2>2, ColumnTypes DEF StoreAnswer
      <3>3. answers' \in [Datasets -> Nat]
        BY <2>1, <2>2 DEF StoreAnswer, TypeOK
      <3>4. QED
        BY <2>2, <3>1, <3>2, <3>3 DEF StoreAnswer, TypeOK
    <2>3. CASE LoadForForm(f)
      <3>1. form' = [form EXCEPT ![f].at = "editing", ![f].doc = meta]
        BY <2>3 DEF LoadForForm
      <3>2. form' \in [Forms -> Form]
        BY <2>1, <3>1, FormTypes
      <3>3. QED
        BY <2>3, <3>2 DEF LoadForForm, TypeOK
    <2>4. CASE StoreForForm(f)
      <3>1. form' = [form EXCEPT ![f].at = "saved", ![f].doc = StartDoc]
        BY <2>4 DEF StoreForForm
      <3>2. form' \in [Forms -> Form]
        BY <2>1, <3>1, FormTypes
      <3>3. QED
        BY <2>1, <2>4, <3>2 DEF StoreForForm, TypeOK
    <2>5. CASE AskReprofile(f)
      <3>1. form' \in [Forms -> Form]
        BY <2>1, <2>5, FormTypes DEF AskReprofile
      <3>2. QED
        BY <2>1, <2>5, <3>1 DEF AskReprofile, EmitExists, TypeOK
    <2>6. QED
      BY <1>4, <2>2, <2>3, <2>4, <2>5 DEF Feedback
  <1>5. CASE Mitigation
    <2>1. mitig.old \in Datasets /\ mitig.new \in Datasets
      BY MitigTypes
    <2>2. CASE StoreMitigated
      <3>1. meta' \in Docs
        BY <2>1, <2>2, DocTypes DEF StoreMitigated, TypeOK
      <3>2. QED
        BY <2>2, <3>1, MitigTypes DEF StoreMitigated, TypeOK
    <2>3. ASSUME NEW k \in Keys, CopyAnswer(k) PROVE TypeOK'
      <3>1. mitig' \in Mitig
        BY <2>3, MitigTypes DEF CopyAnswer, AfterKey
      <3>2. k \in ColumnKeys => columns[mitig.old][k] \in {"absent", "guessed", "user"}
        BY <2>1 DEF TypeOK
      <3>3. k \notin ColumnKeys => SetColumn(mitig.new, k, columns[mitig.old][k]) = columns
        BY DEF SetColumn
      <3>4. columns' \in [Datasets -> [ColumnKeys -> {"absent", "guessed", "user"}]]
        BY <2>1, <2>3, <3>2, <3>3, ColumnTypes DEF CopyAnswer, TypeOK
      <3>5. answers' \in [Datasets -> Nat]
        BY <2>1, <2>3 DEF CopyAnswer, TypeOK
      <3>6. QED
        BY <2>3, <3>1, <3>4, <3>5 DEF CopyAnswer, TypeOK
    <2>4. CASE EmitMitigated
      BY <2>1, <2>4, MitigTypes DEF EmitMitigated, EmitExists, TypeOK
    <2>5. QED
      BY <1>5, <2>2, <2>3, <2>4 DEF Mitigation
  <1>6. CASE User
    <2>1. meta.did \in Datasets
      BY DEF TypeOK, Docs
    <2>2. ASSUME NEW f \in Forms, NEW asked \in SUBSET ColumnKeys, SubmitForm(f, asked)
          PROVE  TypeOK'
      <3>1. form' \in [Forms -> Form]
        BY <2>1, <2>2, StartTypes DEF SubmitForm, Form, Keys, TypeOK
      <3>2. QED
        BY <2>2, <3>1 DEF SubmitForm, TypeOK
    <2>3. CASE EditColumns
      <3>1. columns' \in [Datasets -> [ColumnKeys -> {"absent", "guessed", "user"}]]
        BY <2>1, <2>3 DEF EditColumns, TypeOK
      <3>2. QED
        BY <2>3, <3>1 DEF EditColumns, TypeOK
    <2>4. CASE VerifyProfiling
      BY <2>1, <2>4 DEF VerifyProfiling, EmitExists, TypeOK
    <2>5. ASSUME NEW d \in Datasets, ApplyMitigation(d) PROVE TypeOK'
      BY <2>1, <2>5 DEF ApplyMitigation, Mitig, TypeOK
    <2>6. QED
      BY <1>6, <2>2, <2>3, <2>4, <2>5 DEF User
  <1>7. CASE Claimer
    <2>1. PICK j \in Jobs : \E k \in Jobs : TakeOver(j, k)
      BY <1>7 DEF Claimer
    <2>2. PICK k \in Jobs : TakeOver(j, k)
      BY <2>1
    <2>3. job' \in [Jobs -> Job]
      BY <2>2, JobTypes DEF TakeOver, Job
    <2>4. QED
      BY <2>2, <2>3 DEF TakeOver, TypeOK
  <1>8. CASE Fault
    <2>1. ASSUME NEW j \in Jobs, SubmitFails(j) \/ JobFails(j) \/ LoseJob(j)
          PROVE  TypeOK'
      <3>1. CASE SubmitFails(j)
        BY <3>1, JobTypes DEF SubmitFails, TypeOK
      <3>2. CASE JobFails(j)
        <4>1. job' \in [Jobs -> Job]
          BY <3>2, JobTypes DEF JobFails, Job
        <4>2. QED
          BY <3>2, <4>1 DEF JobFails, TypeOK
      <3>3. CASE LoseJob(j)
        <4>1. job' \in [Jobs -> Job]
          BY <3>3, JobTypes DEF LoseJob
        <4>2. lost' \in BOOLEAN
          BY <3>3, Zenon DEF LoseJob
        <4>3. QED
          BY <3>3, <4>1, <4>2 DEF LoseJob, TypeOK
      <3>4. QED
        BY <2>1, <3>1, <3>2, <3>3
    <2>2. ASSUME NEW d \in Datasets, LockExpires(d) \/ RerunExpires(d) PROVE TypeOK'
      BY <2>2 DEF LockExpires, RerunExpires, TypeOK
    <2>3. QED
      BY <1>8, <2>1, <2>2 DEF Fault
  <1>9. CASE UNCHANGED vars
    BY <1>9 DEF vars, TypeOK
  <1>10. QED
    BY <1>1, <1>2, <1>3, <1>4, <1>5, <1>6, <1>7, <1>8, <1>9 DEF Next

\* The initial values have their types.
LEMMA TypeInit == Init => TypeOK
  <1> SUFFICES ASSUME Init PROVE TypeOK
    OBVIOUS
  <1>1. NewForm \in Form /\ [at |-> "none", old |-> First, new |-> First] \in Mitig
    BY StartTypes, ConstantsAssumption DEF NewForm, Form, Mitig
  <1>2. lost \in BOOLEAN
    BY Zenon DEF Init
  <1>3. QED
    BY <1>1, <1>2, StartTypes, ConstantsAssumption DEF Init, TypeOK

\* Every variable of DatasetProfiling keeps its type.
THEOREM TypeTheorem == Spec => []TypeOK
  <1>1. Init => TypeOK
    BY TypeInit
  <1>2. TypeOK /\ [Next]_vars => TypeOK'
    BY TypeStep
  <1>3. QED
    BY <1>1, <1>2, PTL DEF Spec

-----------------------------------------------------------------------------
(* Profiles overlap only as far as takeovers and faults explain it *)

\* Every set of jobs is finite.
LEMMA RunningFinite ==
  ASSUME NEW S \in SUBSET Jobs
  PROVE  IsFiniteSet(S) /\ Cardinality(S) \in Nat
  BY ConstantsAssumption, FS_Subset, FS_CardinalityType

\* One step moves at most one job: the jobs of d in flight change by at most that one.
LEMMA OneJobMoves ==
  ASSUME NEW d \in Datasets, NEW j \in Jobs,
         \A k \in Jobs \ {j} : job'[k] = job[k]
  PROVE  /\ Cardinality(Running(d)) \in Nat /\ Cardinality(Running(d)') \in Nat
         /\ Cardinality(Running(d)') <= Cardinality(Running(d)) + 1
         /\ (j \in Running(d) \/ j \notin Running(d)') =>
              Cardinality(Running(d)') <= Cardinality(Running(d))
         /\ (j \in Running(d) /\ j \notin Running(d)') =>
              Cardinality(Running(d)') = Cardinality(Running(d)) - 1
  <1> DEFINE S == Running(d)
             T == Running(d)'
  <1>1. S \in SUBSET Jobs /\ T \in SUBSET Jobs
    BY DEF Running
  <1>2. S \ {j} = T \ {j}
    BY DEF Running
  <1> HIDE DEF S, T
  <1>3. /\ IsFiniteSet(S) /\ IsFiniteSet(T) /\ IsFiniteSet(S \ {j})
        /\ Cardinality(S) \in Nat /\ Cardinality(T) \in Nat /\ Cardinality(S \ {j}) \in Nat
    BY <1>1, RunningFinite
  <1>4. Cardinality(S) = Cardinality(S \ {j}) + (IF j \in S THEN 1 ELSE 0)
    <2>1. CASE j \in S
      <3>1. Cardinality(S \ {j}) = Cardinality(S) - 1
        BY <1>3, <2>1, FS_RemoveElement
      <3>2. QED
        BY <1>3, <2>1, <3>1
    <2>2. CASE j \notin S
      <3>1. S \ {j} = S
        BY <2>2
      <3>2. QED
        BY <1>3, <2>2, <3>1
    <2>3. QED
      BY <2>1, <2>2
  <1>5. Cardinality(T) = Cardinality(S \ {j}) + (IF j \in T THEN 1 ELSE 0)
    <2>1. CASE j \in T
      <3>1. Cardinality(T \ {j}) = Cardinality(T) - 1
        BY <1>3, <2>1, FS_RemoveElement
      <3>2. QED
        BY <1>2, <1>3, <2>1, <3>1
    <2>2. CASE j \notin T
      <3>1. S \ {j} = T
        BY <1>2, <2>2
      <3>2. QED
        BY <1>3, <2>2, <3>1
    <2>3. QED
      BY <2>1, <2>2
  <1>6. /\ Cardinality(T) <= Cardinality(S) + 1
        /\ (j \in S \/ j \notin T) => Cardinality(T) <= Cardinality(S)
        /\ (j \in S /\ j \notin T) => Cardinality(T) = Cardinality(S) - 1
    BY <1>3, <1>4, <1>5
  <1>7. QED
    BY <1>3, <1>6 DEF S, T

\* Steps that put no job in flight and free no lock.
LEMMA OverlapKept ==
  ASSUME TypeOK, OverlapIsExplained, NEW j \in Jobs,
         \A k \in Jobs \ {j} : job'[k] = job[k],
         \A d \in Datasets : j \in Running(d)' => j \in Running(d),
         lock \subseteq lock', takeovers' = takeovers, faults' \in Nat, faults' >= faults
  PROVE  OverlapIsExplained'
  <1> SUFFICES ASSUME NEW d \in Datasets
               PROVE  Cardinality(Running(d)')
                        <= (IF d \in lock' THEN 1 ELSE 0) + takeovers' + faults'
    BY DEF OverlapIsExplained
  <1>1. Cardinality(Running(d)) <= (IF d \in lock THEN 1 ELSE 0) + takeovers + faults
    BY DEF OverlapIsExplained
  <1>2. /\ Cardinality(Running(d)') <= Cardinality(Running(d))
        /\ Cardinality(Running(d)) \in Nat /\ Cardinality(Running(d)') \in Nat
    BY OneJobMoves
  <1>3. faults \in Nat /\ takeovers \in Nat
    BY DEF TypeOK
  <1>4. QED
    BY <1>1, <1>2, <1>3

\* Steps that leave the jobs alone, or count as a fault.
LEMMA OverlapIdle ==
  ASSUME TypeOK, OverlapIsExplained, job' = job, takeovers' = takeovers,
         \/ lock \subseteq lock' /\ faults' = faults
         \/ faults' = faults + 1
  PROVE  OverlapIsExplained'
  <1> SUFFICES ASSUME NEW d \in Datasets
               PROVE  Cardinality(Running(d)')
                        <= (IF d \in lock' THEN 1 ELSE 0) + takeovers' + faults'
    BY DEF OverlapIsExplained
  <1>1. Cardinality(Running(d)) <= (IF d \in lock THEN 1 ELSE 0) + takeovers + faults
    BY DEF OverlapIsExplained
  <1>2. Running(d)' = Running(d) /\ Running(d) \in SUBSET Jobs
    BY DEF Running
  <1>3. faults \in Nat /\ takeovers \in Nat /\ Cardinality(Running(d)) \in Nat
    BY <1>2, RunningFinite DEF TypeOK
  <1>4. QED
    BY <1>1, <1>2, <1>3

\* A job put in flight beside others is accounted for by a takeover or a fault.
LEMMA OverlapCounted ==
  ASSUME TypeOK, OverlapIsExplained, NEW j \in Jobs,
         \A k \in Jobs \ {j} : job'[k] = job[k], lock' = lock,
         \/ takeovers' = takeovers + 1 /\ faults' = faults
         \/ takeovers' = takeovers /\ faults' = faults + 1
  PROVE  OverlapIsExplained'
  <1> SUFFICES ASSUME NEW d \in Datasets
               PROVE  Cardinality(Running(d)')
                        <= (IF d \in lock' THEN 1 ELSE 0) + takeovers' + faults'
    BY DEF OverlapIsExplained
  <1>1. Cardinality(Running(d)) <= (IF d \in lock THEN 1 ELSE 0) + takeovers + faults
    BY DEF OverlapIsExplained
  <1>2. /\ Cardinality(Running(d)') <= Cardinality(Running(d)) + 1
        /\ Cardinality(Running(d)) \in Nat /\ Cardinality(Running(d)') \in Nat
    BY OneJobMoves
  <1>3. faults \in Nat /\ takeovers \in Nat
    BY DEF TypeOK
  <1>4. QED
    BY <1>1, <1>2, <1>3

\* Every step keeps the number of runs of a dataset within lock, takeovers and faults.
LEMMA OverlapStep == TypeOK /\ OverlapIsExplained /\ [Next]_vars => OverlapIsExplained'
  <1> SUFFICES ASSUME TypeOK, OverlapIsExplained, [Next]_vars PROVE OverlapIsExplained'
    OBVIOUS
  <1>0. faults \in Nat /\ takeovers \in Nat
    BY DEF TypeOK
  <1>1. ASSUME NEW e \in Datasets, NEW j \in Jobs, CheckData(e, j) PROVE OverlapIsExplained'
    <2> SUFFICES ASSUME NEW d \in Datasets
                 PROVE  Cardinality(Running(d)')
                          <= (IF d \in lock' THEN 1 ELSE 0) + takeovers' + faults'
      BY DEF OverlapIsExplained
    <2>1. Cardinality(Running(d)) <= (IF d \in lock THEN 1 ELSE 0) + takeovers + faults
      BY DEF OverlapIsExplained
    <2>2. \A k \in Jobs \ {j} : job'[k] = job[k]
      BY <1>1 DEF CheckData, TypeOK
    <2>3. faults' = faults /\ takeovers' = takeovers /\ lock' = lock \cup {e} /\ e \notin lock
      BY <1>1 DEF CheckData, counts
    <2>4. CASE d = e
      BY <1>0, <2>1, <2>2, <2>3, <2>4, OneJobMoves
    <2>5. CASE d # e
      <3>1. j \notin Running(d)'
        BY <1>1, <2>5 DEF CheckData, Running, TypeOK
      <3>2. QED
        BY <1>0, <2>1, <2>2, <2>3, <2>5, <3>1, OneJobMoves
    <2>6. QED
      BY <2>4, <2>5
  <1>2. ASSUME NEW j \in Jobs, SubmitFails(j) \/ ReleaseLock(j) PROVE OverlapIsExplained'
    <2> SUFFICES ASSUME NEW d \in Datasets
                 PROVE  Cardinality(Running(d)')
                          <= (IF d \in lock' THEN 1 ELSE 0) + takeovers' + faults'
      BY DEF OverlapIsExplained
    <2>1. Cardinality(Running(d)) <= (IF d \in lock THEN 1 ELSE 0) + takeovers + faults
      BY DEF OverlapIsExplained
    <2>2. /\ \A k \in Jobs \ {j} : job'[k] = job[k]
          /\ job'[j].at \in {"free", "released"}
          /\ job[j].at \in {"taken", "closing"}
      <3>1. CASE SubmitFails(j)
        BY <3>1, JobTypes DEF SubmitFails, NoJob
      <3>2. CASE ReleaseLock(j)
        BY <3>2, JobTypes DEF ReleaseLock, Move, Job
      <3>3. QED
        BY <1>2, <3>1, <3>2
    <2>3. /\ lock' = lock \ {job[j].did} /\ takeovers' = takeovers
          /\ faults' \in {faults, faults + 1}
      BY <1>2 DEF SubmitFails, ReleaseLock, counts
    <2>4. j \notin Running(d)' /\ (d = job[j].did => j \in Running(d))
      BY <2>2 DEF Running, InFlight, JobStages
    <2>5. CASE d = job[j].did
      BY <1>0, <2>1, <2>2, <2>3, <2>4, <2>5, OneJobMoves
    <2>6. CASE d # job[j].did
      BY <1>0, <2>1, <2>2, <2>3, <2>4, <2>6, OneJobMoves
    <2>7. QED
      BY <2>5, <2>6
  <1>3. CASE Claimer
    <2>1. PICK j \in Jobs : \E k \in Jobs : TakeOver(j, k)
      BY <1>3 DEF Claimer
    <2>2. PICK k \in Jobs : TakeOver(j, k)
      BY <2>1
    <2>3. /\ \A l \in Jobs \ {k} : job'[l] = job[l]
          /\ lock' = lock /\ takeovers' = takeovers + 1 /\ faults' = faults
      BY <2>2 DEF TakeOver, TypeOK
    <2>4. QED
      BY <2>3, OverlapCounted
  <1>4. ASSUME NEW j \in Jobs, LoseJob(j) PROVE OverlapIsExplained'
    <2>1. /\ \A k \in Jobs \ {j} : job'[k] = job[k]
          /\ lock' = lock /\ takeovers' = takeovers /\ faults' = faults + 1
      BY <1>4 DEF LoseJob, TypeOK
    <2>2. QED
      BY <2>1, OverlapCounted
  <1>5. ASSUME NEW j \in Jobs, StartJob(j) \/ Worker(j) \/ JobFails(j)
        PROVE  OverlapIsExplained'
    <2>1. /\ \A k \in Jobs \ {j} : job'[k] = job[k]
          /\ job'[j].did = job[j].did /\ job[j].at \in InFlight
          /\ lock' = lock /\ takeovers' = takeovers /\ faults' \in {faults, faults + 1}
      BY <1>5, JobTypes DEF Worker, SubmitJob, StartJob, ReadFeatures, ReadTarget, JobFails,
         Move, counts, InFlight, JobStages, Job
    <2>2. \A d \in Datasets : j \in Running(d)' => j \in Running(d)
      BY <2>1 DEF Running
    <2>3. QED
      BY <1>0, <2>1, <2>2, OverlapKept
  <1>6. ASSUME NEW j \in Jobs, Completion(j), ~ReleaseLock(j) PROVE OverlapIsExplained'
    <2>1. CASE TakeRerun(j)
      <3>1. /\ \A k \in Jobs \ {j} : job'[k] = job[k]
            /\ job'[j].at = "free" /\ lock' = lock
            /\ takeovers' = takeovers /\ faults' = faults
        BY <2>1 DEF TakeRerun, NoJob, counts, TypeOK
      <3>2. \A d \in Datasets : j \notin Running(d)'
        BY <3>1 DEF Running, InFlight
      <3>3. QED
        BY <1>0, <3>1, <3>2, OverlapKept
    <2>2. CASE ~TakeRerun(j)
      <3>1. /\ \A k \in Jobs \ {j} : job'[k] = job[k]
            /\ job'[j].did = job[j].did /\ job[j].at \in InFlight
            /\ lock' = lock /\ takeovers' = takeovers /\ faults' = faults
        BY <1>6, <2>2, JobTypes DEF Completion, CompletionFails, LoadMeta, StoreProfile,
           FindColumns, SkipGuess, GuessFeatures, GuessTarget, MirrorGuess, Move, counts,
           InFlight, JobStages, Job
      <3>2. \A d \in Datasets : j \in Running(d)' => j \in Running(d)
        BY <3>1 DEF Running
      <3>3. QED
        BY <1>0, <3>1, <3>2, OverlapKept
    <2>3. QED
      BY <2>1, <2>2
  <1>7. ASSUME NEW d \in Datasets,
               \/ CheckDataLocked(d) \/ QueueRerun(d)
               \/ LockExpires(d) \/ RerunExpires(d)
        PROVE  OverlapIsExplained'
    BY <1>7, OverlapIdle DEF CheckDataLocked, QueueRerun, LockExpires, RerunExpires, counts
  <1>8. ASSUME (\E f \in Forms : Feedback(f)) \/ Mitigation \/ User \/ UNCHANGED vars
        PROVE  OverlapIsExplained'
    <2>1. job' = job /\ lock' = lock /\ takeovers' = takeovers /\ faults' = faults
      BY <1>8 DEF Feedback, StoreAnswer, LoadForForm, StoreForForm, AskReprofile, Mitigation,
         StoreMitigated, CopyAnswer, EmitMitigated, User, SubmitForm, EditColumns,
         VerifyProfiling, ApplyMitigation, counts, vars
    <2>2. QED
      BY <2>1, OverlapIdle
  <1>9. QED
    BY <1>1, <1>2, <1>3, <1>4, <1>5, <1>6, <1>7, <1>8 DEF Next, Handler, Completion, Fault

\* Each takeover and each fault adds at most one profile to those of a dataset under way
\* at once.
THEOREM OverlapTheorem == Spec => []OverlapIsExplained
  <1>1. Init => OverlapIsExplained
    <2> SUFFICES ASSUME Init, NEW d \in Datasets
                 PROVE  Cardinality(Running(d))
                          <= (IF d \in lock THEN 1 ELSE 0) + takeovers + faults
      BY DEF OverlapIsExplained
    <2>1. Running(d) = {}
      BY DEF Init, Running, NoJob, InFlight
    <2>2. Cardinality({}) = 0
      BY FS_EmptySet
    <2>3. QED
      BY <2>1, <2>2 DEF Init
  <1>2. QED
    BY <1>1, OverlapStep, TypeTheorem, PTL DEF Spec

-----------------------------------------------------------------------------
(* Columns are guessed only after an edit *)

\* Until the user asks to edit the columns, they are present from the moment a job was
\* done waiting for them.
GuessInv ==
  edits = 0 =>
    /\ \A d \in Datasets, k \in ColumnKeys : columns[d][k] # "guessed"
    /\ \A j \in Jobs :
         /\ job[j].at \notin {"guessing", "guessed", "mirroring"}
         /\ job[j].at \in {"merging", "merged"} => job[j].ok
         /\ job[j].at = "reading" => columns[job[j].did]["features"] # "absent"
         /\ job[j].at \in {"profiled", "merging", "merged"} /\ job[j].ok
              => \A k \in ColumnKeys : columns[job[j].did][k] # "absent"

\* Steps that leave the columns alone, and move one job to where its columns are known or
\* not needed.
LEMMA GuessKept ==
  ASSUME TypeOK, GuessInv, NEW j \in Jobs, columns' = columns, edits' = edits,
         \A k \in Jobs \ {j} : job'[k] = job[k],
         edits = 0 =>
           /\ job'[j].at \notin {"guessing", "guessed", "mirroring"}
           /\ job'[j].at \in {"merging", "merged"} => job'[j].ok
           /\ job'[j].at = "reading" => columns[job'[j].did]["features"] # "absent"
           /\ job'[j].at \in {"profiled", "merging", "merged"} /\ job'[j].ok
                => \A k \in ColumnKeys : columns[job'[j].did][k] # "absent"
  PROVE  GuessInv'
  BY DEF GuessInv

\* Steps that leave the jobs alone and only answer.
LEMMA GuessIdle ==
  ASSUME TypeOK, GuessInv, job' = job, edits' = edits,
         edits = 0 => \A d \in Datasets, k \in ColumnKeys :
                        \/ columns'[d][k] = columns[d][k]
                        \/ columns'[d][k] \notin {"absent", "guessed"}
  PROVE  GuessInv'
  <1>1. \A j \in Jobs : job[j].did \in Datasets
    BY JobTypes
  <1>2. "features" \in ColumnKeys
    BY DEF ColumnKeys
  <1>3. QED
    BY <1>1, <1>2 DEF GuessInv

\* Every step keeps GuessInv.
LEMMA GuessStep == TypeOK /\ GuessInv /\ [Next]_vars => GuessInv'
  <1> SUFFICES ASSUME TypeOK, GuessInv, [Next]_vars PROVE GuessInv'
    OBVIOUS
  <1>1. ASSUME NEW d \in Datasets, Handler(d) PROVE GuessInv'
    <2>1. ASSUME NEW j \in Jobs, CheckData(d, j) PROVE GuessInv'
      <3>1. /\ columns' = columns /\ edits' = edits
            /\ \A k \in Jobs \ {j} : job'[k] = job[k]
            /\ job'[j].at = "taken"
        BY <2>1, JobTypes DEF CheckData, counts, Job
      <3>2. QED
        BY <3>1, GuessKept
    <2>2. CASE CheckDataLocked(d) \/ QueueRerun(d)
      BY <2>2, GuessIdle DEF CheckDataLocked, QueueRerun, counts
    <2>3. QED
      BY <1>1, <2>1, <2>2 DEF Handler
  <1>2. ASSUME NEW j \in Jobs, StartJob(j) \/ Worker(j) PROVE GuessInv'
    <2>1. CASE SubmitJob(j) \/ StartJob(j)
      <3>1. /\ columns' = columns /\ edits' = edits
            /\ \A k \in Jobs \ {j} : job'[k] = job[k]
            /\ job'[j].at \in {"queued", "running"}
        BY <2>1, JobTypes DEF SubmitJob, StartJob, Move, counts, Job
      <3>2. QED
        BY <3>1, GuessKept
    <2>2. CASE ReadFeatures(j)
      <3>1. /\ columns' = columns /\ edits' = edits
            /\ \A k \in Jobs \ {j} : job'[k] = job[k]
            /\ job'[j].at = "reading" /\ job'[j].did = job[j].did
            /\ columns[job[j].did]["features"] # "absent"
        BY <2>2, JobTypes DEF ReadFeatures, counts, Job
      <3>2. QED
        BY <3>1, GuessKept
    <2>3. CASE ReadTarget(j)
      <3>1. /\ columns' = columns /\ edits' = edits
            /\ \A k \in Jobs \ {j} : job'[k] = job[k]
            /\ job[j].at = "reading" /\ job'[j].at = "profiled" /\ job'[j].did = job[j].did
            /\ columns[job[j].did]["target"] # "absent"
        BY <2>3, JobTypes DEF ReadTarget, Move, counts, Job
      <3>2. edits = 0 => \A k \in ColumnKeys : columns[job'[j].did][k] # "absent"
        BY <3>1 DEF GuessInv, ColumnKeys
      <3>3. QED
        BY <3>1, <3>2, GuessKept
    <2>4. QED
      BY <1>2, <2>1, <2>2, <2>3 DEF Worker
  <1>3. ASSUME NEW j \in Jobs, Completion(j) PROVE GuessInv'
    <2>1. CASE CompletionFails(j) \/ SkipGuess(j) \/ ReleaseLock(j)
      <3>1. /\ columns' = columns /\ edits' = edits
            /\ \A k \in Jobs \ {j} : job'[k] = job[k]
            /\ job'[j].at \in {"closing", "released"}
        BY <2>1, JobTypes DEF CompletionFails, SkipGuess, ReleaseLock, Move, counts, Job
      <3>2. QED
        BY <3>1, GuessKept
    <2>2. CASE LoadMeta(j) \/ StoreProfile(j)
      <3>1. /\ columns' = columns /\ edits' = edits
            /\ \A k \in Jobs \ {j} : job'[k] = job[k]
            /\ job'[j].at \in {"merging", "merged"}
            /\ job'[j].did = job[j].did /\ job'[j].ok = job[j].ok
            /\ job[j].at = "merging" \/ (job[j].at = "profiled" /\ job[j].ok)
        BY <2>2, JobTypes DEF LoadMeta, StoreProfile, counts, Job
      <3>2. edits = 0 => job[j].ok /\ \A k \in ColumnKeys : columns[job[j].did][k] # "absent"
        BY <3>1 DEF GuessInv
      <3>3. QED
        BY <3>1, <3>2, GuessKept
    <2>3. CASE FindColumns(j)
      <3>1. columns' = columns /\ edits' = edits /\ job[j].at = "merged"
        BY <2>3 DEF FindColumns, counts
      <3>2. edits = 0 => ~ \A k \in ColumnKeys : columns[job[j].did][k] = "absent"
        BY <3>1 DEF GuessInv, ColumnKeys
      <3>3. /\ \A k \in Jobs \ {j} : job'[k] = job[k]
            /\ job'[j].at \in {"guessing", "closing"}
            /\ edits = 0 => job'[j].at = "closing"
        BY <2>3, <3>2, JobTypes DEF FindColumns, Move, Job
      <3>4. QED
        BY <3>1, <3>3, GuessKept
    <2>4. CASE GuessFeatures(j) \/ GuessTarget(j) \/ MirrorGuess(j)
      <3>1. edits' = edits /\ job[j].at \in {"guessing", "guessed", "mirroring"}
        BY <2>4 DEF GuessFeatures, GuessTarget, MirrorGuess, counts
      <3>2. QED
        BY <3>1 DEF GuessInv
    <2>5. CASE TakeRerun(j)
      <3>1. /\ columns' = columns /\ edits' = edits
            /\ \A k \in Jobs \ {j} : job'[k] = job[k]
            /\ job'[j].at = "free"
        BY <2>5, JobTypes DEF TakeRerun, counts, NoJob
      <3>2. QED
        BY <3>1, GuessKept
    <2>6. QED
      BY <1>3, <2>1, <2>2, <2>3, <2>4, <2>5 DEF Completion
  <1>4. ASSUME NEW f \in Forms, Feedback(f) PROVE GuessInv'
    <2>1. ASSUME NEW k \in Keys, StoreAnswer(f, k) PROVE GuessInv'
      <3>1. job' = job /\ edits' = edits /\ columns' = SetColumn(form[f].did, k, "user")
        BY <2>1 DEF StoreAnswer, counts
      <3>2. form[f].did \in Datasets
        BY DEF TypeOK, Form
      <3>3. \A d \in Datasets, l \in ColumnKeys : columns'[d][l] \in {columns[d][l], "user"}
        BY <3>1, <3>2, ColumnTypes
      <3>4. QED
        BY <3>1, <3>3, GuessIdle
    <2>2. CASE LoadForForm(f) \/ StoreForForm(f) \/ AskReprofile(f)
      BY <2>2, GuessIdle DEF LoadForForm, StoreForForm, AskReprofile, counts
    <2>3. QED
      BY <1>4, <2>1, <2>2 DEF Feedback
  <1>5. CASE Mitigation
    <2>1. CASE StoreMitigated \/ EmitMitigated
      BY <2>1, GuessIdle DEF StoreMitigated, EmitMitigated, counts
    <2>2. ASSUME NEW k \in Keys, CopyAnswer(k) PROVE GuessInv'
      <3>1. mitig.old \in Datasets /\ mitig.new \in Datasets
        BY MitigTypes
      <3>2. job' = job /\ edits' = edits
        BY <2>2 DEF CopyAnswer, counts
      <3>3. CASE columns' = columns
        BY <3>2, <3>3, GuessIdle
      <3>4. CASE columns' # columns
        <4>1. /\ k \in ColumnKeys /\ columns[mitig.old][k] # "absent"
              /\ columns' = SetColumn(mitig.new, k, columns[mitig.old][k])
          BY <2>2, <3>4 DEF CopyAnswer, SetColumn
        <4>2. columns[mitig.old][k] \in {"absent", "guessed", "user"}
          BY <3>1, <4>1 DEF TypeOK
        <4>3. \A d \in Datasets, l \in ColumnKeys :
                columns'[d][l] \in {columns[d][l], columns[mitig.old][k]}
          BY <3>1, <4>1, <4>2, ColumnTypes
        <4>4. edits = 0 => columns[mitig.old][k] # "guessed"
          BY <3>1, <4>1 DEF GuessInv
        <4>5. QED
          BY <3>2, <4>1, <4>3, <4>4, GuessIdle
      <3>5. QED
        BY <3>3, <3>4
    <2>3. QED
      BY <1>5, <2>1, <2>2 DEF Mitigation
  <1>6. CASE User
    <2>1. ASSUME NEW f \in Forms, NEW asked \in SUBSET ColumnKeys, SubmitForm(f, asked)
          PROVE  GuessInv'
      BY <2>1, GuessIdle DEF SubmitForm, counts
    <2>2. CASE EditColumns
      <3>1. edits' # 0
        BY <2>2 DEF EditColumns, TypeOK
      <3>2. QED
        BY <3>1 DEF GuessInv
    <2>3. CASE VerifyProfiling
      BY <2>3, GuessIdle DEF VerifyProfiling
    <2>4. ASSUME NEW d \in Datasets, ApplyMitigation(d) PROVE GuessInv'
      BY <2>4, GuessIdle DEF ApplyMitigation, counts
    <2>5. QED
      BY <1>6, <2>1, <2>2, <2>3, <2>4 DEF User
  <1>7. CASE Claimer
    <2>1. PICK j \in Jobs : \E k \in Jobs : TakeOver(j, k)
      BY <1>7 DEF Claimer
    <2>2. PICK k \in Jobs : TakeOver(j, k)
      BY <2>1
    <2>3. /\ columns' = columns /\ edits' = edits
          /\ \A l \in Jobs \ {k} : job'[l] = job[l]
          /\ job'[k].at = "running"
      BY <2>2, JobTypes DEF TakeOver, Job
    <2>4. QED
      BY <2>3, GuessKept
  <1>8. CASE Fault
    <2>1. ASSUME NEW j \in Jobs, SubmitFails(j) \/ LoseJob(j) PROVE GuessInv'
      <3>1. /\ columns' = columns /\ edits' = edits
            /\ \A k \in Jobs \ {j} : job'[k] = job[k]
            /\ job'[j].at = "free"
        BY <2>1, JobTypes DEF SubmitFails, LoseJob, NoJob
      <3>2. QED
        BY <3>1, GuessKept
    <2>2. ASSUME NEW j \in Jobs, JobFails(j) PROVE GuessInv'
      <3>1. /\ columns' = columns /\ edits' = edits
            /\ \A k \in Jobs \ {j} : job'[k] = job[k]
            /\ job'[j].at = "profiled" /\ ~job'[j].ok
        BY <2>2, JobTypes DEF JobFails, Job
      <3>2. QED
        BY <3>1, GuessKept
    <2>3. ASSUME NEW d \in Datasets, LockExpires(d) \/ RerunExpires(d) PROVE GuessInv'
      BY <2>3, GuessIdle DEF LockExpires, RerunExpires
    <2>4. QED
      BY <1>8, <2>1, <2>2, <2>3 DEF Fault
  <1>9. CASE UNCHANGED vars
    BY <1>9, GuessIdle DEF vars, counts
  <1>10. QED
    BY <1>1, <1>2, <1>3, <1>4, <1>5, <1>6, <1>7, <1>8, <1>9 DEF Next

\* GuessInv holds at the start.
LEMMA GuessInit == Init => GuessInv
  BY DEF Init, GuessInv, NoJob

\* _autodetect_columns_if_missing fills in columns only after the user asked to edit
\* an earlier answer.
THEOREM GuessTheorem == Spec => []GuessNeedsAnEdit
  <1>1. Init => GuessInv
    BY GuessInit
  <1>2. TypeOK /\ GuessInv /\ [Next]_vars => GuessInv'
    BY GuessStep
  <1>3. GuessInv => GuessNeedsAnEdit
    BY DEF GuessInv, GuessNeedsAnEdit
  <1>4. QED
    BY <1>1, <1>2, <1>3, TypeTheorem, PTL DEF Spec

-----------------------------------------------------------------------------
(* Only a stranded rerun flag loses an answer *)

\* Something other than a job will have the answers profiled.
Pending == \/ exists[First] > 0 \/ refused[First] > 0 \/ First \in rerun
           \/ \E f \in Forms : form[f].at \in {"answering", "editing", "saved"}

\* Undisturbed, everything is about the first dataset ...
OnlyFirst ==
  /\ meta.did = First
  /\ \A d \in Datasets \ {First} : exists[d] = 0
  /\ \A j \in Jobs : job[j].did = First /\ job[j].doc.did = First /\ job[j].ok
  /\ \A f \in Forms : form[f].doc.did = First

\* ... the lock admits one job at a time ...
OneRun ==
  /\ \A j \in Jobs : job[j].at \in InFlight => First \in lock
  /\ \A j, k \in Jobs : job[j].at \in InFlight /\ job[k].at \in InFlight => j = k

\* ... and answers newer than those of the job in flight, or of the stored profile, have
\* someone who will ask for another run.
Covered ==
  /\ \A j \in Jobs : job[j].at \in InFlight \ Unread => job[j].answers = answers[First] \/ Pending
  /\ \A j \in Jobs : job[j].at \in {"merged", "closing"} => Profiled(First) \/ Pending
  /\ (\A j \in Jobs : job[j].at \notin InFlight) => Profiled(First) \/ Pending

AnswerInv == Undisturbed => OnlyFirst /\ OneRun /\ Covered

\* What a step of job j has to establish: the other jobs stay as they are.
LEMMA AnswerKept ==
  ASSUME AnswerInv, Undisturbed, NEW j \in Jobs, answers' = answers,
         \A k \in Jobs \ {j} : job'[k] = job[k], form' = form,
         meta'.did = First, \A d \in Datasets \ {First} : exists'[d] = 0,
         job'[j].did = First, job'[j].doc.did = First, job'[j].ok,
         job'[j].at \in InFlight => First \in lock' /\ (job[j].at \in InFlight \/ First \notin lock),
         job'[j].at \notin InFlight => job[j].at \in InFlight \/ lock' = lock,
         lock \subseteq lock' \/ job[j].at \in InFlight,
         Pending => Pending' \/ job'[j].at \in Unread,
         Profiled(First) => Profiled(First)' \/ Pending' \/ job'[j].at \in Unread,
         job'[j].at \in InFlight \ Unread => job'[j].answers = answers[First] \/ Pending',
         job'[j].at \in {"merged", "closing"} => Profiled(First)' \/ Pending',
         job'[j].at \notin InFlight =>
           job[j].at \notin InFlight \/ Profiled(First)' \/ Pending'
  PROVE  OnlyFirst' /\ OneRun' /\ Covered'
  <1>1. OnlyFirst'
    BY DEF OnlyFirst, AnswerInv
  <1>2. OneRun'
    BY DEF OneRun, AnswerInv
  <1>3. \A k \in Jobs \ {j} : job[k].at \in InFlight => job'[j].at \notin InFlight
    BY DEF OneRun, AnswerInv
  <1>4. Unread \subseteq InFlight
    BY DEF Unread, InFlight, JobStages
  <1>5. {"merged", "closing"} \subseteq InFlight
    BY DEF InFlight, JobStages
  <1>6. Covered'
    BY <1>3, <1>4, <1>5 DEF Covered, AnswerInv
  <1>7. QED
    BY <1>1, <1>2, <1>6

\* Steps that leave jobs, lock, profile and answers alone.
LEMMA AnswerIdle ==
  ASSUME AnswerInv, Undisturbed, answers' = answers, job' = job, lock' = lock,
         meta'.did = First, \A d \in Datasets \ {First} : exists'[d] = 0,
         \A f \in Forms : form'[f].doc.did = First,
         Pending => Pending',
         Profiled(First) => Profiled(First)' \/ Pending'
  PROVE  OnlyFirst' /\ OneRun' /\ Covered'
  <1>1. OnlyFirst'
    BY DEF OnlyFirst, AnswerInv
  <1>2. OneRun'
    BY DEF OneRun, AnswerInv
  <1>3. Covered'
    BY DEF Covered, AnswerInv
  <1>4. QED
    BY <1>1, <1>2, <1>3

\* Steps that leave jobs and lock alone and after which somebody will ask for a profile.
LEMMA AnswerAsked ==
  ASSUME AnswerInv, Undisturbed, job' = job, lock' = lock,
         meta'.did = First, \A d \in Datasets \ {First} : exists'[d] = 0,
         \A f \in Forms : form'[f].doc.did = First,
         Pending'
  PROVE  OnlyFirst' /\ OneRun' /\ Covered'
  <1>1. OnlyFirst'
    BY DEF OnlyFirst, AnswerInv
  <1>2. OneRun'
    BY DEF OneRun, AnswerInv
  <1>3. Covered'
    BY DEF Covered
  <1>4. QED
    BY <1>1, <1>2, <1>3

\* Every step keeps AnswerInv; steps that disturb make its premise false.
LEMMA AnswerStep == TypeOK /\ GuessInv /\ AnswerInv /\ [Next]_vars => AnswerInv'
  <1> SUFFICES ASSUME TypeOK, GuessInv, AnswerInv, [Next]_vars, Undisturbed'
               PROVE  OnlyFirst' /\ OneRun' /\ Covered'
    BY DEF AnswerInv
  <1> DEFINE Goal == OnlyFirst' /\ OneRun' /\ Covered'
  <1>0. /\ faults \in Nat /\ takeovers \in Nat /\ First \in Datasets
        /\ \A e \in Datasets : exists[e] \in Nat /\ refused[e] \in Nat
    BY ConstantsAssumption DEF TypeOK
  <1>1. /\ ~Fault /\ ~Claimer /\ ~Mitigation /\ ~EditColumns
        /\ \A d \in Datasets : ~ApplyMitigation(d)
    <2>1. CASE Fault
      <3>1. faults' = faults + 1
        BY <2>1 DEF Fault, SubmitFails, JobFails, LoseJob, LockExpires, RerunExpires
      <3>2. QED
        BY <1>0, <3>1 DEF Undisturbed
    <2>2. CASE Claimer
      <3>1. takeovers' = takeovers + 1
        BY <2>2 DEF Claimer, TakeOver
      <3>2. QED
        BY <1>0, <3>1 DEF Undisturbed
    <2>3. CASE Mitigation
      BY <2>3 DEF Mitigation, StoreMitigated, CopyAnswer, AfterKey, EmitMitigated, Undisturbed,
         TypeOK, Mitig
    <2>4. CASE EditColumns
      BY <2>4 DEF EditColumns, Undisturbed, TypeOK
    <2>5. ASSUME NEW d \in Datasets, ApplyMitigation(d) PROVE FALSE
      BY <2>5 DEF ApplyMitigation, Undisturbed
    <2>6. QED
      BY <2>1, <2>2, <2>3, <2>4, <2>5
  <1>2. Undisturbed
    BY <1>1 DEF Next, Undisturbed, vars, counts, Handler, CheckData, CheckDataLocked, QueueRerun,
       Worker, SubmitJob, StartJob, ReadFeatures, ReadTarget, Completion, CompletionFails,
       LoadMeta, StoreProfile, FindColumns, SkipGuess, GuessFeatures, GuessTarget, MirrorGuess,
       ReleaseLock, TakeRerun, Feedback, StoreAnswer, LoadForForm, StoreForForm, AskReprofile,
       User, SubmitForm, VerifyProfiling
  <1>3. /\ meta.did = First
        /\ \A d \in Datasets \ {First} : exists[d] = 0
        /\ \A j \in Jobs : job[j].did = First /\ job[j].doc.did = First /\ job[j].ok
        /\ \A f \in Forms : form[f].doc.did = First
    BY <1>2 DEF AnswerInv, OnlyFirst
  <1>4. ASSUME NEW d \in Datasets, Handler(d) PROVE Goal
    <2>1. ASSUME NEW j \in Jobs, CheckData(d, j) PROVE Goal
      <3>1. d = First
        BY <1>0, <1>3, <2>1 DEF CheckData
      <3>2. /\ \A k \in Jobs \ {j} : job'[k] = job[k]
            /\ job'[j].at = "taken" /\ job'[j].did = First
            /\ job'[j].doc = job[j].doc /\ job'[j].ok = job[j].ok
        BY <2>1, <3>1, JobTypes DEF CheckData, Job
      <3>3. /\ answers' = answers /\ form' = form /\ meta' = meta
            /\ lock' = lock \cup {First} /\ First \notin lock
            /\ \A e \in Datasets \ {First} : exists'[e] = exists[e]
        BY <2>1, <3>1 DEF CheckData, TypeOK
      <3>4. "taken" \in Unread /\ "taken" \in InFlight
        BY DEF Unread, InFlight, JobStages
      <3>5. QED
        BY <1>2, <1>3, <3>2, <3>3, <3>4, AnswerKept DEF Unread
    <2>2. CASE CheckDataLocked(d)
      <3>1. d = First
        BY <1>0, <1>3, <2>2 DEF CheckDataLocked
      <3>2. Pending'
        BY <1>0, <2>2, <3>1 DEF CheckDataLocked, Pending, TypeOK
      <3>3. /\ answers' = answers /\ form' = form /\ meta' = meta /\ job' = job /\ lock' = lock
            /\ \A e \in Datasets \ {First} : exists'[e] = exists[e]
        BY <2>2, <3>1 DEF CheckDataLocked, TypeOK
      <3>4. QED
        BY <1>2, <1>3, <3>2, <3>3, AnswerIdle
    <2>3. CASE QueueRerun(d)
      <3>1. Pending => Pending'
        BY <1>0, <2>3 DEF QueueRerun, Pending, TypeOK
      <3>2. /\ answers' = answers /\ form' = form /\ meta' = meta /\ job' = job /\ lock' = lock
            /\ exists' = exists
        BY <2>3 DEF QueueRerun
      <3>3. Profiled(First)' = Profiled(First)
        BY <3>2 DEF Profiled
      <3>4. QED
        BY <1>2, <1>3, <3>1, <3>2, <3>3, AnswerIdle
    <2>4. QED
      BY <1>4, <2>1, <2>2, <2>3 DEF Handler
  <1>5. ASSUME NEW j \in Jobs, StartJob(j) \/ Worker(j) PROVE Goal
    <2>1. /\ answers' = answers /\ form' = form /\ meta' = meta /\ lock' = lock /\ exists' = exists
          /\ refused' = refused /\ rerun' = rerun
      BY <1>5 DEF Worker, SubmitJob, StartJob, ReadFeatures, ReadTarget
    <2>2. Profiled(First)' = Profiled(First) /\ Pending' = Pending
      BY <2>1 DEF Profiled, Pending
    <2>3. job[j].at \in InFlight
      BY <1>5 DEF Worker, SubmitJob, StartJob, ReadFeatures, ReadTarget, InFlight, JobStages
    <2>4. First \in lock
      BY <1>2, <2>3 DEF AnswerInv, OneRun
    <2>5. CASE SubmitJob(j) \/ StartJob(j)
      <3>1. /\ \A k \in Jobs \ {j} : job'[k] = job[k]
            /\ job'[j].at \in {"queued", "running"} /\ job'[j].did = job[j].did
            /\ job'[j].doc = job[j].doc /\ job'[j].ok = job[j].ok
        BY <2>5, JobTypes DEF SubmitJob, StartJob, Move, Job
      <3>2. job'[j].at \in Unread /\ job'[j].at \in InFlight /\ job'[j].at \notin {"merged", "closing"}
        BY <3>1 DEF Unread, InFlight, JobStages
      <3>3. QED
        BY <1>2, <1>3, <2>1, <2>2, <2>3, <2>4, <3>1, <3>2, AnswerKept
    <2>6. CASE ReadFeatures(j)
      <3>1. /\ \A k \in Jobs \ {j} : job'[k] = job[k]
            /\ job'[j].at = "reading" /\ job'[j].did = job[j].did
            /\ job'[j].answers = answers[job[j].did]
            /\ job'[j].doc = job[j].doc /\ job'[j].ok = job[j].ok
        BY <2>6, JobTypes DEF ReadFeatures, Job
      <3>2. job'[j].at \in InFlight /\ job'[j].at \notin {"merged", "closing"}
        BY <3>1 DEF InFlight, JobStages
      <3>3. QED
        BY <1>2, <1>3, <2>1, <2>2, <2>3, <2>4, <3>1, <3>2, AnswerKept
    <2>7. CASE ReadTarget(j)
      <3>1. /\ \A k \in Jobs \ {j} : job'[k] = job[k]
            /\ job[j].at = "reading" /\ job'[j].at = "profiled" /\ job'[j].did = job[j].did
            /\ job'[j].answers = job[j].answers
            /\ job'[j].doc = job[j].doc /\ job'[j].ok = job[j].ok
        BY <2>7, JobTypes DEF ReadTarget, Move, Job
      <3>2. /\ job'[j].at \in InFlight /\ job'[j].at \notin {"merged", "closing"}
            /\ job[j].at \in InFlight \ Unread
        BY <3>1 DEF InFlight, Unread, JobStages
      <3>3. job[j].answers = answers[First] \/ Pending
        BY <1>2, <3>2 DEF AnswerInv, Covered
      <3>4. QED
        BY <1>2, <1>3, <2>1, <2>2, <2>3, <2>4, <3>1, <3>2, <3>3, AnswerKept
    <2>8. QED
      BY <1>5, <2>5, <2>6, <2>7 DEF Worker
  <1>6. ASSUME NEW j \in Jobs, Completion(j) PROVE Goal
    <2>1. answers' = answers /\ form' = form /\ refused' = refused
      BY <1>6 DEF Completion, CompletionFails, LoadMeta, StoreProfile, FindColumns, SkipGuess,
         GuessFeatures, GuessTarget, MirrorGuess, ReleaseLock, TakeRerun
    <2>2. CASE LoadMeta(j)
      <3>1. /\ \A k \in Jobs \ {j} : job'[k] = job[k]
            /\ job'[j].at = "merging" /\ job'[j].did = job[j].did
            /\ job'[j].answers = job[j].answers
            /\ job'[j].doc = meta /\ job'[j].ok = job[j].ok /\ job[j].at = "profiled"
        BY <2>2, JobTypes DEF LoadMeta, Job
      <3>2. meta' = meta /\ lock' = lock /\ exists' = exists /\ rerun' = rerun
        BY <2>2 DEF LoadMeta
      <3>3. Profiled(First)' = Profiled(First) /\ Pending' = Pending
        BY <2>1, <3>2 DEF Profiled, Pending
      <3>4. /\ job[j].at \in InFlight \ Unread /\ job'[j].at \in InFlight
            /\ job'[j].at \notin {"merged", "closing"}
        BY <3>1 DEF InFlight, Unread, JobStages
      <3>5. First \in lock /\ (job[j].answers = answers[First] \/ Pending)
        BY <1>2, <3>4 DEF AnswerInv, OneRun, Covered
      <3>6. QED
        BY <1>2, <1>3, <2>1, <3>1, <3>2, <3>3, <3>4, <3>5, AnswerKept
    <2>3. CASE StoreProfile(j)
      <3>1. /\ \A k \in Jobs \ {j} : job'[k] = job[k]
            /\ job'[j].at = "merged" /\ job'[j].did = job[j].did
            /\ job'[j].answers = job[j].answers
            /\ job'[j].doc = StartDoc /\ job'[j].ok = job[j].ok /\ job[j].at = "merging"
        BY <2>3, JobTypes DEF StoreProfile, Job
      <3>2. lock' = lock /\ exists' = exists /\ rerun' = rerun
        BY <2>3 DEF StoreProfile
      <3>3. Pending' = Pending
        BY <2>1, <3>2 DEF Pending
      <3>4. /\ job[j].at \in InFlight \ Unread /\ job'[j].at \in InFlight
        BY <3>1 DEF InFlight, Unread, JobStages
      <3>5. First \in lock /\ (job[j].answers = answers[First] \/ Pending)
        BY <1>2, <3>4 DEF AnswerInv, OneRun, Covered
      <3>6. /\ meta'.did = First
            /\ meta'.profile = [did |-> First, answers |-> job[j].answers]
        BY <1>3, <2>3, JobTypes DEF StoreProfile, Docs
      <3>7. job[j].answers = answers[First] => Profiled(First)'
        <4>1. [did |-> First, answers |-> job[j].answers] # NoProfile
          BY ConstantsAssumption, JobTypes
        <4>2. QED
          BY <2>1, <3>6, <4>1 DEF Profiled
      <3>8. StartDoc.did = First
        BY DEF StartDoc
      <3>9. QED
        BY <1>2, <1>3, <2>1, <3>1, <3>2, <3>3, <3>4, <3>5, <3>6, <3>7, <3>8, AnswerKept
    <2>4. CASE FindColumns(j)
      <3>1. /\ ~ \A k \in ColumnKeys : columns[job[j].did][k] = "absent"
            /\ job[j].at = "merged"
        BY <1>2, <1>3, <2>4 DEF FindColumns, GuessInv, Undisturbed, ColumnKeys
      <3>2. /\ \A k \in Jobs \ {j} : job'[k] = job[k]
            /\ job'[j].at = "closing" /\ job'[j].did = job[j].did
            /\ job'[j].answers = job[j].answers
            /\ job'[j].doc = job[j].doc /\ job'[j].ok = job[j].ok
        BY <2>4, <3>1, JobTypes DEF FindColumns, Move, Job
      <3>3. meta' = meta /\ lock' = lock /\ exists' = exists /\ rerun' = rerun
        BY <2>4 DEF FindColumns
      <3>4. Profiled(First)' = Profiled(First) /\ Pending' = Pending
        BY <2>1, <3>3 DEF Profiled, Pending
      <3>5. job[j].at \in InFlight \ Unread /\ job'[j].at \in InFlight
        BY <3>1, <3>2 DEF InFlight, Unread, JobStages
      <3>6. /\ First \in lock /\ (job[j].answers = answers[First] \/ Pending)
            /\ Profiled(First) \/ Pending
        BY <1>2, <3>1, <3>5 DEF AnswerInv, OneRun, Covered
      <3>7. QED
        BY <1>2, <1>3, <2>1, <3>2, <3>3, <3>4, <3>5, <3>6, AnswerKept
    <2>5. CASE ReleaseLock(j)
      <3>1. /\ \A k \in Jobs \ {j} : job'[k] = job[k]
            /\ job'[j].at = "released" /\ job'[j].did = job[j].did
            /\ job'[j].doc = job[j].doc /\ job'[j].ok = job[j].ok /\ job[j].at = "closing"
        BY <2>5, JobTypes DEF ReleaseLock, Move, Job
      <3>2. meta' = meta /\ exists' = exists /\ rerun' = rerun
        BY <2>5 DEF ReleaseLock
      <3>3. Profiled(First)' = Profiled(First) /\ Pending' = Pending
        BY <2>1, <3>2 DEF Profiled, Pending
      <3>4. /\ job[j].at \in InFlight /\ job'[j].at \notin InFlight
            /\ job'[j].at \notin {"merged", "closing"}
        BY <3>1 DEF InFlight, JobStages
      <3>5. Profiled(First) \/ Pending
        BY <1>2, <3>1 DEF AnswerInv, Covered
      <3>6. QED
        BY <1>2, <1>3, <2>1, <3>1, <3>2, <3>3, <3>4, <3>5, AnswerKept
    <2>6. CASE TakeRerun(j)
      <3>1. /\ \A k \in Jobs \ {j} : job'[k] = job[k]
            /\ job'[j] = NoJob /\ job[j].at = "released"
        BY <2>6, JobTypes DEF TakeRerun
      <3>2. NoJob.at = "free" /\ NoJob.did = First /\ NoJob.doc.did = First /\ NoJob.ok
        BY DEF NoJob, StartDoc
      <3>3. meta' = meta /\ lock' = lock
        BY <2>6 DEF TakeRerun
      <3>4. Profiled(First)' = Profiled(First)
        BY <2>1, <3>3 DEF Profiled
      <3>5. /\ Pending => Pending'
            /\ \A e \in Datasets \ {First} : exists'[e] = exists[e]
        <4>1. CASE First \in rerun
          BY <1>0, <1>3, <2>6, <4>1 DEF TakeRerun, EmitExists, Pending, TypeOK
        <4>2. CASE First \notin rerun
          BY <1>3, <2>1, <2>6, <4>2 DEF TakeRerun, Pending
        <4>3. QED
          BY <4>1, <4>2
      <3>6. /\ job[j].at \notin InFlight /\ job'[j].at \notin InFlight
            /\ job'[j].at \notin {"merged", "closing"}
        BY <3>1, <3>2 DEF InFlight, JobStages
      <3>7. QED
        BY <1>2, <1>3, <2>1, <3>1, <3>2, <3>3, <3>4, <3>5, <3>6, AnswerKept
    <2>7. CASE CompletionFails(j)
      BY <1>3, <2>7 DEF CompletionFails
    <2>8. CASE SkipGuess(j) \/ GuessFeatures(j) \/ GuessTarget(j) \/ MirrorGuess(j)
      BY <1>2, <2>8 DEF SkipGuess, GuessFeatures, GuessTarget, MirrorGuess, GuessInv, Undisturbed
    <2>9. QED
      BY <1>6, <2>2, <2>3, <2>4, <2>5, <2>6, <2>7, <2>8 DEF Completion
  <1>7. ASSUME NEW f \in Forms, Feedback(f) PROVE Goal
    <2>1. job' = job /\ lock' = lock
      BY <1>7 DEF Feedback, StoreAnswer, LoadForForm, StoreForForm, AskReprofile
    <2>2. Pending'
      <3>1. ASSUME NEW k \in Keys, StoreAnswer(f, k) PROVE Pending'
        BY <3>1 DEF StoreAnswer, Pending, TypeOK, Form
      <3>2. CASE LoadForForm(f)
        BY <3>2 DEF LoadForForm, Pending, TypeOK, Form
      <3>3. CASE StoreForForm(f)
        BY <3>3 DEF StoreForForm, Pending, TypeOK, Form
      <3>4. CASE AskReprofile(f)
        <4>1. exists' = [exists EXCEPT ![First] = @ + 1] /\ exists \in [Datasets -> Nat]
          BY <1>3, <3>4 DEF AskReprofile, EmitExists, TypeOK
        <4>2. exists'[First] > 0
          BY <1>0, <4>1
        <4>3. QED
          BY <4>2 DEF Pending
      <3>5. QED
        BY <1>7, <3>1, <3>2, <3>3, <3>4 DEF Feedback
    <2>3. meta'.did = First /\ \A e \in Datasets \ {First} : exists'[e] = 0
      BY <1>3, <1>7 DEF Feedback, StoreAnswer, LoadForForm, StoreForForm, AskReprofile,
         EmitExists, TypeOK
    <2>4. \A g \in Forms : form'[g].doc.did = First
      <3>1. \A g \in Forms : form'[g].doc \in {form[g].doc, meta, StartDoc}
        <4>1. ASSUME NEW k \in Keys, StoreAnswer(f, k)
              PROVE  \A g \in Forms : form'[g].doc \in {form[g].doc, meta, StartDoc}
          BY <4>1 DEF StoreAnswer, TypeOK, Form
        <4>2. CASE LoadForForm(f)
          BY <4>2 DEF LoadForForm, TypeOK, Form
        <4>3. CASE StoreForForm(f)
          BY <4>3 DEF StoreForForm, TypeOK, Form
        <4>4. CASE AskReprofile(f)
          BY <4>4 DEF AskReprofile, TypeOK, Form
        <4>5. QED
          BY <1>7, <4>1, <4>2, <4>3, <4>4 DEF Feedback
      <3>2. QED
        BY <1>3, <3>1 DEF StartDoc
    <2>5. QED
      BY <1>2, <2>1, <2>2, <2>3, <2>4, AnswerAsked
  <1>8. CASE User
    <2>1. ASSUME NEW f \in Forms, NEW asked \in SUBSET ColumnKeys, SubmitForm(f, asked)
          PROVE  Goal
      <3>1. meta' = meta /\ job' = job /\ lock' = lock /\ exists' = exists
        BY <2>1 DEF SubmitForm
      <3>2. Pending'
        BY <2>1 DEF SubmitForm, Pending, TypeOK
      <3>3. \A g \in Forms : form'[g].doc.did = First
        BY <1>3, <2>1 DEF SubmitForm, TypeOK, StartDoc
      <3>4. QED
        BY <1>2, <1>3, <3>1, <3>2, <3>3, AnswerAsked
    <2>2. CASE VerifyProfiling
      <3>1. /\ meta' = meta /\ job' = job /\ lock' = lock /\ answers' = answers /\ form' = form
            /\ \A e \in Datasets \ {First} : exists'[e] = exists[e]
        BY <1>3, <2>2 DEF VerifyProfiling, EmitExists, TypeOK
      <3>2. Pending'
        BY <1>0, <1>3, <2>2 DEF VerifyProfiling, EmitExists, Pending, TypeOK
      <3>3. QED
        BY <1>2, <1>3, <3>1, <3>2, AnswerIdle
    <2>3. QED
      BY <1>1, <1>8, <2>1, <2>2 DEF User
  <1>9. CASE UNCHANGED vars
    <2>1. Profiled(First)' = Profiled(First) /\ Pending' = Pending
      BY <1>9 DEF vars, Profiled, Pending
    <2>2. QED
      BY <1>2, <1>3, <1>9, <2>1, AnswerIdle DEF vars
  <1>10. QED
    BY <1>1, <1>4, <1>5, <1>6, <1>7, <1>8, <1>9 DEF Next

\* AnswerInv holds at the start: the first DataExists is under way.
LEMMA AnswerInit == Init => AnswerInv
  <1> SUFFICES ASSUME Init PROVE OnlyFirst /\ OneRun /\ Covered
    BY DEF AnswerInv
  <1>1. \A j \in Jobs : job[j] = NoJob /\ job[j].at = "free"
    BY DEF Init, NoJob
  <1>2. OnlyFirst
    BY <1>1 DEF Init, OnlyFirst, NoJob, NewForm, StartDoc
  <1>3. OneRun
    BY <1>1 DEF OneRun, InFlight
  <1>4. Pending
    BY ConstantsAssumption DEF Init, Pending
  <1>5. QED
    BY <1>2, <1>3, <1>4 DEF Covered

\* Undisturbed by faults, edits and replacements, the stored answers are profiled or will
\* be, unless a rerun flag was left behind.
THEOREM AnswerTheorem == Spec => []OnlyAStrandedRerunLosesAnAnswer
  <1>1. TypeOK /\ AnswerInv => OnlyAStrandedRerunLosesAnAnswer
    <2> SUFFICES ASSUME TypeOK, AnswerInv, Undisturbed
                 PROVE  Profiled(meta.did) \/ OnItsWay(meta.did) \/ meta.did \in rerun
      BY DEF OnlyAStrandedRerunLosesAnAnswer
    <2>1. OnlyFirst /\ Covered
      BY DEF AnswerInv
    <2>2. Pending => OnItsWay(First) \/ First \in rerun
      BY DEF Pending, OnItsWay
    <2>3. CASE \A j \in Jobs : job[j].at \notin InFlight
      BY <2>1, <2>2, <2>3 DEF OnlyFirst, Covered
    <2>4. CASE \E j \in Jobs : job[j].at \in InFlight
      <3>1. PICK j \in Jobs : job[j].at \in InFlight
        BY <2>4
      <3>2. CASE job[j].at \in Unread
        BY <2>1, <3>2 DEF OnlyFirst, OnItsWay
      <3>3. CASE job[j].at \notin Unread
        BY <2>1, <2>2, <3>1, <3>3 DEF OnlyFirst, Covered, OnItsWay
      <3>4. QED
        BY <3>2, <3>3
    <2>5. QED
      BY <2>3, <2>4
  <1>2. TypeOK /\ GuessInv /\ AnswerInv /\ [Next]_vars => AnswerInv'
    BY AnswerStep
  <1>3. TypeOK /\ GuessInv /\ [Next]_vars => GuessInv'
    BY GuessStep
  <1>4. QED
    BY <1>1, <1>2, <1>3, AnswerInit, GuessInit, TypeTheorem, PTL DEF Spec
=============================================================================
