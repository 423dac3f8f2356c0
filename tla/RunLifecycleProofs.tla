------------------------- MODULE RunLifecycleProofs -------------------------
(***************************************************************************)
(* Proofs about RunLifecycle, for every finite set of nodes and every      *)
(* dependency function: type correctness, what a terminal record says of   *)
(* the run, that the record is never rewritten, and that node statuses     *)
(* move legally until a run is given up.                                   *)
(***************************************************************************)
EXTENDS RunLifecycle, TLAPS

\* The orchestrator's program counter determines the verdict and the record.
PhaseInv ==
  /\ pc \in Early => /\ runner = "idle" /\ results = {} /\ outcome = "none"
                     /\ elided = {} /\ cur = NoNode
  /\ pc \in {"requested", "rejected", "created", "started", "marking", "expanding"} =>
       node = NoStates
  /\ pc = "seeded" => \A n \in Nodes : node[n] = "PENDING"
  /\ pc \in Early \cup Waiting => verdict = "none" /\ cause = "none"
  /\ pc \in Early \cup Waiting \cup Deciding => status \notin RunTerminal
  /\ pc \in Deciding \cup Concluding => verdict # "none"
  /\ pc \in Concluding => status = FinalStatus
  /\ pc \in {"sweep", "clear"} => verdict # "ok"
  /\ pc = "clear" => verdict = "cancelled"
  /\ runner = "dead" => pc = "crashed"

\* The runner: what its program counter says of its local state.
RunnerInv ==
  /\ runner \in {"idle", "picking", "entering", "executing"} => outcome = "none"
  /\ runner \in {"entering", "executing"} => cur \in Nodes \ results
  /\ runner \notin {"entering", "executing", "dead"} => cur = NoNode
  /\ runner \in {"finishing", "done"} /\ outcome = "none" => Nodes \subseteq results \cup elided

\* Unless the run was given up, the runner's keys are as the runner left them.
KeysInv ==
  ~GivenUp =>
    /\ \A n \in results : node[n] = "SUCCESS"
    /\ runner \in {"picking", "entering", "executing"} =>
         \A n \in Nodes \ results :
           node[n] = IF runner = "executing" /\ n = cur THEN "RUNNING" ELSE "PENDING"

\* Unless the run was given up, a verdict is reached only after the runner stopped, so
\* the orchestrator's snapshot stays equal to the keys.
VerdictInv ==
  /\ verdict # "none" /\ ~GivenUp => runner \in {"done", "dead"}
  /\ verdict = "ok" => outcome = "none" /\ Nodes \subseteq results \cup elided
  /\ pc \in {"sweep", "finalise"} /\ ~GivenUp => snap = node
  /\ pc = "finalise" /\ verdict = "failed" /\ ~faulty => \A n \in Nodes : node[n] \notin Unsettled
  /\ status = "SUCCESS" => runner \in {"done", "dead"}
  /\ status = "FAILED" /\ ~faulty => runner \in {"done", "dead"}

\* Which terminal events have been emitted at each point.
EventsInv ==
  /\ pc \in (Early \ {"stageFailed"}) \cup Waiting => announced = {}
  /\ pc = "stageFailed" => announced = {"PipelineRunFailed"}
  /\ pc \in Deciding \cup {"announce"} /\ cause # "timeout" => announced = {}
  /\ verdict \in {"ok", "failed"} => cause = "none"
  /\ \A e, f \in announced : e # f => cause = "timeout"
  /\ pc \in {"persist", "persisting", "done"} => RunEvent(status) \in announced

Unsaid == {"NONE", "NOMETA", "RUNNING", Nothing}

\* The session meta: until step 8 it names no outcome, and neither does what another
\* handler has read of it; afterwards it may name this one.
MetaInv ==
  /\ pc \notin {"done", "crashed"} => lastRun \in Unsaid /\ held \in Unsaid
  /\ pc = "done" => /\ lastRun \in Unsaid \cup {status} /\ held \in Unsaid \cup {status}
                    /\ lastRun \in {status, "NOMETA"} \/ faulty \/ overwritten

IInv ==
  /\ MetaInv
  /\ TypeOK /\ PhaseInv /\ RunnerInv /\ KeysInv /\ VerdictInv /\ EventsInv
  /\ SuccessIsReal /\ FailedRunIsSettled

-----------------------------------------------------------------------------

\* Every initial state satisfies the invariant.
LEMMA InitInv == Init => IInv
  BY DEF Init, IInv, MetaInv, Unsaid, LastRuns, Nothing, TypeOK, PhaseInv, RunnerInv, KeysInv, VerdictInv, EventsInv,
     SuccessIsReal, FailedRunIsSettled, NoStates, NoNode, NodeStatus, PipelineRunStatus,
     RunTerminal, Unsettled, Early, Waiting, Deciding, Concluding, RunnerAlive, GivenUp

\* Every step of either thread, of the user, the clock or the machine preserves it.
LEMMA StepInv == IInv /\ [Next]_vars => IInv'
  <1> SUFFICES ASSUME IInv, [Next]_vars PROVE IInv'
    OBVIOUS
  <1> USE NodesAssumption, DepsAssumption
  <1> USE DEF IInv, MetaInv, Unsaid, LastRuns, Nothing, TypeOK, PhaseInv, RunnerInv, KeysInv, VerdictInv, EventsInv,
          SuccessIsReal, FailedRunIsSettled, NoStates, NodeStatus, PipelineRunStatus,
          RunTerminal, Unsettled, Early, Waiting, Deciding, Concluding, RunnerAlive,
          RunEvents, redisVars, orchVars, runnerVars, history, metaVars, vars, Goto, FinalStatus,
          GivenUp
  <1>1. CASE RejectRequest
    BY <1>1 DEF RejectRequest
  <1>2. CASE CreateRun
    BY <1>2 DEF CreateRun
  <1>3. CASE FailStage
    <2>1. TypeOK'
      BY <1>3 DEF FailStage
    <2>2. PhaseInv'
      BY <1>3 DEF FailStage
    <2>3. RunnerInv'
      BY <1>3 DEF FailStage
    <2>4. KeysInv'
      BY <1>3 DEF FailStage
    <2>5. VerdictInv'
      BY <1>3 DEF FailStage
    <2>6. EventsInv'
      BY <1>3 DEF FailStage
    <2>7. SuccessIsReal'
      BY <1>3 DEF FailStage
    <2>8. MetaInv'
      BY <1>3 DEF FailStage
    <2>9. FailedRunIsSettled'
      BY <1>3 DEF FailStage
    <2> QED BY <2>1, <2>2, <2>3, <2>4, <2>5, <2>6, <2>7, <2>8, <2>9
  <1>4. CASE StartRun
    BY <1>4 DEF StartRun
  <1>5. CASE ReadMetaAtStart
    BY <1>5 DEF ReadMetaAtStart, ReadMeta
  <1>6. CASE MarkLastRunRunning
    BY <1>6 DEF MarkLastRunRunning, SetLastRun
  <1>7. CASE SeedNodes
    BY <1>7 DEF SeedNodes
  <1>8. CASE LaunchRunner
    <2>1. TypeOK'
      BY <1>8 DEF LaunchRunner
    <2>2. PhaseInv'
      BY <1>8 DEF LaunchRunner
    <2>3. RunnerInv'
      BY <1>8 DEF LaunchRunner
    <2>4. KeysInv'
      BY <1>8 DEF LaunchRunner
    <2>5. VerdictInv'
      BY <1>8 DEF LaunchRunner
    <2>6. EventsInv'
      BY <1>8 DEF LaunchRunner
    <2>7. SuccessIsReal'
      BY <1>8 DEF LaunchRunner
    <2>8. MetaInv'
      BY <1>8 DEF LaunchRunner
    <2>9. FailedRunIsSettled'
      BY <1>8 DEF LaunchRunner
    <2> QED BY <2>1, <2>2, <2>3, <2>4, <2>5, <2>6, <2>7, <2>8, <2>9
  <1>9. CASE PollWait
    BY <1>9 DEF PollWait
  <1>10. CASE PollCancelled
    BY <1>10 DEF PollCancelled
  <1>11. CASE PollTimeout
    BY <1>11 DEF PollTimeout
  <1>12. CASE PollAgain
    BY <1>12 DEF PollAgain
  <1>13. CASE PollDone
    BY <1>13 DEF PollDone
  <1>14. CASE GatherNodeStates
    BY <1>14 DEF GatherNodeStates
  <1>15. CASE Regather
    BY <1>15 DEF Regather
  <1>16. CASE ClearCancelFlag
    <2>a. cancelFlag' \in BOOLEAN
      BY <1>16, Zenon DEF ClearCancelFlag
    <2>1. TypeOK'
      BY <1>16, <2>a DEF ClearCancelFlag
    <2>2. PhaseInv'
      BY <1>16 DEF ClearCancelFlag
    <2>3. RunnerInv'
      BY <1>16 DEF ClearCancelFlag
    <2>4. KeysInv'
      BY <1>16 DEF ClearCancelFlag
    <2>5. VerdictInv'
      BY <1>16 DEF ClearCancelFlag
    <2>6. EventsInv'
      BY <1>16 DEF ClearCancelFlag
    <2>7. SuccessIsReal'
      BY <1>16 DEF ClearCancelFlag
    <2>8. MetaInv'
      BY <1>16 DEF ClearCancelFlag
    <2>9. FailedRunIsSettled'
      BY <1>16 DEF ClearCancelFlag
    <2> QED BY <2>1, <2>2, <2>3, <2>4, <2>5, <2>6, <2>7, <2>8, <2>9
  <1>17. CASE Finalise
    BY <1>17 DEF Finalise
  <1>18. CASE Announce
    BY <1>18 DEF Announce, RunEvent
  <1>19. CASE ReadMetaAtEnd
    BY <1>19 DEF ReadMetaAtEnd, ReadMeta
  <1>20. CASE PersistLastRun
    BY <1>20 DEF PersistLastRun, SetLastRun
  <1>21. CASE NodeRunning
    BY <1>21 DEF NodeRunning
  <1>22. CASE NodeSuccess
    BY <1>22 DEF NodeSuccess
  <1>23. CASE NodeFailed
    BY <1>23 DEF NodeFailed
  <1>24. CASE RunnerError
    BY <1>24 DEF RunnerError
  <1>25. CASE WalkEnds
    BY <1>25 DEF WalkEnds
  <1>26. CASE RunnerDone
    BY <1>26 DEF RunnerDone
  <1>27. CASE DeadlinePasses
    BY <1>27 DEF DeadlinePasses
  <1>28. CASE CancelPipeline
    BY <1>28 DEF CancelPipeline
  <1>29. CASE CancelFlagExpires
    <2>a. cancelFlag' \in BOOLEAN
      BY <1>29, Zenon DEF CancelFlagExpires
    <2>1. TypeOK'
      BY <1>29, <2>a DEF CancelFlagExpires
    <2>2. PhaseInv'
      BY <1>29 DEF CancelFlagExpires
    <2>3. RunnerInv'
      BY <1>29 DEF CancelFlagExpires
    <2>4. KeysInv'
      BY <1>29 DEF CancelFlagExpires
    <2>5. VerdictInv'
      BY <1>29 DEF CancelFlagExpires
    <2>6. EventsInv'
      BY <1>29 DEF CancelFlagExpires
    <2>7. SuccessIsReal'
      BY <1>29 DEF CancelFlagExpires
    <2>8. MetaInv'
      BY <1>29 DEF CancelFlagExpires
    <2>9. FailedRunIsSettled'
      BY <1>29 DEF CancelFlagExpires
    <2> QED BY <2>1, <2>2, <2>3, <2>4, <2>5, <2>6, <2>7, <2>8, <2>9
  <1>30. CASE Crash
    BY <1>30 DEF Crash
  <1>31. ASSUME NEW n \in Nodes, SweepNode(n) PROVE IInv'
    <2>1. TypeOK'
      BY <1>31 DEF SweepNode
    <2>2. PhaseInv'
      BY <1>31 DEF SweepNode
    <2>3. RunnerInv'
      BY <1>31 DEF SweepNode
    <2>4. KeysInv'
      BY <1>31 DEF SweepNode
    <2>5. VerdictInv'
      BY <1>31 DEF SweepNode
    <2>6. EventsInv'
      BY <1>31 DEF SweepNode
    <2>7. SuccessIsReal'
      BY <1>31 DEF SweepNode
    <2>8. MetaInv'
      BY <1>31 DEF SweepNode
    <2>9. FailedRunIsSettled'
      BY <1>31 DEF SweepNode
    <2> QED BY <2>1, <2>2, <2>3, <2>4, <2>5, <2>6, <2>7, <2>8, <2>9
  <1>32. ASSUME NEW n \in Nodes, FireCancelled(n) PROVE IInv'
    BY <1>32 DEF FireCancelled, Ready
  <1>33. ASSUME NEW n \in Nodes, FireNode(n) PROVE IInv'
    BY <1>33 DEF FireNode, Ready
  <1>34. CASE UNCHANGED vars
    BY <1>34
  <1>35. CASE OrchestratorRedisError
    BY <1>35 DEF OrchestratorRedisError
  <1>36. CASE OtherReadsMeta
    BY <1>36 DEF OtherReadsMeta
  <1>37. CASE OtherWritesMeta
    <2>a. overwritten' \in BOOLEAN
      BY <1>37, Zenon DEF OtherWritesMeta
    <2>1. TypeOK'
      BY <1>37, <2>a DEF OtherWritesMeta
    <2>2. PhaseInv'
      BY <1>37 DEF OtherWritesMeta
    <2>3. RunnerInv'
      BY <1>37 DEF OtherWritesMeta
    <2>4. KeysInv'
      BY <1>37 DEF OtherWritesMeta
    <2>5. VerdictInv'
      BY <1>37 DEF OtherWritesMeta
    <2>6. EventsInv'
      BY <1>37 DEF OtherWritesMeta
    <2>7. SuccessIsReal'
      BY <1>37 DEF OtherWritesMeta
    <2>8. FailedRunIsSettled'
      BY <1>37 DEF OtherWritesMeta
    <2>9. MetaInv'
      BY <1>37 DEF OtherWritesMeta
    <2> QED BY <2>1, <2>2, <2>3, <2>4, <2>5, <2>6, <2>7, <2>8, <2>9
  <1>38. QED
    BY <1>1, <1>2, <1>3, <1>4, <1>5, <1>6, <1>7, <1>8, <1>9, <1>10, <1>11, <1>12,
       <1>13, <1>14, <1>15, <1>16, <1>17, <1>18, <1>19, <1>20, <1>21, <1>22, <1>23,
       <1>24, <1>25, <1>26, <1>27, <1>28, <1>29, <1>30, <1>31, <1>32, <1>33, <1>34,
       <1>35, <1>36, <1>37
    DEF Next, Orchestrate, Walk

\* The invariant holds throughout every behaviour.
THEOREM Invariance == Spec => []IInv
  <1>1. Init => IInv
    BY InitInv
  <1>2. IInv /\ [Next]_vars => IInv'
    BY StepInv
  <1>3. QED
    BY <1>1, <1>2, PTL DEF Spec

\* Statuses, program counters and the other variables keep their types.
THEOREM TypeCorrect == Spec => []TypeOK
  <1>1. IInv => TypeOK
    BY DEF IInv
  <1>2. QED
    BY <1>1, Invariance, PTL

\* A run recorded SUCCESS executed every node that the cache did not serve, and was
\* announced under no other name (run_pipeline steps 5 to 7).
THEOREM SuccessTheorem == Spec => []SuccessIsReal
  <1>1. IInv => SuccessIsReal
    BY DEF IInv
  <1>2. QED
    BY <1>1, Invariance, PTL

\* A run recorded FAILED left nothing pending or running, and its summary stays
\* equal to the node keys (the sweep of step 5 against the runner's writes).
THEOREM FailureTheorem == Spec => []FailedRunIsSettled
  <1>1. IInv => FailedRunIsSettled
    BY DEF IInv
  <1>2. QED
    BY <1>1, Invariance, PTL

\* When run_pipeline has returned, record and event agree, the session meta names no
\* other outcome, and only a timeout is announced under two names.
THEOREM ReportsTheorem == Spec => []ReportsAgree
  <1>1. IInv => ReportsAgree
    <2> SUFFICES ASSUME IInv PROVE ReportsAgree
      OBVIOUS
    <2>1. pc = "done" => status \in RunTerminal
      BY DEF IInv, PhaseInv, Concluding, FinalStatus, RunTerminal
    <2>2. pc = "done" => RunEvent(status) \in announced
      BY DEF IInv, EventsInv
    <2>3. ASSUME pc = "done", lastRun \notin {status, "NOMETA"}
          PROVE (faulty \/ overwritten) /\ lastRun \in {"NONE", "RUNNING"}
      BY <2>3 DEF IInv, TypeOK, MetaInv, Unsaid, LastRuns, Nothing, PipelineRunStatus
    <2>4. (\E e, f \in announced : e # f) => cause = "timeout"
      BY DEF IInv, EventsInv
    <2>5. QED
      BY <2>1, <2>2, <2>3, <2>4 DEF ReportsAgree
  <1>2. QED
    BY <1>1, Invariance, PTL

\* No step rewrites the record of a terminal run: not the orchestrator, which is past
\* Finalise, and not an abandoned runner, which writes node keys only.
THEOREM RecordTheorem == Spec => RecordIsFinal
  <1>1. IInv /\ [Next]_vars => [(status \in RunTerminal) => UNCHANGED <<status, summary>>]_vars
    <2> SUFFICES ASSUME IInv, Next, status \in RunTerminal
                 PROVE UNCHANGED <<status, summary>>
      BY DEF vars
    <2>1. pc \in Concluding \cup {"crashed"}
      BY DEF IInv, TypeOK, PhaseInv
    <2>2. CASE Orchestrate
      BY <2>1, <2>2 DEF Orchestrate, RejectRequest, CreateRun, FailStage, StartRun,
         ReadMetaAtStart, MarkLastRunRunning, SeedNodes, LaunchRunner, PollWait, PollCancelled, PollTimeout,
         PollAgain, PollDone, GatherNodeStates, SweepNode, Regather, ClearCancelFlag,
         Finalise, Announce, ReadMetaAtEnd, PersistLastRun, Goto, Concluding, redisVars
    <2>3. CASE Walk
      BY <2>3 DEF Walk, FireCancelled, FireNode, NodeRunning, NodeSuccess, NodeFailed,
         RunnerError, WalkEnds, RunnerDone, redisVars
    <2>4. CASE DeadlinePasses \/ CancelPipeline \/ CancelFlagExpires
              \/ OtherReadsMeta \/ OtherWritesMeta \/ OrchestratorRedisError \/ Crash
      BY <2>4 DEF DeadlinePasses, CancelPipeline, CancelFlagExpires,
         OtherReadsMeta, OtherWritesMeta, OrchestratorRedisError, Crash, redisVars
    <2>5. QED
      BY <2>2, <2>3, <2>4 DEF Next
  <1>2. QED
    BY <1>1, Invariance, PTL DEF Spec, RecordIsFinal

\* Until a run is given up, the two threads move every node only along
\* the transitions that the Rust port of the state machine validates.
THEOREM LegalTheorem == Spec => NodesMoveLegally
  <1> DEFINE Legal == ~GivenUp =>
                        \A n \in Nodes : LegalTransition(node[n], node'[n])
  <1>1. IInv /\ [Next]_vars => [Legal]_vars
    <2> SUFFICES ASSUME IInv, Next, ~GivenUp, NEW m \in Nodes
                 PROVE LegalTransition(node[m], node'[m])
      BY DEF vars
    <2> USE DEF LegalTransition
    <2>1. CASE node' = node
      BY <2>1
    <2>2. CASE SeedNodes
      BY <2>2 DEF SeedNodes, Goto, IInv, PhaseInv, NoStates
    <2>3. ASSUME NEW n \in Nodes, SweepNode(n)
          PROVE LegalTransition(node[m], node'[m])
      BY <2>3 DEF SweepNode, IInv, TypeOK, PhaseInv, VerdictInv, Unsettled, Deciding, GivenUp
    <2>4. ASSUME NEW n \in Nodes, FireCancelled(n)
          PROVE LegalTransition(node[m], node'[m])
      BY <2>4 DEF FireCancelled, Ready, IInv, TypeOK, RunnerInv, KeysInv
    <2>5. CASE NodeRunning
      BY <2>5 DEF NodeRunning, IInv, TypeOK, RunnerInv, KeysInv
    <2>6. CASE NodeSuccess \/ NodeFailed
      BY <2>6 DEF NodeSuccess, NodeFailed, IInv, TypeOK, RunnerInv, KeysInv
    <2>7. CASE Orchestrate
      BY <2>1, <2>2, <2>3, <2>7 DEF Orchestrate, RejectRequest, CreateRun, FailStage,
         StartRun, ReadMetaAtStart, MarkLastRunRunning, LaunchRunner, PollWait, PollCancelled, PollTimeout,
         PollAgain, PollDone, GatherNodeStates, Regather, ClearCancelFlag, Finalise,
         Announce, ReadMetaAtEnd, PersistLastRun, redisVars
    <2>8. CASE Walk
      BY <2>1, <2>4, <2>5, <2>6, <2>8 DEF Walk, FireNode, RunnerError, WalkEnds,
         RunnerDone, redisVars
    <2>9. CASE DeadlinePasses \/ CancelPipeline \/ CancelFlagExpires
              \/ OtherReadsMeta \/ OtherWritesMeta \/ OrchestratorRedisError \/ Crash
      BY <2>1, <2>9 DEF DeadlinePasses, CancelPipeline, CancelFlagExpires,
         OtherReadsMeta, OtherWritesMeta, OrchestratorRedisError, Crash, redisVars
    <2>10. QED
      BY <2>7, <2>8, <2>9 DEF Next
  <1>2. QED
    BY <1>1, Invariance, PTL DEF Spec, NodesMoveLegally
=============================================================================
