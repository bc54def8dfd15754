------------------------ MODULE TaskLifecycle_proofs ------------------------
(***************************************************************************)
(* Theorems about TaskLifecycle, for any tasks, any number of worker       *)
(* slots, any retry budget and any number of faults.                       *)
(***************************************************************************)
EXTENDS TaskLifecycle, TLAPS

-----------------------------------------------------------------------------
(* Types *)

Runs == [Slots -> {Idle} \cup Run]

\* Nothing is asked, queued, called for or run for a task that was never created.
Created(t) == row[t].status # "absent"
Known ==
    /\ \A t \in Tasks : approvals[t] # {} => Created(t)
    /\ \A c \in calls : Created(c.task)
    /\ \A j \in queue : Created(j.task)
    /\ \A w \in Slots : run[w] = Idle \/ Created(run[w].job.task)

TypeInv == TypeOK /\ Known

\* A step of w's run that stays in its slot, with its job.
HandsOn(w) == /\ run' \in Runs
              /\ run' = [run EXCEPT ![w] = run'[w]]
              /\ run'[w].job = run[w].job

\* A slot that is not idle carries a run.
LEMMA BusySlot ==
    ASSUME run \in Runs, NEW w \in Slots, run[w].pc # "idle"
    PROVE  run[w] \in Run /\ TaskOf(w) \in Tasks /\ run[w].job \in Job
PROOF BY DEF Runs, Run, Idle, TaskOf, Job

\* What a run starts from is a run.
LEMMA BeginType == ASSUME NEW job \in Job PROVE Begin(job) \in Run
PROOF BY DEF Begin, Run, EmptySnap, Snapshot, RunPCs, Statuses, Deliveries

\* The ways a step hands its slot on keep the slots well formed, and keep the job.
LEMMA GotoType ==
    ASSUME run \in Runs, NEW w \in Slots, run[w] \in Run, NEW pc \in RunPCs, Goto(w, pc),
           pc \in {"select", "insert"} => run[w].ask # "none"
    PROVE  HandsOn(w)
PROOF BY DEF HandsOn, Goto, Runs, Run

LEMMA AgainType ==
    ASSUME run \in Runs, NEW w \in Slots, run[w] \in Run, Again(w)
    PROVE  HandsOn(w)
<1>1. run[w].job \in Job BY DEF Run
<1>2. Begin(run[w].job) \in Run /\ Begin(run[w].job).job = run[w].job
  BY <1>1, BeginType DEF Begin
<1> QED BY <1>2 DEF HandsOn, Again, Runs

LEMMA EndRunType ==
    ASSUME run \in Runs, NEW w \in Slots, run[w] \in Run, NEW threw \in BOOLEAN,
           EndRun(w, threw)
    PROVE  HandsOn(w)
<1>1. run[w].job \in Job BY DEF Run
<1>2. Begin(run[w].job) \in Run /\ Begin(run[w].job).job = run[w].job
  BY <1>1, BeginType DEF Begin
<1>3. [Begin(run[w].job) EXCEPT !.pc = "release", !.threw = threw] \in Run
  BY <1>2 DEF Run, RunPCs
<1> QED BY <1>2, <1>3 DEF HandsOn, EndRun, Runs

LEMMA SettleToType ==
    ASSUME run \in Runs, NEW w \in Slots, run[w] \in Run, NEW status \in Statuses,
           SettleTo(w, status)
    PROVE  HandsOn(w)
PROOF BY DEF HandsOn, SettleTo, Runs, Run, RunPCs

LEMMA AskForType ==
    ASSUME run \in Runs, NEW w \in Slots, run[w] \in Run, NEW action \in Actions,
           NEW auto \in BOOLEAN, NEW next \in Statuses,
           AskFor(w, action, auto, next)
    PROVE  HandsOn(w)
<1> DEFINE asks == [run[w] EXCEPT !.pc = "select", !.ask = action, !.auto = auto,
                                  !.next = next]
<1>1. action # "none" BY DEF Actions, ToolGates
<1>2. asks \in Run /\ asks.job = run[w].job BY <1>1 DEF Run, RunPCs
<1>3. run' = [run EXCEPT ![w] = asks] BY DEF AskFor, Runs
<1> QED BY <1>2, <1>3 DEF HandsOn, Runs

LEMMA PlanType ==
    ASSUME run \in Runs, NEW w \in Slots, run[w] \in Run, row[TaskOf(w)] \in Row,
           run' = [run EXCEPT ![w].pc = "select", ![w].ask = "implementation_plan",
                              ![w].next = "waiting_approval",
                              ![w].plan = row[TaskOf(w)].plan + 1]
    PROVE  HandsOn(w)
<1> DEFINE n == row[TaskOf(w)].plan + 1
           asks == [run[w] EXCEPT !.pc = "select", !.ask = "implementation_plan",
                                  !.next = "waiting_approval", !.plan = n]
<1>1. n \in Nat BY DEF Row
<1>2. run' = [run EXCEPT ![w] = asks] BY DEF Runs
<1> HIDE DEF n
<1>3. asks \in Run /\ asks.job = run[w].job BY <1>1 DEF Run, RunPCs, Actions, Statuses
<1> HIDE DEF asks
<1>4. run'[w] = asks BY <1>2 DEF Runs
<1>5. run' \in Runs BY <1>2, <1>3 DEF Runs
<1> QED BY <1>2, <1>3, <1>4, <1>5 DEF HandsOn

LEMMA AskedType ==
    ASSUME run \in Runs, NEW w \in Slots, run[w] \in Run, Asked(w)
    PROVE  HandsOn(w)
<1> DEFINE looping == InLoop(w)
<1>1. looping \in BOOLEAN BY DEF InLoop
<1>2. run' = [run EXCEPT ![w].pc = "settle", ![w].ws = looping, ![w].ask = "none",
                        ![w].auto = FALSE, ![w].plan = 0]
  BY DEF Asked
<1> HIDE DEF looping
<1> QED BY <1>1, <1>2 DEF HandsOn, Runs, Run, RunPCs

\* A transition keeps the rows typed, forgets no task, and hands the run on.
LEMMA TransitionType ==
    ASSUME TypeOK, NEW w \in Slots, run[w] \in Run, NEW to \in Statuses,
           Transition(w, to)
    PROVE  /\ row' \in [Tasks -> Row]
           /\ \A t \in Tasks : Created(t) => Created(t)'
           /\ HandsOn(w)
<1>1. run \in Runs BY DEF TypeOK, Runs
<1>2. TaskOf(w) \in Tasks BY DEF Run, TaskOf, Job
<1>3. row' \in [Tasks -> Row] /\ \A t \in Tasks : Created(t) => Created(t)'
  <2>1. row' = row \/ row' = [row EXCEPT ![TaskOf(w)].status = to] BY DEF Transition
  <2>2. to # "absent" BY DEF Statuses
  <2> QED BY <2>1, <2>2, <1>2 DEF TypeOK, Row, Created
<1>4. Again(w) \/ EndRun(w, FALSE) \/ EndRun(w, TRUE) BY DEF Transition
<1>5. HandsOn(w) BY <1>1, <1>4, AgainType, EndRunType
<1> QED BY <1>3, <1>5

\* What is known of every job survives a step of one run.
LEMMA KnownKept ==
    ASSUME TypeInv, NEW w \in Slots, run[w] \in Run, HandsOn(w),
           calls' = calls, queue' = queue,
           \A t \in Tasks : approvals'[t] # {} => Created(t),
           \A t \in Tasks : Created(t) => Created(t)'
    PROVE  Known'
<1>1. \A c \in calls : c.task \in Tasks BY DEF TypeInv, TypeOK, Call
<1>2. \A j \in queue : j.task \in Tasks BY DEF TypeInv, TypeOK, Job
<1>3. \A v \in Slots : run[v] = Idle \/ run[v].job.task \in Tasks
  BY DEF TypeInv, TypeOK, Run, Job
<1>4. run[w] # Idle BY DEF Run, RunPCs, Idle
<1>5. \A v \in Slots : run'[v] = run[v] \/ (run'[v].job = run[v].job /\ run[v] # Idle)
  BY <1>4 DEF HandsOn, TypeInv, TypeOK
<1> QED BY <1>1, <1>2, <1>3, <1>5 DEF TypeInv, Known

\* The type invariant of the initial states.
LEMMA TypeInit == Init => TypeInv
PROOF BY ConstantsAssumption
      DEF Init, TypeInv, TypeOK, Known, Row, Deliveries, Tree, Created, Idle, Run

-----------------------------------------------------------------------------
(* One lemma for each group of actions *)

LEMMA TypeOfAPI ==
    ASSUME TypeInv, NEW t \in Tasks,
           \/ Create(t) \/ Cancel(t) \/ Reclaim(t)
           \/ Decide(t, "approved") \/ Decide(t, "rejected")
    PROVE  TypeInv'
<1>1. CASE Create(t)
  BY <1>1 DEF Create, TypeInv, TypeOK, Known, Created, Row, Statuses, Call, Job, Run,
              environment, disk, Idle
<1>2. CASE Cancel(t)
  <2>1. row' \in [Tasks -> Row] /\ \A u \in Tasks : Created(u) => Created(u)'
    BY <1>2 DEF Cancel, TypeInv, TypeOK, Created, Row, Statuses
  <2>2. queue' \subseteq queue BY <1>2 DEF Cancel
  <2>3. Known'
    BY <1>2, <2>1, <2>2 DEF Cancel, TypeInv, TypeOK, Known, Call, Job, Run
  <2> QED BY <1>2, <2>1, <2>2, <2>3 DEF Cancel, TypeInv, TypeOK, environment, disk
<1>3. CASE Reclaim(t)
  BY <1>3 DEF Reclaim, Removed, TypeInv, TypeOK, Known, Created, Tree, environment
<1>4. ASSUME NEW verdict \in {"approved", "rejected"}, Decide(t, verdict)
      PROVE  TypeInv'
  <2>1. PICK a \in Pending(t) :
           /\ approvals' = [approvals EXCEPT ![t] =
                 (@ \ {a}) \cup {[a EXCEPT !.status = verdict, !.dec = row[t].clock]}]
           /\ row' = [row EXCEPT ![t].clock = @ + 1]
           /\ calls' = calls \cup {[task |-> t, id |-> a.req]}
           /\ UNCHANGED <<environment, queue, run, disk>>
    BY <1>4 DEF Decide
  <2>2. a \in Approval /\ a \in approvals[t] BY DEF Pending, TypeInv, TypeOK
  <2>3. [a EXCEPT !.status = verdict, !.dec = row[t].clock] \in Approval
    BY <2>2 DEF Approval, TypeInv, TypeOK, Row
  <2>4. approvals' \in [Tasks -> SUBSET Approval]
    BY <2>1, <2>3 DEF TypeInv, TypeOK
  <2>5. row' \in [Tasks -> Row] /\ \A u \in Tasks : row'[u].status = row[u].status
    BY <2>1 DEF TypeInv, TypeOK, Row
  <2>6. Created(t) BY <2>2 DEF TypeInv, Known
  <2>7. approvals'[t] # {} /\ \A u \in Tasks : u # t => approvals'[u] = approvals[u]
    BY <2>1 DEF TypeInv, TypeOK
  <2>8. Known'
    BY <2>1, <2>5, <2>6, <2>7 DEF TypeInv, TypeOK, Known, Created, Job, Run, Call
  <2>9. calls' \subseteq Call BY <2>1, <2>2 DEF TypeInv, TypeOK, Call, Approval
  <2> QED BY <2>1, <2>4, <2>5, <2>8, <2>9 DEF TypeInv, TypeOK, environment, disk
<1> QED BY <1>1, <1>2, <1>3, <1>4

\* A call reaches the queue, or does not.
LEMMA TypeOfCalls ==
    ASSUME TypeInv, NEW c \in calls, ReachQueue(c) \/ LoseCall(c)
    PROVE  TypeInv'
<1>1. CASE ReachQueue(c)
  BY <1>1 DEF ReachQueue, TypeInv, TypeOK, Known, Created, Call, Job, environment, disk
<1>2. CASE LoseCall(c)
  BY <1>2, ConstantsAssumption DEF LoseCall, TypeInv, TypeOK, Known, Created, disk
<1> QED BY <1>1, <1>2

\* Leaving and taking a slot.
LEMMA TypeOfSlots ==
    ASSUME TypeInv, NEW w \in Slots, Take(w) \/ Release(w) \/ Throw(w) \/ Crash
    PROVE  TypeInv'
<1> USE DEF TypeInv
<1>1. run \in Runs BY DEF TypeOK, Runs
<1>2. CASE Take(w)
  <2>1. PICK j \in queue : queue' = queue \ {j} /\ run' = [run EXCEPT ![w] = Begin(j)]
    BY <1>2 DEF Take
  <2>2. j \in Job /\ Created(j.task) BY DEF TypeOK, Known
  <2>3. Begin(j) \in Run /\ Begin(j).job = j BY <2>2, BeginType DEF Begin
  <2>4. run' \in Runs BY <1>1, <2>1, <2>3 DEF Runs
  <2>5. Known'
    BY <1>2, <2>1, <2>2, <2>3 DEF Take, TypeOK, Known, Created
  <2> QED BY <1>2, <2>1, <2>4, <2>5 DEF Take, TypeOK, Runs, environment, disk
<1>3. CASE Release(w)
  <2>1. run[w] \in Run /\ TaskOf(w) \in Tasks /\ run[w].job \in Job /\ run[w] # Idle
    BY <1>1, <1>3, BusySlot DEF Release, At, Idle
  <2>2. Retries(run[w].job) \subseteq Job
        /\ \A j \in Retries(run[w].job) : j.task = run[w].job.task
    BY <2>1 DEF Retries, Job
  <2>3. Created(run[w].job.task) BY <2>1 DEF Known
  <2>4. run' = [run EXCEPT ![w] = Idle] /\ run' \in Runs
    BY <1>1, <1>3 DEF Release, Runs
  <2>5. queue' \subseteq queue \cup Retries(run[w].job) /\ queue' \subseteq Job
    BY <1>3, <2>2 DEF Release, TypeOK
  <2>6. Known'
    BY <1>3, <2>2, <2>3, <2>4, <2>5 DEF Release, TypeOK, Known, Created
  <2>7. tree' \in [Tasks -> Tree] BY <1>3, <2>1 DEF Release, Removed, TypeOK, Tree
  <2> QED BY <1>3, <2>4, <2>5, <2>6, <2>7 DEF Release, TypeOK, Runs, environment
<1>4. CASE Throw(w)
  <2>1. run[w] \in Run
    BY <1>1, <1>4, BusySlot DEF Throw, RunPCs, Idle
  <2>2. HandsOn(w)
    <3>1. CASE EndRun(w, TRUE) BY <1>1, <2>1, <3>1, EndRunType
    <3>2. CASE ToolThrew(w)
      BY <1>1, <2>1, <3>2 DEF ToolThrew, HandsOn, Runs, Run, RunPCs, Statuses
    <3> QED BY <1>4, <3>1, <3>2 DEF Throw
  <2>3. Known' BY <1>4, <2>1, <2>2, KnownKept DEF Throw, Created, Known
  <2> QED BY <1>4, <2>2, <2>3, ConstantsAssumption DEF Throw, TypeOK, HandsOn, Runs, disk
<1>5. CASE Crash
  <2>1. \A v \in Recovered : /\ run[v] \in Run /\ run[v].job \in Job
                             /\ Created(run[v].job.task)
    BY <1>1, BusySlot DEF Recovered, At, Known, Idle
  <2>2. \A v \in Recovered : /\ [run[v].job EXCEPT !.stalls = @ + 1] \in Job
                             /\ [run[v].job EXCEPT !.stalls = @ + 1].task = run[v].job.task
    BY <2>1 DEF Job
  <2>3. queue' \subseteq Job /\ \A j \in queue' : Created(j.task)
    BY <1>5, <2>1, <2>2 DEF Crash, TypeOK, Known
  <2>4. Known' BY <1>5, <2>3 DEF Crash, Known, Created
  <2> QED BY <1>5, <2>3, <2>4, ConstantsAssumption DEF Crash, TypeOK
<1> QED BY <1>2, <1>3, <1>4, <1>5

\* A step that hands its run on and leaves the variables it touches typed.
LEMMA TypeOfStep ==
    ASSUME TypeInv, NEW w \in Slots, run[w] \in Run, HandsOn(w),
           row' \in [Tasks -> Row], \A t \in Tasks : Created(t) => Created(t)',
           held' \subseteq Tasks, tree' \in [Tasks -> Tree],
           remote' \in [Tasks -> Nat], effects' \in [Tasks -> SUBSET Effects],
           UNCHANGED <<environment, approvals, calls, queue>>
    PROVE  TypeInv'
<1>1. Known' BY KnownKept DEF TypeInv, Known
<1> QED BY <1>1 DEF TypeInv, TypeOK, HandsOn, Runs, environment

\* The run's slot at any of its own steps.
LEMMA AtType ==
    ASSUME TypeInv, NEW w \in Slots, NEW pc \in RunPCs, At(w, pc)
    PROVE  /\ run \in Runs /\ run[w] \in Run
           /\ TaskOf(w) \in Tasks /\ Created(TaskOf(w))
<1>1. run \in Runs BY DEF TypeInv, TypeOK, Runs
<1>2. run[w].pc # "idle" BY DEF At, RunPCs
<1>3. run[w] # Idle BY <1>2 DEF Idle
<1> QED BY <1>1, <1>2, <1>3, BusySlot DEF TypeInv, Known, TaskOf, Created

\* A step that is a transition and nothing else.
LEMMA TypeOfTransition ==
    ASSUME TypeInv, NEW w \in Slots, run[w] \in Run, NEW to \in Statuses,
           Transition(w, to),
           UNCHANGED <<environment, approvals, calls, queue, disk>>
    PROVE  TypeInv'
<1>1. TypeOK BY DEF TypeInv
<1>2. /\ row' \in [Tasks -> Row] /\ HandsOn(w)
      /\ \A t \in Tasks : Created(t) => Created(t)'
  BY <1>1, TransitionType
<1>3. UNCHANGED <<environment, approvals, calls, queue>> /\ UNCHANGED disk OBVIOUS
<1>4. /\ held' \subseteq Tasks /\ tree' \in [Tasks -> Tree]
      /\ remote' \in [Tasks -> Nat] /\ effects' \in [Tasks -> SUBSET Effects]
  BY <1>1, <1>3 DEF TypeOK, disk
<1> QED BY <1>2, <1>3, <1>4, TypeOfStep

\* A step that only moves its run.
LEMMA TypeOfMove ==
    ASSUME TypeInv, NEW w \in Slots, run[w] \in Run, HandsOn(w),
           UNCHANGED <<environment, row, approvals, calls, queue, disk>>
    PROVE  TypeInv'
<1>1. UNCHANGED <<environment, approvals, calls, queue>> /\ UNCHANGED row /\ UNCHANGED disk
  OBVIOUS
<1>2. /\ row' \in [Tasks -> Row] /\ \A t \in Tasks : Created(t) => Created(t)'
      /\ held' \subseteq Tasks /\ tree' \in [Tasks -> Tree]
      /\ remote' \in [Tasks -> Nat] /\ effects' \in [Tasks -> SUBSET Effects]
  BY <1>1 DEF TypeInv, TypeOK, Created, disk
<1> QED BY <1>1, <1>2, TypeOfStep

\* The steps of a run.
LEMMA TypeOfWork == ASSUME TypeInv, NEW w \in Slots, Work(w) PROVE TypeInv'
<1> DEFINE t == TaskOf(w)
<1>0. /\ {"row", "approvals", "step", "select", "insert", "hash", "deliver",
          "settle", "release"} = RunPCs
      /\ \A pc \in RunPCs : At(w, pc) => run \in Runs /\ run[w] \in Run /\ t \in Tasks /\ Created(t)
  BY AtType DEF RunPCs
<1>a. TypeOK BY DEF TypeInv
<1>1. CASE LoadRow(w)
  <2>1. run[w] \in Run /\ run \in Runs /\ t \in Tasks /\ Created(t) BY <1>0, <1>1 DEF LoadRow
  <2>2. row[t] \in Row /\ row[t].status \in Statuses BY <1>a, <2>1 DEF TypeOK, Created, Row
  <2>3. HandsOn(w)
    BY <1>1, <2>1, <2>2 DEF LoadRow, HandsOn, Runs, Run, Row, Snapshot, RunPCs
  <2> QED BY <1>1, <2>1, <2>3, TypeOfMove DEF LoadRow
<1>2. CASE LoadApprovals(w)
  <2>1. run[w] \in Run /\ run \in Runs /\ t \in Tasks BY <1>0, <1>2 DEF LoadApprovals
  <2>2. approvals[t] \subseteq Approval BY <1>a, <2>1 DEF TypeOK
  <2>3. Granted(t) \subseteq Actions BY <2>2 DEF Granted, Approval
  <2>4. Decided(t) \subseteq Approval /\ \A a \in Decided(t) : a.status \in {"approved", "rejected"}
    BY <2>2 DEF Decided, Approval
  <2>5. LastDecision(t) \subseteq Decision BY <2>4 DEF LastDecision, Decision, Approval
  <2>6. CASE EndRun(w, FALSE)
    <3>1. HandsOn(w) BY <2>1, <2>6, EndRunType
    <3> QED BY <1>2, <2>1, <3>1, TypeOfMove DEF LoadApprovals
  <2>7. CASE run' = [run EXCEPT ![w].pc = "step", ![w].snap.grants = Granted(t),
                                ![w].snap.pending = (Pending(t) # {}),
                                ![w].snap.last = LastDecision(t)]
    <3>1. HandsOn(w) BY <2>1, <2>3, <2>5, <2>7 DEF HandsOn, Runs, Run, Snapshot, RunPCs
    <3> QED BY <1>2, <2>1, <3>1, TypeOfMove DEF LoadApprovals
  <2> QED BY <1>2, <2>6, <2>7 DEF LoadApprovals
<1>3. CASE Settle(w)
  <2>1. run[w] \in Run BY <1>0, <1>3 DEF Settle
  <2>2. run[w].next \in Statuses BY <2>1 DEF Run
  <2> QED BY <1>3, <2>1, <2>2, TypeOfTransition DEF Settle
<1>4. CASE Release(w) BY <1>4, TypeOfSlots
<1>5. CASE MoveOn(w)
  <2>1. run[w] \in Run BY <1>0, <1>5 DEF MoveOn, AtStep
  <2> QED BY <1>5, <2>1, TypeOfTransition DEF MoveOn, Statuses
<1>6. CASE ResumeFromApproval(w)
  <2>1. run[w] \in Run /\ run \in Runs BY <1>0, <1>6 DEF ResumeFromApproval, AtStep
  <2>2. CASE EndRun(w, FALSE) /\ UNCHANGED row
    <3>1. HandsOn(w) BY <2>1, <2>2, EndRunType
    <3> QED BY <1>6, <2>1, <2>2, <3>1, TypeOfMove DEF ResumeFromApproval
  <2>3. CASE \E to \in Statuses : Transition(w, to)
    BY <1>6, <2>1, <2>3, TypeOfTransition DEF ResumeFromApproval
  <2> QED BY <1>6, <2>2, <2>3 DEF ResumeFromApproval, Resumption, Statuses
<1>7. CASE Acquire(w)
  <2>1. run[w] \in Run /\ run \in Runs /\ t \in Tasks /\ Created(t) BY <1>0, <1>7 DEF Acquire
  <2>2. HandsOn(w) BY <1>7, <2>1 DEF Acquire, HandsOn, Runs, Run
  <2>3. Fresh(t) \in Tree BY <1>a, <2>1 DEF Fresh, TypeOK, Tree
  <2>4. tree' \in [Tasks -> Tree] BY <1>7, <1>a, <2>1, <2>3 DEF Acquire, TypeOK
  <2>5. held' \subseteq Tasks BY <1>7, <1>a, <2>1 DEF Acquire, TypeOK
  <2> QED BY <1>7, <1>a, <2>1, <2>2, <2>4, <2>5, TypeOfStep DEF Acquire, TypeOK, Created
<1>8. CASE AnalyzeUnprepared(w) \/ Analyze(w) \/ AnalyzeOdooOnline(w) \/ BackupFails(w)
  <2>1. run[w] \in Run
    BY <1>0, <1>8 DEF AnalyzeUnprepared, Analyze, AnalyzeOdooOnline, BackupFails, AtWork, AtStep
  <2>2. \E to \in Statuses : Transition(w, to)
    BY <1>8 DEF AnalyzeUnprepared, Analyze, AnalyzeOdooOnline, BackupFails, Statuses
  <2> QED BY <1>8, <2>1, <2>2, TypeOfTransition
          DEF AnalyzeUnprepared, Analyze, AnalyzeOdooOnline, BackupFails
<1>20. CASE ModelFails(w) \/ Implement(w) \/ ImplementChat(w) \/ ImplementOdooOnline(w)
           \/ ValidateOdooOnline(w)
  <2>1. run[w] \in Run
    BY <1>0, <1>20 DEF ModelFails, Implement, ImplementChat, ImplementOdooOnline,
                       ValidateOdooOnline, LoopEnded, AtWork, AtStep
  <2>2. \E to \in Statuses : Transition(w, to)
    BY <1>20 DEF ModelFails, Implement, ImplementChat, ImplementOdooOnline,
                 ValidateOdooOnline, Statuses
  <2> QED BY <1>20, <2>1, <2>2, TypeOfTransition
          DEF ModelFails, Implement, ImplementChat, ImplementOdooOnline, ValidateOdooOnline
<1>21. CASE SuspendTask(w)
  <2>1. run[w] \in Run /\ run \in Runs /\ t \in Tasks BY <1>0, <1>21 DEF SuspendTask
  <2>2. HandsOn(w)
    BY <1>21, <2>1 DEF SuspendTask, HandsOn, Runs, Run, RunPCs, Statuses
  <2>3. row[t] \in Row BY <1>a, <2>1 DEF TypeOK
  <2>4. row' \in [Tasks -> Row] /\ \A u \in Tasks : Created(u) => Created(u)'
    BY <1>21, <1>a, <2>1, <2>3 DEF SuspendTask, TypeOK, Row, Created, Statuses
  <2> QED BY <1>21, <1>a, <2>1, <2>2, <2>4, TypeOfStep DEF SuspendTask, TypeOK, disk
<1>22. CASE LoopHalted(w)
  <2>1. run[w] \in Run /\ run \in Runs BY <1>0, <1>22 DEF LoopHalted
  <2>2. HandsOn(w) BY <1>22, <2>1, EndRunType DEF LoopHalted
  <2> QED BY <1>22, <2>1, <2>2, TypeOfMove DEF LoopHalted
<1>9. CASE Plan(w) \/ PlanOdooOnline(w)
  <2>1. run[w] \in Run /\ run \in Runs /\ t \in Tasks /\ Created(t)
    BY <1>0, <1>9 DEF Plan, PlanOdooOnline, AtWork, AtStep
  <2>2. UNCHANGED <<environment, approvals, calls, queue>> /\ UNCHANGED disk
    BY <1>9 DEF Plan, PlanOdooOnline
  <2>3. CASE Transition(w, "failed")
    BY <2>1, <2>2, <2>3, TypeOfTransition DEF Statuses
  <2>4. ASSUME NEW d \in Deliveries, PutForward(w, d)
        PROVE  TypeInv'
    <3>0. /\ row' = [row EXCEPT ![t].plan = @ + 1, ![t].deliver = d]
          /\ run' = [run EXCEPT ![w].pc = "select", ![w].ask = "implementation_plan",
                                ![w].next = "waiting_approval", ![w].plan = row[t].plan + 1]
      BY <2>4 DEF PutForward
    <3>1. row[t] \in Row BY <1>a, <2>1 DEF TypeOK
    <3> DEFINE n == row[t].plan + 1
               saved == [row[t] EXCEPT !.plan = n, !.deliver = d]
    <3>2. HandsOn(w) BY <2>1, <3>0, <3>1, PlanType
    <3>3. n \in Nat BY <3>1 DEF Row
    <3>4. row' = [row EXCEPT ![t] = saved] BY <1>a, <2>1, <3>0 DEF TypeOK
    <3> HIDE DEF n
    <3>5. saved \in Row /\ saved.status = row[t].status BY <3>1, <3>3 DEF Row
    <3>6. /\ row' \in [Tasks -> Row]
          /\ \A u \in Tasks : row'[u].status = row[u].status
      BY <1>a, <2>1, <3>4, <3>5 DEF TypeOK
    <3>7. /\ held' \subseteq Tasks /\ tree' \in [Tasks -> Tree]
          /\ remote' \in [Tasks -> Nat] /\ effects' \in [Tasks -> SUBSET Effects]
      BY <1>a, <2>2 DEF TypeOK, disk
    <3> QED BY <2>1, <2>2, <3>2, <3>6, <3>7, TypeOfStep DEF Created
  <2> QED BY <1>9, <2>3, <2>4 DEF Plan, PlanOdooOnline, Deliveries
<1>10. CASE SelectStanding(w)
  <2>1. run[w] \in Run /\ run \in Runs BY <1>0, <1>10 DEF SelectStanding
  <2>2. HandsOn(w)
    BY <1>10, <2>1, AskedType, GotoType DEF SelectStanding, RunPCs, Run, At
  <2> QED BY <1>10, <2>1, <2>2, TypeOfMove DEF SelectStanding
<1>11. CASE InsertApproval(w)
  <2>1. run[w] \in Run /\ run \in Runs /\ t \in Tasks /\ Created(t)
    BY <1>0, <1>11 DEF InsertApproval
  <2>2. HandsOn(w) BY <1>11, <2>1, AskedType DEF InsertApproval
  <2>3. \/ UNCHANGED <<row, approvals>>
        \/ /\ approvals' = [approvals EXCEPT ![t] = @ \cup {
                 [action |-> run[w].ask,
                  status |-> IF run[w].auto THEN "approved" ELSE "pending",
                  req |-> row[t].clock, dec |-> row[t].clock, plan |-> run[w].plan]}]
           /\ row' = [row EXCEPT ![t].clock = @ + 1]
    BY <1>11 DEF InsertApproval
  <2>4. row[t] \in Row BY <1>a, <2>1 DEF TypeOK
  <2>5. /\ row' \in [Tasks -> Row]
        /\ \A u \in Tasks : row'[u].status = row[u].status
    BY <1>a, <2>3, <2>4 DEF TypeOK, Row
  <2>6. run[w].ask \in Actions BY <1>11, <2>1 DEF InsertApproval, At, Run
  <2>7. approvals' \in [Tasks -> SUBSET Approval]
    BY <1>a, <2>1, <2>3, <2>4, <2>6 DEF TypeOK, Approval, Run, Row
  <2>8. \A u \in Tasks : approvals'[u] # {} => Created(u)
    BY <1>a, <2>1, <2>3 DEF TypeOK, TypeInv, Known
  <2>9. UNCHANGED <<environment, calls, queue>> /\ UNCHANGED disk
    BY <1>11 DEF InsertApproval
  <2>10. Known'
    BY <2>1, <2>2, <2>5, <2>8, <2>9, KnownKept DEF Created
  <2> QED BY <1>a, <2>2, <2>5, <2>7, <2>9, <2>10
          DEF TypeInv, TypeOK, HandsOn, Runs, environment, disk
<1>12. CASE ToolStopped(w)
  <2>1. run[w] \in Run /\ run \in Runs /\ t \in Tasks
    BY <1>0, <1>12 DEF ToolStopped, AtWork, AtStep
  <2>2. profile[t].gates \subseteq Actions
    BY <1>a, <2>1, ConstantsAssumption DEF TypeOK, Profile, Actions
  <2>3. \E g \in Actions : AskFor(w, g, FALSE, "waiting_approval")
    BY <1>12, <2>2 DEF ToolStopped, Actions
  <2>4. HandsOn(w) BY <2>1, <2>3, AskForType DEF Statuses
  <2> QED BY <1>12, <2>1, <2>4, TypeOfMove DEF ToolStopped
<1>13. CASE UseGatedTool(w) \/ UseTool(w) \/ Sample(w)
  <2>1. run[w] \in Run /\ run \in Runs /\ t \in Tasks
    BY <1>0, <1>13 DEF UseGatedTool, UseTool, Sample, AtTools, AtWork, AtStep, At
  <2>2. profile[t].gates \subseteq Effects
    BY <1>a, <2>1, ConstantsAssumption DEF TypeOK, Profile, Effects
  <2>3. PICK effect \in Effects : Change(w, effect)
    BY <1>13, <2>2 DEF UseGatedTool, UseTool, Sample, Effects
  <2> DEFINE local == ModeOf(w) \in FileModes
  <2>a. local \in BOOLEAN /\ tree[t] \in Tree BY <1>a, <2>1 DEF TypeOK
  <2>b. tree' = [tree EXCEPT ![t] = [@ EXCEPT !.dirty = local]] BY <2>3 DEF Change
  <2>c. [tree[t] EXCEPT !.dirty = local] \in Tree
    <3> HIDE DEF local
    <3> QED BY <2>a DEF Tree
  <2>4. tree' \in [Tasks -> Tree]
    <3> HIDE DEF local
    <3> QED BY <1>a, <2>1, <2>b, <2>c DEF TypeOK
  <2>5. effects' = [effects EXCEPT ![t] = @ \cup {effect}] BY <2>3 DEF Change
  <2>6. effects' \in [Tasks -> SUBSET Effects] BY <1>a, <2>1, <2>5 DEF TypeOK
  <2> QED BY <1>a, <2>3, <2>4, <2>6
          DEF Change, TypeInv, TypeOK, Known, Created, environment
<1>14. CASE Validate(w) \/ CompleteChat(w) \/ CommitNothing(w)
  <2>1. run[w] \in Run /\ run \in Runs
    BY <1>0, <1>14 DEF Validate, CompleteChat, CommitNothing, AtWork, AtStep
  <2>2. (\E status \in Statuses : SettleTo(w, status)) \/ Goto(w, "hash")
    BY <1>14 DEF Validate, CompleteChat, CommitNothing, Statuses
  <2>3. HandsOn(w) BY <2>1, <2>2, SettleToType, GotoType DEF RunPCs
  <2> QED BY <1>14, <2>1, <2>3, TypeOfMove DEF Validate, CompleteChat, CommitNothing
<1>15. CASE CommitWork(w)
  <2>1. run[w] \in Run /\ run \in Runs /\ t \in Tasks
    BY <1>0, <1>15 DEF CommitWork, AtWork, AtStep
  <2>2. HandsOn(w)
    BY <1>15, <2>1, SettleToType, GotoType DEF CommitWork, RunPCs, Statuses
  <2>3. tree' \in [Tasks -> Tree] BY <1>15, <1>a, <2>1 DEF CommitWork, TypeOK, Tree
  <2> QED BY <1>15, <1>a, <2>1, <2>2, <2>3, TypeOfStep DEF CommitWork, TypeOK, Created
<1>16. CASE SaveCommitHash(w)
  <2>1. run[w] \in Run /\ run \in Runs /\ t \in Tasks BY <1>0, <1>16 DEF SaveCommitHash
  <2>2. HandsOn(w) BY <1>16, <2>1, GotoType DEF SaveCommitHash, RunPCs
  <2>3. row[t] \in Row /\ tree[t].head \in Nat BY <1>a, <2>1 DEF TypeOK, Tree
  <2>4. /\ row' \in [Tasks -> Row]
        /\ \A u \in Tasks : row'[u].status = row[u].status
    BY <1>16, <1>a, <2>1, <2>3 DEF SaveCommitHash, TypeOK, Row
  <2> QED BY <1>16, <1>a, <2>1, <2>2, <2>4, TypeOfStep
          DEF SaveCommitHash, TypeOK, Created, disk
<1>17. CASE Deliver(w)
  <2>1. run[w] \in Run /\ run \in Runs BY <1>0, <1>17 DEF Deliver
  <2>2. CASE \E to \in Statuses : Transition(w, to)
    BY <1>17, <2>1, <2>2, TypeOfTransition DEF Deliver
  <2>3. CASE /\ \E auto \in BOOLEAN, next \in Statuses :
                   AskFor(w, "git_push", auto, next)
             /\ UNCHANGED row
    <3>1. HandsOn(w) BY <2>1, <2>3, AskForType DEF Actions
    <3> QED BY <1>17, <2>1, <2>3, <3>1, TypeOfMove DEF Deliver
  <2>4. /\ (AutoPush /\ profile[t].auto) \in BOOLEAN
        /\ (IF AutoPush /\ profile[t].auto THEN "pushing" ELSE "waiting_approval") \in Statuses
    BY DEF Statuses
  <2> QED BY <1>17, <2>2, <2>3, <2>4 DEF Deliver, Statuses
<1>18. CASE Push(w)
  <2>1. run[w] \in Run /\ run \in Runs /\ t \in Tasks
    BY <1>0, <1>18 DEF Push, AtWork, AtStep
  <2>2. HandsOn(w) BY <1>18, <2>1, SettleToType DEF Push, Statuses
  <2>3. remote' \in [Tasks -> Nat] BY <1>18, <1>a, <2>1 DEF Push, TypeOK, Tree
  <2> QED BY <1>18, <1>a, <2>1, <2>2, <2>3, TypeOfStep DEF Push, TypeOK, Created
<1>19. CASE DirectoryGone(w)
  <2>1. run[w] \in Run /\ run \in Runs
    BY <1>0, <1>19 DEF DirectoryGone, AtWork, AtStep
  <2>2. HandsOn(w) BY <1>19, <2>1, EndRunType DEF DirectoryGone
  <2> QED BY <1>19, <2>1, <2>2, TypeOfMove DEF DirectoryGone
<1> QED BY <1>1, <1>2, <1>3, <1>4, <1>5, <1>6, <1>7, <1>8, <1>9, <1>10, <1>11, <1>12,
           <1>13, <1>14, <1>15, <1>16, <1>17, <1>18, <1>19, <1>20, <1>21, <1>22 DEF Work

\* The type invariant, inductive with what is known of every job: a step moves one
\* task, one call or one slot, or is a crash.
LEMMA TypeNext == TypeInv /\ [Next]_vars => TypeInv'
<1> SUFFICES ASSUME TypeInv, [Next]_vars PROVE TypeInv' OBVIOUS
<1>1. CASE UNCHANGED vars
  BY <1>1 DEF vars, environment, disk, TypeInv, TypeOK, Known, Created
<1>2. ASSUME NEW t \in Tasks,
             \/ Create(t) \/ Cancel(t) \/ Reclaim(t)
             \/ Decide(t, "approved") \/ Decide(t, "rejected")
      PROVE  TypeInv'
  BY <1>2, TypeOfAPI
<1>3. ASSUME NEW c \in calls, ReachQueue(c) \/ LoseCall(c) PROVE TypeInv'
  BY <1>3, TypeOfCalls
<1>4. ASSUME NEW w \in Slots, Take(w) \/ Work(w) \/ Throw(w) PROVE TypeInv'
  BY <1>4, TypeOfSlots, TypeOfWork
<1>5. CASE Crash
  BY <1>5, TypeOfSlots DEF Crash
<1> QED BY <1>1, <1>2, <1>3, <1>4, <1>5 DEF Next

\* Whatever the interleaving, the faults and the retries, every row, job, snapshot and
\* directory keeps its shape: the type invariant the runs check, for any instance.
THEOREM TypeCorrect == Spec => []TypeOK
<1>1. Spec => []TypeInv BY TypeInit, TypeNext, PTL DEF Spec
<1>2. TypeInv => TypeOK BY DEF TypeInv
<1> QED BY <1>1, <1>2, PTL
=============================================================================
