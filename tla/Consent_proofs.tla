--------------------------- MODULE Consent_proofs ---------------------------
(***************************************************************************)
(* TaskLifecycle keeps consent: the inductive invariant NoStaleConsent,    *)
(* that every status moves along an edge, and that every step maps to one  *)
(* of ConsentGate, for any tasks, slots, retry budget and faults.          *)
(***************************************************************************)
EXTENDS TaskLifecycle_proofs

IInv == TypeInv /\ NoStaleConsent

-----------------------------------------------------------------------------
(* The parts of the invariant *)

\* No step takes an approval back.
Kept == \A t \in Tasks : Granted(t) \subseteq Granted(t)'

\* A change without an approved plan.
Unapproved(t) == Planned(t) /\ ~PlanApproved(t)

\* The rows of tasks stay sound when none moves past an unapproved plan and nothing
\* but a plan is asked for before it is approved.
LEMMA TasksStaySound ==
    ASSUME IInv, Kept, profile' = profile,
           \A t \in Tasks : Unapproved(t) =>
               /\ row'[t].status \in AfterPlan => row[t].status \in AfterPlan
               /\ \A a \in approvals'[t] : a.action = "implementation_plan"
                                           \/ \E b \in approvals[t] : b.action = a.action
    PROVE  \A t \in Tasks : SoundTask(t)'
PROOF BY DEF IInv, NoStaleConsent, SoundTask, Planned, PlanApproved, Kept, Unapproved

\* The runs of the other slots stay sound.
LEMMA OthersStaySound ==
    ASSUME IInv, Kept, profile' = profile, NEW w \in Slots,
           run' = [run EXCEPT ![w] = run'[w]],
           At(w, "idle")' \/ SoundRun(w)'
    PROVE  \A v \in Slots : At(v, "idle")' \/ SoundRun(v)'
<1> SUFFICES ASSUME NEW v \in Slots, v # w, ~At(v, "idle")' PROVE SoundRun(v)'
  OBVIOUS
<1>1. run'[v] = run[v] /\ ~At(v, "idle") BY DEF IInv, TypeInv, TypeOK, At
<1>2. SoundRun(v) /\ TaskOf(v) \in Tasks
  BY <1>1, BusySlot DEF IInv, TypeInv, TypeOK, NoStaleConsent, At, Runs
<1>3. TaskOf(v)' = TaskOf(v) /\ SnapOf(v)' = SnapOf(v) BY <1>1 DEF TaskOf, SnapOf
<1>4. Granted(TaskOf(v)) \subseteq Granted(TaskOf(v))' BY <1>2, <1>3 DEF Kept
<1>5. SnapshotHolds(v)' BY <1>2, <1>3, <1>4 DEF SoundRun, SnapshotHolds
<1>6. (Planned(TaskOf(v)) /\ RunPastPlan(v) => PlanApproved(TaskOf(v)))'
  BY <1>1, <1>2, <1>3, <1>4 DEF SoundRun, Planned, RunPastPlan, PlanApproved
<1> QED BY <1>1, <1>2, <1>3, <1>5, <1>6 DEF SoundRun

\* A run stays sound that keeps its snapshot or forgets it, heads past the plan only
\* with its approval, and delivers only what it came to commit.
LEMMA RunStaysSound ==
    ASSUME IInv, NEW w \in Slots, run[w] \in Run, HandsOn(w),
           UNCHANGED <<profile, approvals>>,
           run'[w].snap \in {run[w].snap, EmptySnap},
           Unapproved(TaskOf(w)) => /\ run'[w].next \notin AfterPlan
                                    /\ run'[w].ask \in {"none", "implementation_plan"},
           run'[w].pc \in {"hash", "deliver"} => run'[w].snap.status = "committing"
    PROVE  SoundRun(w)'
<1>1. TaskOf(w)' = TaskOf(w) BY DEF HandsOn, TaskOf
<1>2. Granted(TaskOf(w))' = Granted(TaskOf(w)) BY <1>1 DEF Granted
<1>3. SoundRun(w)
  BY DEF IInv, NoStaleConsent, At, Run, RunPCs
<1>4. SnapshotHolds(w)'
  BY <1>1, <1>2, <1>3 DEF SoundRun, SnapshotHolds, SnapOf, EmptySnap
<1>5. (Planned(TaskOf(w)) /\ RunPastPlan(w) => PlanApproved(TaskOf(w)))'
  BY <1>1, <1>2, <1>3
  DEF SoundRun, Planned, PlanApproved, RunPastPlan, SnapOf, EmptySnap, Unapproved, AfterPlan
<1> QED BY <1>4, <1>5 DEF SoundRun, SnapOf

\* A step of one run that decides nothing keeps the invariant, if the run stays sound,
\* no row moves past an unapproved plan, and no push would take the remote back.
LEMMA StepStaysSound ==
    ASSUME IInv, NEW w \in Slots, run[w] \in Run, HandsOn(w), SoundRun(w)',
           UNCHANGED <<profile, approvals>>,
           \A t \in Tasks : Unapproved(t) /\ row'[t].status \in AfterPlan
                               => row[t].status \in AfterPlan,
           \A t \in Tasks : HeadAhead(t)'
    PROVE  NoStaleConsent'
<1>1. Kept BY DEF Kept, Granted
<1>2. \A t \in Tasks : SoundTask(t)' BY <1>1, TasksStaySound
<1>3. \A v \in Slots : At(v, "idle")' \/ SoundRun(v)'
  BY <1>1, OthersStaySound DEF HandsOn
<1> QED BY <1>2, <1>3 DEF NoStaleConsent

\* What is behind nothing stays so while neither moves.
LEMMA HeadsStayAhead ==
    ASSUME IInv, UNCHANGED <<profile, tree, remote>>
    PROVE  \A t \in Tasks : HeadAhead(t)'
PROOF BY DEF IInv, NoStaleConsent, HeadAhead

\* A run that moves and touches nothing else.
LEMMA SoundOfMove ==
    ASSUME IInv, NEW w \in Slots, run[w] \in Run, HandsOn(w), SoundRun(w)',
           UNCHANGED <<environment, row, approvals, calls, queue, disk>>
    PROVE  NoStaleConsent'
<1>1. UNCHANGED <<profile, approvals>> /\ UNCHANGED row /\ UNCHANGED <<profile, tree, remote>>
  BY DEF environment, disk
<1> QED BY <1>1, HeadsStayAhead, StepStaysSound

\* Starting over, ending, and settling at a status the plan is no part of.
LEMMA SoundAgain ==
    ASSUME IInv, NEW w \in Slots, run[w] \in Run, UNCHANGED <<profile, approvals>>,
           Again(w) \/ EndRun(w, FALSE) \/ EndRun(w, TRUE)
    PROVE  HandsOn(w) /\ SoundRun(w)'
<1>1. run \in Runs BY DEF IInv, TypeInv, TypeOK, Runs
<1>2. HandsOn(w) BY <1>1, AgainType, EndRunType
<1>3. /\ run'[w].snap = EmptySnap /\ run'[w].next = "queued" /\ run'[w].ask = "none"
      /\ run'[w].pc \in {"row", "release"}
  <2> DEFINE b == Begin(run[w].job)
  <2>1. \/ run'[w] = b
        \/ \E threw \in BOOLEAN : run'[w] = [b EXCEPT !.pc = "release", !.threw = threw]
    BY <1>1 DEF Again, EndRun, Runs
  <2>2. b \in Run /\ b.snap = EmptySnap /\ b.next = "queued" /\ b.ask = "none"
        /\ b.pc = "row"
    BY BeginType DEF Begin, Run
  <2> HIDE DEF b
  <2> QED BY <2>1, <2>2 DEF Run
<1>4. "queued" \notin AfterPlan BY DEF AfterPlan
<1> QED BY <1>2, <1>3, <1>4, RunStaysSound

LEMMA SoundSettleTo ==
    ASSUME IInv, NEW w \in Slots, run[w] \in Run, UNCHANGED <<profile, approvals>>,
           NEW status \in Statuses, SettleTo(w, status),
           Unapproved(TaskOf(w)) => status \notin AfterPlan
    PROVE  HandsOn(w) /\ SoundRun(w)'
<1>1. run \in Runs BY DEF IInv, TypeInv, TypeOK, Runs
<1>2. HandsOn(w) BY <1>1, SettleToType
<1>3. /\ run'[w].snap = run[w].snap /\ run'[w].next = status
      /\ run'[w].ask = run[w].ask /\ run'[w].pc = "settle"
  BY <1>1 DEF SettleTo, Runs, Run
<1>4. SoundRun(w) BY DEF IInv, NoStaleConsent, At, Run, RunPCs
<1>5. Unapproved(TaskOf(w)) => run[w].ask \in {"none", "implementation_plan"}
  BY <1>4 DEF SoundRun, RunPastPlan, Unapproved
<1> QED BY <1>2, <1>3, <1>5, RunStaysSound

LEMMA SoundAskFor ==
    ASSUME IInv, NEW w \in Slots, run[w] \in Run, UNCHANGED <<profile, approvals>>,
           NEW action \in Actions, NEW auto \in BOOLEAN, NEW next \in Statuses,
           AskFor(w, action, auto, next),
           ~Unapproved(TaskOf(w))
    PROVE  HandsOn(w) /\ SoundRun(w)'
<1>1. run \in Runs BY DEF IInv, TypeInv, TypeOK, Runs
<1>2. HandsOn(w) BY <1>1, AskForType
<1>3. run'[w].snap = run[w].snap /\ run'[w].pc = "select"
  BY <1>1 DEF AskFor, Runs, Run
<1> QED BY <1>2, <1>3, RunStaysSound

\* A transition out of what the run read, to a status its approvals allow.
LEMMA SoundTransition ==
    ASSUME IInv, NEW w \in Slots, run[w] \in Run, UNCHANGED <<profile, approvals>>,
           UNCHANGED <<profile, tree, remote>>, NEW to \in Statuses,
           Transition(w, to),
           Unapproved(TaskOf(w)) => to \notin AfterPlan
    PROVE  NoStaleConsent'
<1>1. HandsOn(w) /\ SoundRun(w)' BY SoundAgain DEF Transition
<1>2. row' = row \/ row' = [row EXCEPT ![TaskOf(w)].status = to] BY DEF Transition
<1>3. TaskOf(w) \in Tasks BY DEF Run, TaskOf, Job
<1>4. \A t \in Tasks : row'[t].status = row[t].status \/ (t = TaskOf(w) /\ row'[t].status = to)
  BY <1>2, <1>3 DEF IInv, TypeInv, TypeOK, Row
<1>5. \A t \in Tasks : Unapproved(t) /\ row'[t].status \in AfterPlan
                          => row[t].status \in AfterPlan
  BY <1>4
<1> QED BY <1>1, <1>5, HeadsStayAhead, StepStaysSound

-----------------------------------------------------------------------------
(* One lemma for each group of actions *)

\* The statuses no plan is part of.
LEMMA NotPastPlan ==
    AfterPlan \cap {"absent", "created", "queued", "analyzing", "planning",
                    "waiting_approval", "completed", "failed", "cancelled"} = {}
PROOF BY DEF AfterPlan

\* At each of its own steps a run carries a sound run of a task that exists.
LEMMA AtSound ==
    ASSUME IInv, NEW w \in Slots, NEW pc \in RunPCs, At(w, pc)
    PROVE  /\ run \in Runs /\ run[w] \in Run /\ TaskOf(w) \in Tasks
           /\ SoundRun(w)
           /\ SnapOf(w).status \in AfterPlan => ~Unapproved(TaskOf(w))
<1>1. run \in Runs /\ run[w] \in Run /\ TaskOf(w) \in Tasks BY AtType DEF IInv
<1>2. SoundRun(w) BY DEF IInv, NoStaleConsent, At, RunPCs
<1> QED BY <1>1, <1>2 DEF SoundRun, RunPastPlan, Unapproved

LEMMA ConsentOfAPI ==
    ASSUME IInv, NEW t \in Tasks, Create(t) \/ Cancel(t) \/ Reclaim(t)
    PROVE  NoStaleConsent'
<1>1. UNCHANGED <<profile, approvals, run, remote>>
  BY DEF Create, Cancel, Reclaim, environment, disk
<1>2. Kept BY <1>1 DEF Kept, Granted
<1>3. \A u \in Tasks : row'[u].status \in AfterPlan => row[u].status \in AfterPlan
  BY NotPastPlan DEF Create, Cancel, Reclaim, IInv, TypeInv, TypeOK, Row
<1>4. \A u \in Tasks : SoundTask(u)' BY <1>1, <1>2, <1>3, TasksStaySound
<1>5. \A v \in Slots : At(v, "idle")' \/ SoundRun(v)'
  BY <1>1 DEF IInv, NoStaleConsent, At, SoundRun, SnapshotHolds, RunPastPlan, Planned,
              PlanApproved, Granted, TaskOf, SnapOf
<1>6. \A u \in Tasks : HeadAhead(u)'
  <2>1. CASE tree' = tree
    BY <1>1, <2>1, HeadsStayAhead
  <2>2. CASE tree' = [tree EXCEPT ![t] = [Removed(t) EXCEPT !.stale = FALSE]]
    BY <1>1, <2>2
    DEF IInv, NoStaleConsent, HeadAhead, Removed, TypeInv, TypeOK, Tree
  <2> QED BY <2>1, <2>2 DEF Create, Cancel, Reclaim, disk
<1> QED BY <1>4, <1>5, <1>6 DEF NoStaleConsent

\* A decision only adds to what is granted, and answers what was asked for.
LEMMA ConsentOfDecide ==
    ASSUME IInv, NEW t \in Tasks, NEW verdict \in {"approved", "rejected"},
           Decide(t, verdict)
    PROVE  NoStaleConsent' /\ Kept
<1>1. PICK a \in Pending(t) :
         /\ approvals' = [approvals EXCEPT ![t] =
               (@ \ {a}) \cup {[a EXCEPT !.status = verdict, !.dec = row[t].clock]}]
         /\ row' = [row EXCEPT ![t].clock = @ + 1]
         /\ UNCHANGED <<profile, run, disk>>
  BY DEF Decide, environment
<1>2. a \in Approval /\ a \in approvals[t] /\ a.status = "pending"
  BY DEF Pending, IInv, TypeInv, TypeOK
<1> DEFINE b == [a EXCEPT !.status = verdict, !.dec = row[t].clock]
<1>3. b.action = a.action BY <1>2 DEF Approval
<1>4. approvals'[t] = (approvals[t] \ {a}) \cup {b}
      /\ \A u \in Tasks : u # t => approvals'[u] = approvals[u]
  BY <1>1 DEF IInv, TypeInv, TypeOK
<1> HIDE DEF b
<1>5. Kept BY <1>2, <1>4 DEF Kept, Granted
<1>6. \A u \in Tasks : row'[u].status = row[u].status
  BY <1>1 DEF IInv, TypeInv, TypeOK, Row
<1>7. \A u \in Tasks : SoundTask(u)'
  BY <1>1, <1>2, <1>3, <1>4, <1>5, <1>6, TasksStaySound
<1>8. ASSUME NEW w \in Slots, ~At(w, "idle")' PROVE SoundRun(w)'
  <2>1. run' = run BY <1>1
  <2>2. SoundRun(w) /\ TaskOf(w) \in Tasks
    BY <1>8, <2>1, BusySlot DEF IInv, TypeInv, TypeOK, NoStaleConsent, At, Runs
  <2>3. TaskOf(w)' = TaskOf(w) /\ SnapOf(w)' = SnapOf(w) BY <2>1 DEF TaskOf, SnapOf
  <2>4. Granted(TaskOf(w)) \subseteq Granted(TaskOf(w))' BY <1>5, <2>2, <2>3 DEF Kept
  <2> QED BY <1>1, <2>1, <2>2, <2>3, <2>4
          DEF SoundRun, SnapshotHolds, RunPastPlan, Planned, PlanApproved
<1>9. \A u \in Tasks : HeadAhead(u)' BY <1>1, HeadsStayAhead DEF disk
<1> QED BY <1>5, <1>7, <1>8, <1>9 DEF NoStaleConsent

\* What concerns neither approvals, rows, runs nor directories.
LEMMA ConsentUntouched ==
    ASSUME IInv, UNCHANGED <<profile, row, approvals, run, tree, remote>>
    PROVE  NoStaleConsent'
PROOF BY DEF IInv, NoStaleConsent, SoundTask, HeadAhead, At, SoundRun, SnapshotHolds,
             RunPastPlan, Planned, PlanApproved, Granted, TaskOf, SnapOf

\* A removed directory.
LEMMA RemovedHeads ==
    ASSUME IInv, NEW t \in Tasks, tree' = [tree EXCEPT ![t] = Removed(t)],
           UNCHANGED <<profile, remote>>
    PROVE  \A u \in Tasks : HeadAhead(u)'
PROOF BY DEF IInv, NoStaleConsent, HeadAhead, Removed, TypeInv, TypeOK, Tree

\* Taking a slot, and leaving it.
LEMMA ConsentOfSlots ==
    ASSUME IInv, NEW w \in Slots, Take(w) \/ Release(w) \/ Throw(w) \/ Crash
    PROVE  NoStaleConsent'
<1>0. UNCHANGED <<profile, row, approvals, remote>>
  BY DEF Take, Release, Throw, Crash, environment, disk
<1>a. Kept BY <1>0 DEF Kept, Granted
<1>b. \A u \in Tasks : SoundTask(u)' BY <1>0, <1>a, TasksStaySound
<1>1. CASE Take(w)
  <2>1. PICK j \in queue : run' = [run EXCEPT ![w] = Begin(j)] BY <1>1 DEF Take
  <2>2. run'[w] = Begin(j) BY <2>1 DEF IInv, TypeInv, TypeOK
  <2>3. SoundRun(w)'
    BY <2>2, NotPastPlan
    DEF SoundRun, SnapshotHolds, RunPastPlan, SnapOf, Begin, EmptySnap
  <2>4. \A v \in Slots : At(v, "idle")' \/ SoundRun(v)'
    BY <1>0, <1>a, <2>1, <2>2, <2>3, OthersStaySound
  <2>5. \A u \in Tasks : HeadAhead(u)' BY <1>0, <1>1, HeadsStayAhead DEF Take, disk
  <2> QED BY <1>b, <2>4, <2>5 DEF NoStaleConsent
<1>2. CASE Release(w)
  <2>1. TaskOf(w) \in Tasks BY <1>2, AtSound DEF Release, RunPCs
  <2>2. run' = [run EXCEPT ![w] = Idle] BY <1>2 DEF Release
  <2>3. run'[w] = Idle BY <2>2 DEF IInv, TypeInv, TypeOK
  <2>4. \A v \in Slots : At(v, "idle")' \/ SoundRun(v)'
    <3>1. At(w, "idle")' BY <2>3 DEF At, Idle
    <3>2. run' = [run EXCEPT ![w] = run'[w]] BY <2>2, <2>3
    <3> QED BY <1>0, <1>a, <3>1, <3>2, OthersStaySound
  <2>5. \A u \in Tasks : HeadAhead(u)'
    BY <1>0, <1>2, <2>1, HeadsStayAhead, RemovedHeads DEF Release
  <2> QED BY <1>b, <2>4, <2>5 DEF NoStaleConsent
<1>3. CASE Throw(w)
  <2>1. run[w] \in Run BY <1>3, AtSound DEF Throw, At
  <2>3. \A u \in Tasks : HeadAhead(u)' BY <1>0, <1>3, HeadsStayAhead DEF Throw, disk
  <2>2. CASE EndRun(w, TRUE)
    BY <1>0, <2>1, <2>2, <2>3, SoundAgain, StepStaysSound
  <2>4. CASE ToolThrew(w)
    <3>1. /\ HandsOn(w) /\ run'[w].snap = run[w].snap /\ run'[w].next = "queued"
          /\ run'[w].ask = "none" /\ run'[w].pc = "step"
      BY <2>1, <2>4 DEF ToolThrew, HandsOn, IInv, TypeInv, TypeOK, Runs, Run, RunPCs, Statuses
    <3>2. SoundRun(w)' BY <1>0, <2>1, <3>1, NotPastPlan, RunStaysSound
    <3> QED BY <1>0, <2>1, <2>3, <3>1, <3>2, StepStaysSound
  <2> QED BY <1>3, <2>2, <2>4 DEF Throw
<1>4. CASE Crash
  <2>1. \A v \in Slots : At(v, "idle")' BY <1>4 DEF Crash, At, Idle
  <2>2. \A u \in Tasks : HeadAhead(u)' BY <1>0, <1>4, HeadsStayAhead DEF Crash
  <2> QED BY <1>b, <2>1, <2>2 DEF NoStaleConsent
<1> QED BY <1>1, <1>2, <1>3, <1>4

\* What a run reads is what the tables hold.
LEMMA ConsentOfLoads ==
    ASSUME IInv, NEW w \in Slots, LoadRow(w) \/ LoadApprovals(w)
    PROVE  NoStaleConsent'
<1> DEFINE t == TaskOf(w)
<1>1. /\ run \in Runs /\ run[w] \in Run /\ t \in Tasks /\ SoundRun(w)
      /\ UNCHANGED <<profile, approvals>>
      /\ UNCHANGED <<environment, row, approvals, calls, queue, disk>>
  BY AtSound DEF LoadRow, LoadApprovals, RunPCs, environment
<1>2. HandsOn(w) => TaskOf(w)' = t /\ Granted(t)' = Granted(t)
  BY <1>1 DEF HandsOn, TaskOf, Granted
<1>3. CASE LoadRow(w)
  <2>1. HandsOn(w)
    <3>1. row[t] \in Row /\ row[t].status \in Statuses
      BY <1>1, AtType, <1>3 DEF LoadRow, IInv, TypeInv, TypeOK, Created, Row, RunPCs
    <3> QED BY <1>1, <1>3, <3>1 DEF LoadRow, HandsOn, Runs, Run, Row, Snapshot, RunPCs
  <2>2. /\ run'[w].snap.grants = SnapOf(w).grants /\ run'[w].snap.last = SnapOf(w).last
        /\ run'[w].snap.status = row[t].status /\ run'[w].pc = "approvals"
        /\ run'[w].next = run[w].next /\ run'[w].ask = run[w].ask
    BY <1>1, <1>3 DEF LoadRow, Runs, Run, Snapshot, SnapOf
  <2>3. SoundTask(t) BY <1>1 DEF IInv, NoStaleConsent
  <2>4. TaskOf(w)' = t /\ Granted(t)' = Granted(t) BY <1>2, <2>1
  <2>5. SnapshotHolds(w)' BY <1>1, <2>2, <2>4 DEF SoundRun, SnapshotHolds, SnapOf
  <2>6. (Planned(TaskOf(w)) /\ RunPastPlan(w) => PlanApproved(TaskOf(w)))'
    BY <1>1, <2>2, <2>3, <2>4
    DEF SoundRun, SoundTask, Planned, PlanApproved, RunPastPlan, SnapOf
  <2>7. SoundRun(w)' BY <2>2, <2>5, <2>6 DEF SoundRun
  <2> QED BY <1>1, <2>1, <2>7, SoundOfMove
<1>4. CASE LoadApprovals(w)
  <2>1. CASE EndRun(w, FALSE)
    BY <1>1, <2>1, SoundAgain, SoundOfMove
  <2>2. CASE run' = [run EXCEPT ![w].pc = "step", ![w].snap.grants = Granted(t),
                                ![w].snap.pending = (Pending(t) # {}),
                                ![w].snap.last = LastDecision(t)]
    <3>1. /\ Granted(t) \subseteq Actions /\ LastDecision(t) \subseteq Decision
          /\ \A d \in LastDecision(t) : d.status = "approved" => d.action \in Granted(t)
      <4>1. approvals[t] \subseteq Approval BY <1>1 DEF IInv, TypeInv, TypeOK
      <4>2. \A d \in LastDecision(t) : \E a \in Decided(t) :
               d = [action |-> a.action, status |-> a.status]
        BY DEF LastDecision
      <4> QED BY <4>1, <4>2 DEF Decided, Granted, Approval, Decision
    <3>2. HandsOn(w)
      BY <1>1, <2>2, <3>1 DEF HandsOn, Runs, Run, Snapshot, RunPCs
    <3>3. /\ run'[w].snap.grants = Granted(t) /\ run'[w].snap.last = LastDecision(t)
          /\ run'[w].snap.status = SnapOf(w).status /\ run'[w].pc = "step"
          /\ run'[w].next = run[w].next /\ run'[w].ask = run[w].ask
      BY <1>1, <2>2 DEF Runs, Run, Snapshot, SnapOf
    <3>4. TaskOf(w)' = t /\ Granted(t)' = Granted(t) BY <1>2, <3>2
    <3>5. SnapshotHolds(w)' BY <3>1, <3>3, <3>4 DEF SnapshotHolds, SnapOf
    <3>6. (Planned(TaskOf(w)) /\ RunPastPlan(w) => PlanApproved(TaskOf(w)))'
      BY <1>1, <3>3, <3>4 DEF SoundRun, Planned, PlanApproved, RunPastPlan, SnapOf
    <3>7. SoundRun(w)' BY <3>3, <3>5, <3>6 DEF SoundRun
    <3> QED BY <1>1, <3>2, <3>7, SoundOfMove
  <2> QED BY <1>4, <2>1, <2>2 DEF LoadApprovals
<1> QED BY <1>3, <1>4

\* The steps that move the row along, and nothing else but their run.
LEMMA ConsentOfTransitions ==
    ASSUME IInv, NEW w \in Slots,
           \/ Settle(w) \/ MoveOn(w) \/ ResumeFromApproval(w)
           \/ AnalyzeUnprepared(w) \/ Analyze(w) \/ AnalyzeOdooOnline(w) \/ BackupFails(w)
           \/ ModelFails(w) \/ Implement(w) \/ ImplementChat(w) \/ ImplementOdooOnline(w)
           \/ ValidateOdooOnline(w)
    PROVE  NoStaleConsent'
<1> DEFINE t == TaskOf(w)
<1>1. /\ run \in Runs /\ run[w] \in Run /\ t \in Tasks /\ SoundRun(w)
      /\ SnapOf(w).status \in AfterPlan => ~Unapproved(t)
  BY AtSound DEF Settle, MoveOn, ResumeFromApproval, AnalyzeUnprepared, Analyze,
                 AnalyzeOdooOnline, BackupFails, ModelFails, Implement, ImplementChat,
                 ImplementOdooOnline, ValidateOdooOnline, LoopEnded, AtWork, AtStep, RunPCs
<1>2. UNCHANGED <<environment, approvals, calls, queue, disk>>
  BY DEF Settle, MoveOn, ResumeFromApproval, AnalyzeUnprepared, Analyze, AnalyzeOdooOnline,
         BackupFails, ModelFails, Implement, ImplementChat, ImplementOdooOnline,
         ValidateOdooOnline
<1>3. UNCHANGED <<profile, approvals>> /\ UNCHANGED <<profile, tree, remote>>
  BY <1>2 DEF environment, disk
<1>4. ASSUME NEW to \in Statuses, Transition(w, to),
             Unapproved(t) => to \notin AfterPlan
      PROVE  NoStaleConsent'
  BY <1>1, <1>3, <1>4, SoundTransition
<1>5. CASE Settle(w)
  <2>1. run[w].next \in Statuses BY <1>1 DEF Run
  <2>2. Unapproved(t) => run[w].next \notin AfterPlan
    BY <1>1 DEF SoundRun, RunPastPlan, Unapproved
  <2> QED BY <1>4, <1>5, <2>1, <2>2 DEF Settle
<1>6. CASE MoveOn(w)
  BY <1>4, <1>6, NotPastPlan DEF MoveOn, Statuses
<1>7. CASE ResumeFromApproval(w)
  <2>1. CASE EndRun(w, FALSE) /\ UNCHANGED row
    <3>1. UNCHANGED <<environment, row, approvals, calls, queue, disk>> BY <1>2, <2>1
    <3> QED BY <1>1, <1>3, <2>1, <3>1, SoundAgain, SoundOfMove
  <2>2. ASSUME NEW d \in SnapOf(w).last, d.status = "approved",
               Transition(w, Resumption(d.action))
        PROVE  NoStaleConsent'
    <3>1. d.action \in Granted(t) BY <1>1, <2>2 DEF SoundRun, SnapshotHolds
    <3>2. \E a \in approvals[t] : a.action = d.action BY <3>1 DEF Granted
    <3>3. SoundTask(t) BY <1>1 DEF IInv, NoStaleConsent
    <3>4. ~Unapproved(t)
      BY <3>1, <3>2, <3>3 DEF SoundTask, Unapproved, PlanApproved
    <3>5. Resumption(d.action) \in Statuses BY DEF Resumption, Statuses
    <3> QED BY <1>4, <2>2, <3>4, <3>5
  <2>3. CASE Transition(w, "failed")
    BY <1>4, <2>3, NotPastPlan DEF Statuses
  <2> QED BY <1>7, <2>1, <2>2, <2>3 DEF ResumeFromApproval
<1>8. CASE AnalyzeUnprepared(w) \/ AnalyzeOdooOnline(w) \/ BackupFails(w)
  BY <1>4, <1>8, NotPastPlan DEF AnalyzeUnprepared, AnalyzeOdooOnline, BackupFails, Statuses
<1>9. CASE Analyze(w)
  <2>1. KindOf(w) = "chat" /\ ModeOf(w) # "odoo_online" => ~Unapproved(t)
    <3>1. profile[t] \in Profile
      BY <1>1, ConstantsAssumption DEF IInv, TypeInv, TypeOK
    <3> QED BY <3>1 DEF KindOf, ModeOf, Unapproved, Planned
  <2> QED BY <1>4, <1>9, <2>1, NotPastPlan DEF Analyze, Statuses
<1>10. CASE ModelFails(w) \/ Implement(w) \/ ImplementChat(w) \/ ImplementOdooOnline(w)
            \/ ValidateOdooOnline(w)
  <2>1. SnapOf(w).status \in {"implementing", "testing"}
    BY <1>10 DEF ModelFails, Implement, ImplementChat, ImplementOdooOnline,
                 ValidateOdooOnline, LoopEnded, AtWork, AtStep
  <2>2. ~Unapproved(t) BY <1>1, <2>1 DEF AfterPlan
  <2>3. \E to \in Statuses : Transition(w, to)
    BY <1>10 DEF ModelFails, Implement, ImplementChat, ImplementOdooOnline,
                 ValidateOdooOnline, Statuses
  <2> QED BY <1>4, <2>2, <2>3
<1> QED BY <1>5, <1>6, <1>7, <1>8, <1>9, <1>10

\* A tool that was stopped suspends its task; the loop ends, and its run with it.
LEMMA ConsentOfHalting ==
    ASSUME IInv, NEW w \in Slots, SuspendTask(w) \/ LoopHalted(w)
    PROVE  NoStaleConsent'
<1> DEFINE t == TaskOf(w)
<1>1. run \in Runs /\ run[w] \in Run /\ t \in Tasks
  BY AtSound DEF SuspendTask, LoopHalted, RunPCs
<1>2. UNCHANGED <<environment, approvals, calls, queue, disk>>
  BY DEF SuspendTask, LoopHalted
<1>3. UNCHANGED <<profile, approvals>> /\ UNCHANGED <<profile, tree, remote>>
  BY <1>2 DEF environment, disk
<1>4. CASE SuspendTask(w)
  <2>1. /\ HandsOn(w) /\ run'[w].snap = run[w].snap /\ run'[w].next = "queued"
        /\ run'[w].ask = run[w].ask /\ run'[w].pc = "step"
    BY <1>1, <1>4 DEF SuspendTask, HandsOn, Runs, Run, RunPCs, Statuses
  <2>2. Unapproved(t) => run[w].ask \in {"none", "implementation_plan"}
    BY <1>4, AtSound DEF SuspendTask, RunPCs, SoundRun, RunPastPlan, Unapproved
  <2>3. SoundRun(w)' BY <1>1, <1>3, <2>1, <2>2, NotPastPlan, RunStaysSound
  <2>4. row' = row \/ row' = [row EXCEPT ![t].status = "waiting_approval"]
    BY <1>4 DEF SuspendTask
  <2>5. \A u \in Tasks : row'[u].status \in AfterPlan => row[u].status \in AfterPlan
    BY <1>1, <2>4, NotPastPlan DEF IInv, TypeInv, TypeOK, Row
  <2> QED BY <1>1, <1>3, <2>1, <2>3, <2>5, HeadsStayAhead, StepStaysSound
<1>5. CASE LoopHalted(w)
  <2>1. HandsOn(w) /\ SoundRun(w)' BY <1>1, <1>3, <1>5, SoundAgain DEF LoopHalted
  <2> QED BY <1>1, <1>5, <2>1, SoundOfMove DEF LoopHalted
<1> QED BY <1>4, <1>5

\* The steps that ask for an approval: past the plan, but for the plan itself.
LEMMA ConsentOfAsking ==
    ASSUME IInv, NEW w \in Slots,
           \/ Plan(w) \/ PlanOdooOnline(w) \/ ToolStopped(w) \/ Deliver(w)
           \/ SelectStanding(w)
    PROVE  NoStaleConsent'
<1> DEFINE t == TaskOf(w)
<1>1. /\ run \in Runs /\ run[w] \in Run /\ t \in Tasks /\ SoundRun(w)
      /\ SnapOf(w).status \in AfterPlan => ~Unapproved(t)
  BY AtSound DEF Plan, PlanOdooOnline, ToolStopped, Deliver, SelectStanding,
                 AtTools, AtWork, AtStep, RunPCs
<1>2. UNCHANGED <<environment, approvals, calls, queue, disk>>
  BY DEF Plan, PlanOdooOnline, ToolStopped, Deliver, SelectStanding
<1>3. /\ UNCHANGED <<profile, approvals>> /\ UNCHANGED <<profile, tree, remote>>
      /\ \A u \in Tasks : HeadAhead(u)'
  BY <1>2, HeadsStayAhead DEF environment, disk
<1>4. ASSUME NEW to \in Statuses, Transition(w, to),
             Unapproved(t) => to \notin AfterPlan
      PROVE  NoStaleConsent'
  BY <1>1, <1>3, <1>4, SoundTransition
<1>5. ASSUME NEW action \in Actions, NEW auto \in BOOLEAN, NEW next \in Statuses,
             AskFor(w, action, auto, next),
             UNCHANGED row, ~Unapproved(t)
      PROVE  NoStaleConsent'
  <2>1. HandsOn(w) /\ SoundRun(w)' BY <1>1, <1>3, <1>5, SoundAskFor
  <2> QED BY <1>1, <1>2, <1>5, <2>1, SoundOfMove
<1>6. CASE Plan(w) \/ PlanOdooOnline(w)
  <2>1. CASE Transition(w, "failed")
    BY <1>4, <2>1, NotPastPlan DEF Statuses
  <2>2. ASSUME NEW d \in Deliveries, PutForward(w, d) PROVE NoStaleConsent'
    <3>0. /\ row' = [row EXCEPT ![t].plan = @ + 1, ![t].deliver = d]
          /\ run' = [run EXCEPT ![w].pc = "select", ![w].ask = "implementation_plan",
                                ![w].next = "waiting_approval", ![w].plan = row[t].plan + 1]
      BY <2>2 DEF PutForward
    <3>1. \A u \in Tasks : row'[u].status = row[u].status
      BY <1>1, <3>0 DEF IInv, TypeInv, TypeOK, Row
    <3>2. /\ run'[w].pc = "select" /\ run'[w].snap = run[w].snap
          /\ run'[w].ask = "implementation_plan" /\ run'[w].next = "waiting_approval"
      BY <1>1, <3>0 DEF Runs, Run
    <3>3. HandsOn(w)
      <4>1. row[t] \in Row BY <1>1 DEF IInv, TypeInv, TypeOK
      <4> QED BY <1>1, <3>0, <4>1, PlanType
    <3>4. SoundRun(w)' BY <1>1, <1>3, <3>2, <3>3, NotPastPlan, RunStaysSound
    <3> QED BY <1>1, <1>3, <3>1, <3>3, <3>4, StepStaysSound
  <2> QED BY <1>6, <2>1, <2>2 DEF Plan, PlanOdooOnline, Deliveries
<1>7. CASE ToolStopped(w)
  <2>1. profile[t].gates \subseteq Actions
    BY <1>1, ConstantsAssumption DEF IInv, TypeInv, TypeOK, Profile, Actions
  <2>2. SnapOf(w).status \in {"implementing", "pushing"}
    BY <1>7 DEF ToolStopped, AtTools, InLoop, AtWork, AtStep
  <2>3. ~Unapproved(t) BY <1>1, <2>2 DEF AfterPlan
  <2>4. \E g \in Actions : AskFor(w, g, FALSE, "waiting_approval")
    BY <1>7, <2>1 DEF ToolStopped, Actions
  <2>5. UNCHANGED row BY <1>7 DEF ToolStopped
  <2> QED BY <1>5, <2>3, <2>4, <2>5 DEF Statuses
<1>8. CASE Deliver(w)
  <2>1. ~Unapproved(t) BY <1>1, <1>8 DEF Deliver, At, SoundRun, AfterPlan
  <2>2. CASE Transition(w, "pushing") \/ Transition(w, "completed")
    BY <1>4, <2>1, <2>2 DEF Statuses
  <2>3. CASE /\ \E auto \in BOOLEAN, next \in Statuses :
                   AskFor(w, "git_push", auto, next)
             /\ UNCHANGED row
    BY <1>5, <2>1, <2>3 DEF Actions
  <2>4. /\ (AutoPush /\ profile[t].auto) \in BOOLEAN
        /\ (IF AutoPush /\ profile[t].auto THEN "pushing" ELSE "waiting_approval") \in Statuses
    BY DEF Statuses
  <2> QED BY <1>8, <2>2, <2>3, <2>4 DEF Deliver
<1>9. CASE SelectStanding(w)
  <2>1. UNCHANGED row BY <1>9 DEF SelectStanding
  <2>2. HandsOn(w)
    BY <1>1, <1>9, AskedType, GotoType DEF SelectStanding, RunPCs, Run, At
  <2>3. /\ run'[w].snap = run[w].snap /\ run'[w].next = run[w].next
        /\ run'[w].ask \in {run[w].ask, "none"} /\ run'[w].pc \in {"settle", "insert"}
    BY <1>1, <1>9 DEF SelectStanding, Asked, Goto, Runs, Run
  <2>4. SoundRun(w)'
    BY <1>1, <1>3, <2>2, <2>3, RunStaysSound DEF SoundRun, RunPastPlan, Unapproved
  <2> QED BY <1>1, <1>2, <2>1, <2>2, <2>4, SoundOfMove
<1> QED BY <1>6, <1>7, <1>8, <1>9

\* An inserted request adds to what is granted, or to what is asked of a task whose
\* plan, if it needs one, was approved.
LEMMA ConsentOfInsert ==
    ASSUME IInv, NEW w \in Slots, InsertApproval(w)
    PROVE  NoStaleConsent' /\ Kept
<1> DEFINE t == TaskOf(w)
<1>1. /\ run \in Runs /\ run[w] \in Run /\ t \in Tasks /\ SoundRun(w)
  BY AtSound DEF InsertApproval, RunPCs
<1>2. UNCHANGED <<environment, calls, queue, disk>> /\ Asked(w) BY DEF InsertApproval
<1>3. UNCHANGED profile /\ UNCHANGED <<profile, tree, remote>>
  BY <1>2 DEF environment, disk
<1>4. \/ UNCHANGED <<row, approvals>>
      \/ /\ \E new : /\ new.action = run[w].ask
                     /\ approvals' = [approvals EXCEPT ![t] = @ \cup {new}]
         /\ row' = [row EXCEPT ![t].clock = @ + 1]
  <2> DEFINE new == [action |-> run[w].ask,
                     status |-> IF run[w].auto THEN "approved" ELSE "pending",
                     req |-> row[t].clock, dec |-> row[t].clock, plan |-> run[w].plan]
  <2>1. new.action = run[w].ask OBVIOUS
  <2> QED BY <2>1 DEF InsertApproval
<1>5. \A u \in Tasks : row'[u].status = row[u].status
  BY <1>1, <1>4 DEF IInv, TypeInv, TypeOK, Row
<1>6. \A u \in Tasks : \/ approvals'[u] = approvals[u]
                       \/ /\ u = t
                          /\ \E new : /\ new.action = run[w].ask
                                      /\ approvals'[u] = approvals[u] \cup {new}
  BY <1>1, <1>4 DEF IInv, TypeInv, TypeOK
<1>7. Kept BY <1>6 DEF Kept, Granted
<1>8. Unapproved(t) => run[w].ask = "implementation_plan"
  BY <1>1 DEF SoundRun, RunPastPlan, Unapproved, InsertApproval, At, Run
<1>9. \A u \in Tasks : SoundTask(u)'
  BY <1>3, <1>5, <1>6, <1>7, <1>8, TasksStaySound
<1>10. HandsOn(w) BY <1>1, <1>2, AskedType
<1>11. SoundRun(w)'
  <2>1. /\ run'[w].snap = run[w].snap /\ run'[w].next = run[w].next
        /\ run'[w].ask = "none" /\ run'[w].pc = "settle"
    BY <1>1, <1>2 DEF Asked, Runs, Run
  <2>2. TaskOf(w)' = t BY <1>10 DEF HandsOn, TaskOf
  <2>3. Granted(t) \subseteq Granted(t)' BY <1>1, <1>7, <2>2 DEF Kept
  <2>4. SnapshotHolds(w)' BY <1>1, <2>1, <2>2, <2>3 DEF SoundRun, SnapshotHolds, SnapOf
  <2>5. (Planned(TaskOf(w)) /\ RunPastPlan(w) => PlanApproved(TaskOf(w)))'
    BY <1>1, <1>3, <2>1, <2>2, <2>3
    DEF SoundRun, Planned, PlanApproved, RunPastPlan, SnapOf
  <2> QED BY <2>1, <2>4, <2>5 DEF SoundRun
<1>12. \A v \in Slots : At(v, "idle")' \/ SoundRun(v)'
  BY <1>3, <1>7, <1>10, <1>11, OthersStaySound DEF HandsOn
<1>13. \A u \in Tasks : HeadAhead(u)' BY <1>3, HeadsStayAhead
<1> QED BY <1>7, <1>9, <1>12, <1>13 DEF NoStaleConsent

\* The steps that work in the directory: it never falls behind the remote, which only
\* a push moves, to where the directory is.
LEMMA ConsentOfWorkspace ==
    ASSUME IInv, NEW w \in Slots,
           \/ Acquire(w) \/ UseGatedTool(w) \/ UseTool(w) \/ Sample(w) \/ Validate(w)
           \/ CompleteChat(w) \/ CommitNothing(w) \/ CommitWork(w) \/ SaveCommitHash(w) \/ Push(w)
           \/ DirectoryGone(w)
    PROVE  NoStaleConsent'
<1> DEFINE t == TaskOf(w)
<1>1. /\ run \in Runs /\ run[w] \in Run /\ t \in Tasks /\ SoundRun(w)
      /\ SnapOf(w).status \in AfterPlan => ~Unapproved(t)
      /\ Unapproved(t) => /\ run[w].next \notin AfterPlan
                          /\ run[w].ask \in {"none", "implementation_plan"}
  <2>1. /\ run \in Runs /\ run[w] \in Run /\ t \in Tasks /\ SoundRun(w)
        /\ SnapOf(w).status \in AfterPlan => ~Unapproved(t)
    BY AtSound DEF Acquire, UseGatedTool, UseTool, Sample, Validate, CompleteChat,
                   CommitNothing, CommitWork, SaveCommitHash, Push, DirectoryGone,
                   AtTools, AtWork, AtStep, At, RunPCs
  <2> QED BY <2>1 DEF SoundRun, RunPastPlan, Unapproved
<1>2. UNCHANGED <<profile, approvals>>
  BY DEF Acquire, UseGatedTool, UseTool, Sample, Change, Validate, CompleteChat,
         CommitNothing, CommitWork, SaveCommitHash, Push, DirectoryGone, environment
<1>3. \A u \in Tasks : row'[u].status = row[u].status
  <2>1. row' = row \/ row' = [row EXCEPT ![t].hash = tree[t].head]
    BY DEF Acquire, UseGatedTool, UseTool, Sample, Change, Validate, CompleteChat,
           CommitNothing, CommitWork, SaveCommitHash, Push, DirectoryGone
  <2> QED BY <1>1, <2>1 DEF IInv, TypeInv, TypeOK, Row
<1>4. tree[t] \in Tree /\ remote[t] \in Nat /\ HeadAhead(t)
  BY <1>1 DEF IInv, TypeInv, TypeOK, NoStaleConsent
<1>5. ASSUME HandsOn(w), run'[w].snap = run[w].snap, run'[w].next = run[w].next,
             run'[w].ask = run[w].ask,
             run'[w].pc \in {"hash", "deliver"} => SnapOf(w).status = "committing"
      PROVE  SoundRun(w)'
  BY <1>1, <1>2, <1>5, RunStaysSound DEF SnapOf
<1>6. ASSUME HandsOn(w), SoundRun(w)', \A u \in Tasks : HeadAhead(u)'
      PROVE  NoStaleConsent'
  BY <1>1, <1>2, <1>3, <1>6, StepStaysSound
<1>7. ASSUME Goto(w, "hash") \/ Goto(w, "deliver"), SnapOf(w).status = "committing"
      PROVE  HandsOn(w) /\ SoundRun(w)'
  <2>1. HandsOn(w) BY <1>1, <1>7, GotoType DEF RunPCs
  <2>2. /\ run'[w].snap = run[w].snap /\ run'[w].next = run[w].next
        /\ run'[w].ask = run[w].ask
    BY <1>1, <1>7 DEF Goto, Runs, Run
  <2> QED BY <1>5, <1>7, <2>1, <2>2
<1>8. ASSUME NEW status \in Statuses, SettleTo(w, status),
             SnapOf(w).status \in AfterPlan
      PROVE  HandsOn(w) /\ SoundRun(w)'
  BY <1>1, <1>2, <1>8, SoundSettleTo
<1>9. CASE Acquire(w)
  <2>1. HandsOn(w) BY <1>1, <1>9 DEF Acquire, HandsOn, Runs, Run
  <2>2. /\ run'[w].snap = run[w].snap /\ run'[w].next = run[w].next
        /\ run'[w].ask = run[w].ask /\ run'[w].pc = "step"
    BY <1>1, <1>9 DEF Acquire, At, Runs, Run
  <2>3. SoundRun(w)' BY <1>5, <2>1, <2>2
  <2>4. \A u \in Tasks : HeadAhead(u)'
    <3>1. CASE tree' = tree BY <1>2, <1>9, <3>1, HeadsStayAhead DEF Acquire
    <3>2. CASE tree' = [tree EXCEPT ![t] = Fresh(t)]
      <4>1. Fresh(t).head >= remote[t] BY <1>4 DEF Fresh, HeadAhead, Tree
      <4> QED BY <1>1, <1>2, <1>9, <3>2, <4>1
              DEF Acquire, IInv, TypeInv, TypeOK, NoStaleConsent, HeadAhead
    <3> QED BY <1>9, <3>1, <3>2 DEF Acquire
  <2> QED BY <1>6, <2>1, <2>3, <2>4
<1>10. CASE UseGatedTool(w) \/ UseTool(w) \/ Sample(w)
  <2>1. PICK effect : Change(w, effect) BY <1>10 DEF UseGatedTool, UseTool, Sample
  <2>2. run' = run /\ remote' = remote BY <2>1 DEF Change
  <2>3. HandsOn(w) BY <1>1, <2>2 DEF HandsOn, Runs
  <2>4. SoundRun(w)'
    BY <1>1, <1>5, <2>2, <2>3 DEF SoundRun, SnapOf
  <2>5. \A u \in Tasks : tree'[u].head = tree[u].head /\ tree'[u].dir = tree[u].dir
    BY <1>1, <2>1 DEF Change, IInv, TypeInv, TypeOK, Tree
  <2>6. \A u \in Tasks : HeadAhead(u)'
    BY <1>2, <2>2, <2>5 DEF HeadAhead, IInv, NoStaleConsent
  <2> QED BY <1>6, <2>3, <2>4, <2>6
<1>11. CASE Validate(w) \/ CompleteChat(w) \/ CommitNothing(w)
  <2>1. SnapOf(w).status \in {"testing", "committing"}
    BY <1>11 DEF Validate, CompleteChat, CommitNothing, AtWork, AtStep
  <2>2. \/ \E status \in Statuses : SettleTo(w, status)
        \/ Goto(w, "hash") /\ SnapOf(w).status = "committing"
    BY <1>11 DEF Validate, CompleteChat, CommitNothing, AtWork, AtStep, Statuses
  <2>3. HandsOn(w) /\ SoundRun(w)' BY <1>7, <1>8, <2>1, <2>2 DEF AfterPlan
  <2>4. \A u \in Tasks : HeadAhead(u)'
    BY <1>2, <1>11, HeadsStayAhead DEF Validate, CompleteChat, CommitNothing, disk
  <2> QED BY <1>6, <2>3, <2>4
<1>12. CASE CommitWork(w)
  <2>1. SnapOf(w).status = "committing" BY <1>12 DEF CommitWork, AtWork, AtStep
  <2>2. HandsOn(w) /\ SoundRun(w)'
    BY <1>7, <1>8, <1>12, <2>1 DEF CommitWork, AfterPlan, Statuses
  <2>3. \A u \in Tasks : /\ tree'[u].head >= tree[u].head
                         /\ tree'[u].dir = tree[u].dir
    BY <1>1, <1>12 DEF CommitWork, IInv, TypeInv, TypeOK, Tree
  <2>4. \A u \in Tasks : tree'[u].head \in Nat /\ tree[u].head \in Nat /\ remote[u] \in Nat
    BY <1>1, <1>12 DEF CommitWork, IInv, TypeInv, TypeOK, Tree
  <2>5. \A u \in Tasks : HeadAhead(u)'
    BY <1>2, <1>12, <2>3, <2>4 DEF CommitWork, HeadAhead, IInv, NoStaleConsent
  <2> QED BY <1>6, <2>2, <2>5
<1>13. CASE SaveCommitHash(w)
  <2>1. SnapOf(w).status = "committing" BY <1>1, <1>13 DEF SaveCommitHash, At, SoundRun
  <2>2. HandsOn(w) /\ SoundRun(w)' BY <1>7, <1>13, <2>1 DEF SaveCommitHash
  <2>3. \A u \in Tasks : HeadAhead(u)'
    BY <1>2, <1>13, HeadsStayAhead DEF SaveCommitHash, disk
  <2> QED BY <1>6, <2>2, <2>3
<1>14. CASE Push(w)
  <2>1. SnapOf(w).status = "pushing" BY <1>14 DEF Push, AtWork, AtStep
  <2>2. HandsOn(w) /\ SoundRun(w)' BY <1>8, <1>14, <2>1 DEF Push, AfterPlan, Statuses
  <2>3. tree' = tree /\ (remote' = remote \/ remote' = [remote EXCEPT ![t] = tree[t].head])
    BY <1>14 DEF Push
  <2>4. \A u \in Tasks : HeadAhead(u)'
    BY <1>1, <1>2, <1>4, <2>3 DEF HeadAhead, IInv, NoStaleConsent, TypeInv, TypeOK, Tree
  <2> QED BY <1>6, <2>2, <2>4
<1>15. CASE DirectoryGone(w)
  <2>1. HandsOn(w) /\ SoundRun(w)' BY <1>1, <1>2, <1>15, SoundAgain DEF DirectoryGone
  <2>2. \A u \in Tasks : HeadAhead(u)'
    BY <1>2, <1>15, HeadsStayAhead DEF DirectoryGone, disk
  <2> QED BY <1>6, <2>1, <2>2
<1> QED BY <1>9, <1>10, <1>11, <1>12, <1>13, <1>14, <1>15

-----------------------------------------------------------------------------
(* The invariant holds *)

LEMMA ConsentInit == Init => NoStaleConsent
<1> SUFFICES ASSUME Init PROVE NoStaleConsent OBVIOUS
<1>1. \A t \in Tasks : SoundTask(t) BY NotPastPlan DEF Init, SoundTask
<1>2. \A t \in Tasks : HeadAhead(t) BY DEF Init, HeadAhead
<1>3. \A w \in Slots : At(w, "idle") BY DEF Init, At, Idle
<1> QED BY <1>1, <1>2, <1>3 DEF NoStaleConsent

\* Every step of a run keeps the invariant.
LEMMA ConsentOfWork ==
    ASSUME IInv, NEW w \in Slots, Work(w)
    PROVE  NoStaleConsent'
PROOF BY ConsentOfLoads, ConsentOfSlots, ConsentOfTransitions, ConsentOfAsking,
         ConsentOfInsert, ConsentOfHalting, ConsentOfWorkspace DEF Work

LEMMA ConsentNext == IInv /\ [Next]_vars => IInv'
<1> SUFFICES ASSUME IInv, [Next]_vars PROVE NoStaleConsent'
  BY TypeNext DEF IInv
<1>1. CASE UNCHANGED vars
  BY <1>1, ConsentUntouched DEF vars, environment, disk
<1>2. ASSUME NEW t \in Tasks, Create(t) \/ Cancel(t) \/ Reclaim(t) PROVE NoStaleConsent'
  BY <1>2, ConsentOfAPI
<1>3. ASSUME NEW t \in Tasks, NEW v \in {"approved", "rejected"}, Decide(t, v)
      PROVE  NoStaleConsent'
  BY <1>3, ConsentOfDecide
<1>4. ASSUME NEW c \in calls, ReachQueue(c) \/ LoseCall(c) PROVE NoStaleConsent'
  BY <1>4, ConsentUntouched DEF ReachQueue, LoseCall, environment, disk
<1>5. ASSUME NEW w \in Slots, Take(w) \/ Work(w) \/ Throw(w) PROVE NoStaleConsent'
  BY <1>5, ConsentOfSlots, ConsentOfWork
<1>6. CASE Crash
  BY <1>6, ConsentOfSlots DEF Crash
<1> QED BY <1>1, <1>2, <1>3, <1>4, <1>5, <1>6 DEF Next

LEMMA Invariant == Spec => []IInv
<1>1. Init => IInv BY TypeInit, ConsentInit DEF IInv
<1> QED BY <1>1, ConsentNext, PTL DEF Spec

\* However many runs of a task overlap, whoever decides or cancels meanwhile and
\* whatever crashes: no run acts on an approval that was not given.
THEOREM ConsentHolds == Spec => []NoStaleConsent
<1>1. IInv => NoStaleConsent BY DEF IInv
<1> QED BY <1>1, Invariant, PTL

-----------------------------------------------------------------------------
(* Status moves *)

\* What a step may do to a task's status.
StatusStep(t) ==
    \/ row'[t].status = row[t].status
    \/ row[t].status = "absent" /\ row'[t].status = "created"
    \/ CanTransition(row[t].status, row'[t].status)

\* A step moves the status of one task at most.
OneMoves == \E t \in Tasks : /\ StatusStep(t)
                             /\ \A u \in Tasks : u # t => row'[u].status = row[u].status

LEMMA TransitionMoves ==
    ASSUME TypeInv, NEW w \in Slots, run[w] \in Run, NEW to,
           Transition(w, to)
    PROVE  OneMoves
<1>1. TaskOf(w) \in Tasks BY DEF Run, TaskOf, Job
<1>2. CASE row' = row BY <1>1, <1>2 DEF OneMoves, StatusStep
<1>3. CASE /\ row' = [row EXCEPT ![TaskOf(w)].status = to]
           /\ Applies(w) /\ CanTransition(SnapOf(w).status, to)
  <2>1. row[TaskOf(w)] \in Row /\ row \in [Tasks -> Row] BY <1>1 DEF TypeInv, TypeOK
  <2>2. /\ row'[TaskOf(w)].status = to
        /\ \A u \in Tasks : u # TaskOf(w) => row'[u].status = row[u].status
    BY <1>1, <1>3, <2>1 DEF Row
  <2>3. CanTransition(row[TaskOf(w)].status, to) BY <1>3 DEF Applies
  <2> QED BY <1>1, <2>2, <2>3 DEF OneMoves, StatusStep
<1> QED BY <1>2, <1>3 DEF Transition

\* A step that leaves every status alone.
LEMMA NothingMoves ==
    ASSUME NEW t \in Tasks, \A u \in Tasks : row'[u].status = row[u].status
    PROVE  OneMoves
PROOF BY DEF OneMoves, StatusStep

LEMMA APIMoves ==
    ASSUME TypeInv, NEW t \in Tasks,
           \/ Create(t) \/ Cancel(t) \/ Reclaim(t)
           \/ Decide(t, "approved") \/ Decide(t, "rejected")
    PROVE  OneMoves
<1>1. row \in [Tasks -> Row] /\ row[t] \in Row BY DEF TypeInv, TypeOK
<1>2. CASE Create(t)
  <2>1. /\ row[t].status = "absent" /\ row'[t].status = "created"
        /\ \A u \in Tasks : u # t => row'[u].status = row[u].status
    BY <1>1, <1>2 DEF Create, Row
  <2> QED BY <2>1 DEF OneMoves, StatusStep
<1>3. CASE Cancel(t)
  <2>1. /\ row[t].status \notin Terminal /\ row'[t].status = "cancelled"
        /\ \A u \in Tasks : u # t => row'[u].status = row[u].status
    BY <1>1, <1>3 DEF Cancel, Row
  <2>2. CanTransition(row[t].status, "cancelled") BY <2>1 DEF CanTransition
  <2> QED BY <2>1, <2>2 DEF OneMoves, StatusStep
<1>4. CASE Reclaim(t) BY <1>4, NothingMoves DEF Reclaim
<1>5. CASE Decide(t, "approved") \/ Decide(t, "rejected")
  <2>1. row' = [row EXCEPT ![t].clock = @ + 1] BY <1>5 DEF Decide
  <2> QED BY <1>1, <2>1, NothingMoves DEF Row
<1> QED BY <1>2, <1>3, <1>4, <1>5

LEMMA WorkMoves == ASSUME TypeInv, NEW w \in Slots, Work(w) PROVE OneMoves
<1> DEFINE t == TaskOf(w)
<1>1. run[w] \in Run /\ t \in Tasks
  <2>1. {"row", "approvals", "step", "select", "insert", "hash", "deliver",
         "settle", "release"} = RunPCs
    BY DEF RunPCs
  <2> QED
    BY <2>1, AtType
    DEF Work, LoadRow, LoadApprovals, Settle, Release, MoveOn, ResumeFromApproval, Acquire,
        AnalyzeUnprepared, Analyze, AnalyzeOdooOnline, Plan, PlanOdooOnline, SelectStanding,
        InsertApproval, ToolStopped, SuspendTask, UseGatedTool, UseTool, Sample, LoopHalted,
        ModelFails, Implement, ImplementChat, ImplementOdooOnline, LoopEnded, Validate,
        CompleteChat, ValidateOdooOnline,
        CommitNothing, CommitWork, SaveCommitHash, Deliver, BackupFails, Push, DirectoryGone,
        AtTools, AtWork, AtStep, At
<1>2. row \in [Tasks -> Row] /\ row[t] \in Row BY <1>1 DEF TypeInv, TypeOK
<1>3. ASSUME NEW to, Transition(w, to) PROVE OneMoves
  BY <1>1, <1>3, TransitionMoves
<1>4. CASE row' = row BY <1>1, <1>4, NothingMoves
<1>5. CASE Settle(w) \/ MoveOn(w) \/ AnalyzeUnprepared(w) \/ Analyze(w)
           \/ AnalyzeOdooOnline(w) \/ BackupFails(w)
  BY <1>3, <1>5
  DEF Settle, MoveOn, AnalyzeUnprepared, Analyze, AnalyzeOdooOnline, BackupFails
<1>12. CASE ModelFails(w) \/ Implement(w) \/ ImplementChat(w) \/ ImplementOdooOnline(w)
            \/ ValidateOdooOnline(w)
  BY <1>3, <1>12
  DEF ModelFails, Implement, ImplementChat, ImplementOdooOnline, ValidateOdooOnline
<1>13. CASE SuspendTask(w)
  <2>1. CASE Applies(w) /\ row' = [row EXCEPT ![t].status = "waiting_approval"]
    <3>1. row[t].status = "implementing" BY <1>13, <2>1 DEF SuspendTask, InLoop, Applies
    <3>2. CanTransition("implementing", "waiting_approval")
      BY DEF CanTransition, Forward, Terminal
    <3>3. /\ row'[t].status = "waiting_approval"
          /\ \A u \in Tasks : u # t => row'[u].status = row[u].status
      BY <1>1, <1>2, <2>1 DEF Row
    <3> QED BY <1>1, <3>1, <3>2, <3>3 DEF OneMoves, StatusStep
  <2> QED BY <1>4, <1>13, <2>1 DEF SuspendTask
<1>6. CASE ResumeFromApproval(w) BY <1>3, <1>4, <1>6 DEF ResumeFromApproval
<1>7. CASE Plan(w) \/ PlanOdooOnline(w)
  <2>1. CASE \E d \in Deliveries : row' = [row EXCEPT ![t].plan = @ + 1, ![t].deliver = d]
    <3>1. \A u \in Tasks : row'[u].status = row[u].status BY <1>1, <1>2, <2>1 DEF Row
    <3> QED BY <1>1, <3>1, NothingMoves
  <2> QED BY <1>3, <1>7, <2>1 DEF Plan, PlanOdooOnline, PutForward, Deliveries
<1>8. CASE InsertApproval(w)
  <2>1. row' = row \/ row' = [row EXCEPT ![t].clock = @ + 1]
    BY <1>8 DEF InsertApproval
  <2> QED BY <1>1, <1>2, <2>1, NothingMoves DEF Row
<1>9. CASE SaveCommitHash(w)
  <2>1. row' = [row EXCEPT ![t].hash = tree[t].head] BY <1>9 DEF SaveCommitHash
  <2> QED BY <1>1, <1>2, <2>1, NothingMoves DEF Row
<1>10. CASE Deliver(w) BY <1>3, <1>4, <1>10 DEF Deliver
<1>11. CASE LoadRow(w) \/ LoadApprovals(w) \/ Release(w) \/ Acquire(w) \/ SelectStanding(w)
            \/ ToolStopped(w) \/ UseGatedTool(w) \/ UseTool(w) \/ Sample(w) \/ LoopHalted(w)
            \/ Validate(w) \/ CompleteChat(w) \/
            CommitNothing(w) \/ CommitWork(w) \/ Push(w)
            \/ DirectoryGone(w)
  BY <1>4, <1>11
  DEF LoadRow, LoadApprovals, Release, Acquire, SelectStanding, ToolStopped, UseGatedTool,
      UseTool, Sample, Change, LoopHalted, Validate, CompleteChat,
      CommitNothing, CommitWork, Push, DirectoryGone
<1> QED BY <1>5, <1>6, <1>7, <1>8, <1>9, <1>10, <1>11, <1>12, <1>13 DEF Work

\* A step moves no status at all, or one along an edge.
LEMMA NextMoves ==
    ASSUME TypeInv, Next
    PROVE  OneMoves \/ row' = row
<1>1. ASSUME NEW t \in Tasks,
             \/ Create(t) \/ Cancel(t) \/ Reclaim(t)
             \/ Decide(t, "approved") \/ Decide(t, "rejected")
      PROVE  OneMoves
  BY <1>1, APIMoves
<1>2. ASSUME NEW c \in calls, ReachQueue(c) \/ LoseCall(c) PROVE row' = row
  BY <1>2 DEF ReachQueue, LoseCall
<1>3. ASSUME NEW w \in Slots, Take(w) \/ Work(w) \/ Throw(w)
      PROVE  OneMoves \/ row' = row
  BY <1>3, WorkMoves DEF Take, Throw
<1>4. CASE Crash BY <1>4 DEF Crash
<1> QED BY <1>1, <1>2, <1>3, <1>4 DEF Next

\* Two runs, a cancellation, a retry: none moves a status but along an edge of the
\* table, from where it is and not from where it was read.
THEOREM StatusEdges == Spec => StatusMovesAlongEdges
<1>1. TypeInv /\ [Next]_vars =>
        [\A t \in Tasks : row'[t].status # row[t].status =>
            row[t].status = "absent" \/ CanTransition(row[t].status, row'[t].status)]_vars
  BY NextMoves DEF OneMoves, StatusStep
<1>2. Spec => []TypeInv BY TypeInit, TypeNext, PTL DEF Spec
<1> QED BY <1>1, <1>2, PTL DEF Spec, StatusMovesAlongEdges

-----------------------------------------------------------------------------
(* Refinement: every step is a promised step or none *)

Promised == Promise!Next \/ UNCHANGED Promise!promised

\* The status a task settled at, as ConsentGate sees it.
SettledAt(t) == IF row[t].status \in Terminal THEN row[t].status ELSE "open"

\* A step that moves a status at most settles a task at most.
LEMMA QuietPromised ==
    ASSUME OneMoves \/ row' = row, UNCHANGED <<profile, approvals, effects, remote>>
    PROVE  Promised
<1>1. \A u \in Tasks : Granted(u)' = Granted(u) BY DEF Granted
<1>2. CASE \A u \in Tasks : SettledAt(u)' = SettledAt(u)
  <2>1. UNCHANGED Promise!promised BY <1>1, <1>2 DEF Promise!promised, SettledAt
  <2> QED BY <2>1 DEF Promised
<1>3. CASE \E u \in Tasks : SettledAt(u)' # SettledAt(u)
  <2>1. PICK t \in Tasks : /\ StatusStep(t)
                           /\ \A u \in Tasks : u # t => SettledAt(u)' = SettledAt(u)
    BY <1>3 DEF OneMoves, SettledAt
  <2>2. SettledAt(t)' # SettledAt(t) BY <1>3, <2>1
  <2>3. {"open", "absent", "created"} \cap Terminal = {} BY DEF Terminal
  <2>4. row[t].status \notin Terminal
    BY <2>1, <2>2, <2>3 DEF SettledAt, StatusStep, CanTransition
  <2>5. SettledAt(t) = "open" /\ SettledAt(t)' \in Terminal
    BY <2>2, <2>4 DEF SettledAt
  <2>6. Promise!Settle(t)
    BY <1>1, <2>1, <2>5
    DEF Promise!Settle, Promise!Alone, Promise!Terminal, Terminal, SettledAt
  <2> QED BY <2>6 DEF Promised, Promise!Next
<1> QED BY <1>2, <1>3

\* A decision, and a request configuration grants itself, is a consent.
LEMMA ConsentPromised ==
    ASSUME Kept, NEW t \in Tasks,
           \A u \in Tasks : u # t => approvals'[u] = approvals[u],
           \A u \in Tasks : row'[u].status = row[u].status,
           UNCHANGED <<profile, effects, remote>>
    PROVE  Promised
<1>1. \A u \in Tasks : u # t => Granted(u)' = Granted(u) BY DEF Granted
<1>2. Granted(t) \subseteq Granted(t)' BY DEF Kept
<1>3. Promise!Consent(t) BY <1>1, <1>2 DEF Promise!Consent, Promise!Alone
<1> QED BY <1>3 DEF Promised, Promise!Next

\* A tool that changes something was allowed to: by its gate's approval, or its plan's.
LEMMA ToolPromised ==
    ASSUME IInv, NEW w \in Slots, UseGatedTool(w) \/ UseTool(w) \/ Sample(w)
    PROVE  Promised
<1>0. PICK t \in Tasks : t = TaskOf(w)
  BY AtSound DEF UseGatedTool, UseTool, Sample, AtTools, AtWork, AtStep, At, RunPCs
<1>1. /\ run[w] \in Run /\ SoundRun(w)
      /\ SnapOf(w).status \in AfterPlan => ~Unapproved(t)
  BY <1>0, AtSound DEF UseGatedTool, UseTool, Sample, AtTools, AtWork, AtStep, At, RunPCs
<1>2. ~Unapproved(t)
  BY <1>1 DEF UseGatedTool, UseTool, Sample, AtTools, InLoop, AtWork, AtStep, AfterPlan
<1>3. SnapOf(w).grants \subseteq Granted(t) BY <1>0, <1>1 DEF SoundRun, SnapshotHolds
<1>4. PICK effect : /\ Change(w, effect)
                    /\ \/ effect \in Granted(t)
                       \/ /\ "implementation_plan" \in Granted(t)
                          /\ \/ effect = "write"
                             \/ profile[t].kind = "change" /\ effect \in CoveredByPlan
  <2>1. CASE UseGatedTool(w) \/ Sample(w)
    BY <1>0, <1>3, <2>1 DEF UseGatedTool, Sample, NeedsApproval, KindOf
  <2>2. CASE UseTool(w)
    <3>1. profile[t] \in Profile
      BY <1>1, ConstantsAssumption DEF IInv, TypeInv, TypeOK
    <3>2. Planned(t)
      BY <1>0, <3>1, <2>2 DEF UseTool, KindOf, ModeOf, Planned, Profile, Modes
    <3> QED BY <1>2, <2>2, <3>2 DEF UseTool, Unapproved, PlanApproved
  <2> QED BY <2>1, <2>2
<1>5. /\ effects' = [effects EXCEPT ![t] = @ \cup {effect}]
      /\ UNCHANGED <<profile, row, approvals, remote>>
  BY <1>0, <1>4 DEF Change, environment
<1>6. effects \in [Tasks -> SUBSET Effects] BY DEF IInv, TypeInv, TypeOK
<1>7. /\ effects'[t] = effects[t] \cup {effect}
      /\ effects' = [effects EXCEPT ![t] = effects'[t]]
  BY <1>1, <1>5, <1>6
<1>8. Promise!MayDo(t, effect) BY <1>4 DEF Promise!MayDo, Promise!CoveredByPlan, CoveredByPlan
<1>9. Promise!Do(t)
  BY <1>5, <1>7, <1>8 DEF Promise!Do, Promise!Alone, Granted
<1> QED BY <1>9 DEF Promised, Promise!Next

\* A push that moves the remote was approved, and moves it forward.
LEMMA PushPromised ==
    ASSUME IInv, NEW w \in Slots, Push(w)
    PROVE  Promised
<1>0. PICK t \in Tasks : t = TaskOf(w)
  BY AtSound DEF Push, AtWork, AtStep, RunPCs
<1>1. run[w] \in Run /\ SoundRun(w)
  BY AtSound DEF Push, AtWork, AtStep, RunPCs
<1>2. UNCHANGED <<profile, row, approvals, effects>>
  BY DEF Push, environment
<1>3. CASE remote' = remote BY <1>2, <1>3, QuietPromised
<1>4. CASE remote' = [remote EXCEPT ![t] = tree[t].head] /\ tree[t].dir /\ remote' # remote
  <2>1. "git_push" \in Granted(t)
    <3>1. "git_push" \notin CoveredByPlan BY DEF CoveredByPlan
    <3> QED BY <1>0, <1>1, <3>1 DEF Push, NeedsApproval, SoundRun, SnapshotHolds
  <2>2. tree[t].head >= remote[t] /\ tree[t].head \in Nat /\ remote \in [Tasks -> Nat]
    BY <1>1, <1>4 DEF IInv, NoStaleConsent, HeadAhead, TypeInv, TypeOK, Tree
  <2>3. remote[t] < remote'[t] /\ remote' = [remote EXCEPT ![t] = remote'[t]]
    BY <1>1, <1>4, <2>2
  <2>4. Promise!Send(t)
    BY <1>1, <1>2, <2>1, <2>3 DEF Promise!Send, Promise!Alone, Granted
  <2> QED BY <2>4 DEF Promised, Promise!Next
<1> QED BY <1>0, <1>3, <1>4 DEF Push

LEMMA WorkPromised ==
    ASSUME IInv, NEW w \in Slots, Work(w)
    PROVE  Promised
<1>1. CASE InsertApproval(w)
  <2>1. Kept BY <1>1, ConsentOfInsert
  <2>2. TaskOf(w) \in Tasks BY <1>1, AtSound DEF InsertApproval, RunPCs
  <2>3. /\ UNCHANGED <<profile, effects, remote>>
        /\ row' = row \/ row' = [row EXCEPT ![TaskOf(w)].clock = @ + 1]
        /\ approvals' = approvals
           \/ \E new : approvals' = [approvals EXCEPT ![TaskOf(w)] = new]
    BY <1>1 DEF InsertApproval, environment, disk
  <2>4. /\ \A u \in Tasks : u # TaskOf(w) => approvals'[u] = approvals[u]
        /\ \A u \in Tasks : row'[u].status = row[u].status
    BY <2>2, <2>3 DEF IInv, TypeInv, TypeOK, Row
  <2> QED BY <2>1, <2>2, <2>3, <2>4, ConsentPromised
<1>2. CASE UseGatedTool(w) \/ UseTool(w) \/ Sample(w) BY <1>2, ToolPromised
<1>3. CASE Push(w) BY <1>3, PushPromised
<1>4. CASE UNCHANGED <<profile, approvals, effects, remote>>
  BY <1>4, WorkMoves, QuietPromised DEF IInv
<1>5. InsertApproval(w) \/ UseGatedTool(w) \/ UseTool(w) \/ Sample(w) \/ Push(w)
      \/ UNCHANGED <<profile, approvals, effects, remote>>
  BY DEF Work, LoadRow, LoadApprovals, Settle, Release, MoveOn, ResumeFromApproval, Acquire,
         AnalyzeUnprepared, Analyze, AnalyzeOdooOnline, Plan, PlanOdooOnline, SelectStanding,
         ToolStopped, SuspendTask, LoopHalted, ModelFails, Implement, ImplementChat,
         ImplementOdooOnline, Validate, CompleteChat, ValidateOdooOnline,
         CommitNothing, CommitWork, SaveCommitHash, Deliver, BackupFails,
         DirectoryGone, environment, disk
<1> QED BY <1>1, <1>2, <1>3, <1>4, <1>5

LEMMA NextPromised == IInv /\ [Next]_vars => [Promise!Next]_(Promise!promised)
<1> SUFFICES ASSUME IInv, [Next]_vars PROVE Promised BY DEF Promised
<1>1. CASE UNCHANGED vars
  BY <1>1, QuietPromised DEF vars, environment, disk
<1>2. ASSUME NEW t \in Tasks, Create(t) \/ Cancel(t) \/ Reclaim(t) PROVE Promised
  <2>1. UNCHANGED <<profile, approvals, effects, remote>>
    BY <1>2 DEF Create, Cancel, Reclaim, environment, disk
  <2> QED BY <1>2, <2>1, APIMoves, QuietPromised DEF IInv
<1>3. ASSUME NEW t \in Tasks, NEW v \in {"approved", "rejected"}, Decide(t, v)
      PROVE  Promised
  <2>1. Kept BY <1>3, ConsentOfDecide
  <2>2. /\ UNCHANGED <<profile, effects, remote>>
        /\ row' = [row EXCEPT ![t].clock = @ + 1]
        /\ \E new : approvals' = [approvals EXCEPT ![t] = new]
    BY <1>3 DEF Decide, environment, disk
  <2>3. /\ \A u \in Tasks : u # t => approvals'[u] = approvals[u]
        /\ \A u \in Tasks : row'[u].status = row[u].status
    BY <2>2 DEF IInv, TypeInv, TypeOK, Row
  <2> QED BY <2>1, <2>2, <2>3, ConsentPromised
<1>4. ASSUME NEW c \in calls, ReachQueue(c) \/ LoseCall(c) PROVE Promised
  BY <1>4, QuietPromised DEF ReachQueue, LoseCall, environment, disk
<1>5. ASSUME NEW w \in Slots, Work(w) PROVE Promised BY <1>5, WorkPromised
<1>6. ASSUME NEW w \in Slots, Take(w) \/ Throw(w) PROVE Promised
  BY <1>6, QuietPromised DEF Take, Throw, environment, disk
<1>7. CASE Crash BY <1>7, QuietPromised DEF Crash
<1> QED BY <1>1, <1>2, <1>3, <1>4, <1>5, <1>6, <1>7 DEF Next

LEMMA InitPromised == Init => Promise!Init
PROOF BY DEF Init, Promise!Init, Granted, Terminal

\* The workflow keeps the platform's promise: no tool changes anything before somebody
\* approved that kind of change, no commit leaves before its push was approved, no
\* approval is taken back and no settled task moves, for any number of runs that
\* overlap, any retries, crashes, cancellations and lost calls.
THEOREM PromiseKept == Spec => KeepsPromise
PROOF BY Invariant, InitPromised, NextPromised, PTL DEF Spec, KeepsPromise, Promise!Spec
=============================================================================
