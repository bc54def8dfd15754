----------------------------- MODULE Runs_proofs ----------------------------
(***************************************************************************)
(* What the runs of TaskLifecycle keep, for any tasks, slots and faults:   *)
(* that a push is covered, whatever overlaps; and, where the runs of one   *)
(* task do not overlap, what is asked, pushed, recorded, kept and left to  *)
(* do.  What a step of a run does is stated once, as one of a few kinds of *)
(* step, and every invariant is kept by kind.                              *)
(***************************************************************************)
EXTENDS Consent_proofs

\* At most one slot works on a task.  A worker with a single slot is a case of it, and
\* so is one that would take no job of a task it has a run of.
Alone == \A v, w \in Slots :
    ~At(v, "idle") /\ ~At(w, "idle") /\ TaskOf(v) = TaskOf(w) => v = w

Busy(w) == ~At(w, "idle")
Open(t) == row[t].status \notin Terminal \cup {"absent"}
\* Configuration authorises the pushes of this task.
Authorised(t) == AutoPush /\ profile[t].auto

-----------------------------------------------------------------------------
(* The kinds of step a run takes *)

\* What a step leaves of its run's record.
SameSnap(w) == run'[w].snap = run[w].snap /\ run'[w].stops = run[w].stops
               /\ run'[w].threw = run[w].threw
SameAsk(w) == run'[w].ask = run[w].ask /\ run'[w].auto = run[w].auto
\* The record of a run that has read nothing yet.
Cleared(w) == /\ run'[w].snap = EmptySnap /\ run'[w].ws = FALSE /\ run'[w].ask = "none"
              /\ run'[w].auto = FALSE /\ run'[w].next = "queued" /\ run'[w].stops = 0

Reads(w) ==
    LET r == row[TaskOf(w)]  s == run'[w].snap IN
    /\ At(w, "row") /\ run'[w].pc = "approvals" /\ SameAsk(w)
    /\ s.status = r.status /\ s.plan = r.plan /\ s.deliver = r.deliver /\ s.hash = r.hash
    /\ s.grants = SnapOf(w).grants /\ s.last = SnapOf(w).last
    /\ run'[w].ws = run[w].ws /\ run'[w].next = run[w].next
    /\ run'[w].stops = run[w].stops /\ run'[w].threw = run[w].threw
    /\ UNCHANGED <<row, approvals, disk>>
Sees(w) ==
    LET t == TaskOf(w)  s == run'[w].snap  o == SnapOf(w) IN
    /\ At(w, "approvals") /\ run'[w].pc = "step" /\ SameAsk(w)
    /\ o.status \notin Terminal /\ row[t].status = o.status
    /\ s.status = o.status /\ s.plan = o.plan /\ s.deliver = o.deliver /\ s.hash = o.hash
    /\ s.grants = Granted(t) /\ s.pending = (Pending(t) # {}) /\ s.last = LastDecision(t)
    /\ run'[w].ws = run[w].ws /\ run'[w].next = run[w].next
    /\ run'[w].stops = run[w].stops /\ run'[w].threw = run[w].threw
    /\ UNCHANGED <<row, approvals, disk>>

\* The steps a run acts at.
Acting == {"step", "select", "insert", "hash", "deliver", "settle"}
Yields(w) ==
    /\ Cleared(w) /\ run'[w].pc = "release" /\ ~run'[w].threw
    /\ UNCHANGED <<row, approvals, disk>>
    /\ run[w].pc \in Acting \cup {"approvals"}
    /\ \/ row[TaskOf(w)].status # SnapOf(w).status
       \/ At(w, "approvals") /\ SnapOf(w).status \in Terminal
       \/ AtStep(w, "waiting_approval") /\ SnapOf(w).pending
       \/ At(w, "step") /\ InLoop(w) /\ run[w].stops # 0
Breaks(w) ==
    /\ Cleared(w) /\ run'[w].pc = "release" /\ run'[w].threw
    /\ UNCHANGED <<row, approvals, disk>>
    /\ run[w].pc \in Acting
    /\ \/ /\ At(w, "hash") \/ run[w].ws
          /\ ModeOf(w) \in FileModes /\ ~tree[TaskOf(w)].dir
       \/ At(w, "settle") /\ ~run[w].ws /\ ~CanTransition(SnapOf(w).status, run[w].next)

\* Where a transition leads says where the run stood.
Leads(w, to) ==
    /\ At(w, "settle") => ~run[w].ws /\ to = run[w].next
    /\ At(w, "deliver") => \/ to = "completed"
                           \/ to = "pushing" /\ "git_push" \in SnapOf(w).grants
    /\ At(w, "step") =>
          /\ to \notin {"pushing", "waiting_approval"} \/ SnapOf(w).status = "waiting_approval"
          /\ SnapOf(w).status = "pushing" => to = "failed"
          /\ SnapOf(w).status = "waiting_approval" /\ to # "failed" =>
                /\ ~SnapOf(w).pending
                /\ \E d \in SnapOf(w).last : d.status = "approved" /\ to = Resumption(d.action)
\* A transition that applies.
Moves(w, to) ==
    /\ run[w].pc \in {"step", "deliver", "settle"}
    /\ Applies(w) /\ CanTransition(SnapOf(w).status, to) /\ Leads(w, to)
    /\ row' = [row EXCEPT ![TaskOf(w)].status = to]
    /\ Cleared(w) /\ run'[w].pc = "row" /\ ~run'[w].threw
    /\ UNCHANGED <<approvals, disk>>

Acquires(w) ==
    LET t == TaskOf(w) IN
    /\ At(w, "step") /\ SnapOf(w).status \in Working /\ ~run[w].ws
    /\ SameSnap(w) /\ SameAsk(w)
    /\ run'[w].pc = "step" /\ run'[w].ws /\ run'[w].next = run[w].next
    /\ held' = held \cup {t}
    /\ \/ (t \in held \/ Reattachable(t, SnapOf(w).hash)) /\ tree' = tree
       \/ /\ t \notin held /\ ~Reattachable(t, SnapOf(w).hash) /\ ~Refused(t)
          /\ tree' = [tree EXCEPT ![t] = Fresh(t)]
    /\ UNCHANGED <<row, approvals, remote, effects>>

\* What is asked for, by a tool at its gate, with a plan, or before a push.
AsksTool(w) ==
    /\ At(w, "step") /\ InLoop(w)
    /\ run'[w].ask \in ToolGates \cap profile[TaskOf(w)].gates
    /\ run'[w].ask \notin SnapOf(w).grants
    /\ run'[w].auto = FALSE /\ run'[w].next = "waiting_approval"
    /\ UNCHANGED row
AsksPlan(w) ==
    LET t == TaskOf(w) IN
    /\ AtStep(w, "planning") /\ run[w].ws
    /\ run'[w].ask = "implementation_plan" /\ run'[w].auto = run[w].auto
    /\ run'[w].next = "waiting_approval"
    /\ \E n \in Nat, d \in Deliveries :
          /\ row' = [row EXCEPT ![t].plan = n, ![t].deliver = d]
          /\ d = "push_existing" => profile[t].ahead
AsksPush(w) ==
    /\ At(w, "deliver") /\ "git_push" \notin SnapOf(w).grants
    /\ run'[w].ask = "git_push" /\ run'[w].auto = Authorised(TaskOf(w))
    /\ run'[w].next = IF Authorised(TaskOf(w)) THEN "pushing" ELSE "waiting_approval"
    /\ UNCHANGED row
Asks(w) ==
    /\ AsksTool(w) \/ AsksPlan(w) \/ AsksPush(w)
    /\ run'[w].pc = "select" /\ SameSnap(w) /\ run'[w].ws = run[w].ws
    /\ UNCHANGED <<approvals, disk>>

\* The two statements of a request.
Selects(w) ==
    /\ At(w, "select") /\ Standing(TaskOf(w), run[w].ask) = {}
    /\ run'[w].pc = "insert" /\ SameSnap(w) /\ SameAsk(w)
    /\ run'[w].ws = run[w].ws /\ run'[w].next = run[w].next
    /\ UNCHANGED <<row, approvals, disk>>
New(w) == [action |-> run[w].ask, status |-> IF run[w].auto THEN "approved" ELSE "pending",
           req |-> row[TaskOf(w)].clock, dec |-> row[TaskOf(w)].clock, plan |-> run[w].plan]
Answered(w) ==
    LET t == TaskOf(w) IN
    /\ run[w].ask # "none"
    /\ \/ At(w, "select") /\ Standing(t, run[w].ask) # {} /\ UNCHANGED <<row, approvals>>
       \/ /\ At(w, "insert") /\ ~run[w].auto /\ \E a \in Pending(t) : a.action = run[w].ask
          /\ UNCHANGED <<row, approvals>>
       \/ /\ At(w, "insert")
          /\ approvals' = [approvals EXCEPT ![t] = @ \cup {New(w)}]
          /\ row' = [row EXCEPT ![t].clock = @ + 1]
    /\ run'[w].pc = "settle" /\ SameSnap(w) /\ run'[w].ws = InLoop(w)
    /\ run'[w].ask = "none" /\ run'[w].auto = FALSE /\ run'[w].next = run[w].next
    /\ UNCHANGED disk

Suspends(w) ==
    /\ At(w, "settle") /\ InLoop(w)
    /\ row' = IF Applies(w) THEN [row EXCEPT ![TaskOf(w)].status = "waiting_approval"]
                            ELSE row
    /\ run'[w].pc = "step" /\ run'[w].snap = run[w].snap /\ SameAsk(w)
    /\ run'[w].ws = run[w].ws /\ run'[w].next = "queued"
    /\ run'[w].stops = run[w].stops + 1 /\ run'[w].threw = run[w].threw
    /\ UNCHANGED <<approvals, disk>>

\* A tool changes a file, or the instance.
Changes(w) ==
    LET t == TaskOf(w) IN
    /\ InLoop(w) \/ ModeOf(w) = "odoo_online"
    /\ run[w].ws /\ run[w].pc \in Acting
    /\ ModeOf(w) \in FileModes => tree[t].dir
    /\ tree' = [tree EXCEPT ![t].dirty = (ModeOf(w) \in FileModes)]
    /\ UNCHANGED <<run, row, approvals, held, remote>>

\* A step that ends with a transition of its own, and one that pushed before.
Concludes(w) ==
    /\ At(w, "step") /\ run[w].ws
    /\ run'[w].pc = "settle" /\ run'[w].ws = FALSE /\ SameSnap(w) /\ SameAsk(w)
    /\ run'[w].next \in Terminal \cup {"committing"}
    /\ CanTransition(SnapOf(w).status, run'[w].next)
    /\ SnapOf(w).status \in {"testing", "committing", "pushing"}
    /\ ~(SnapOf(w).status = "pushing" /\ run'[w].next = "completed")
    /\ UNCHANGED <<row, approvals, disk>>
Pushes(w) ==
    LET t == TaskOf(w) IN
    /\ AtStep(w, "pushing") /\ run[w].ws /\ "git_push" \in SnapOf(w).grants
    /\ run'[w].pc = "settle" /\ run'[w].ws = FALSE /\ SameSnap(w) /\ SameAsk(w)
    /\ run'[w].next \in {"completed", "failed"}
    /\ run'[w].next = "completed" => SnapOf(w).hash \in {0, tree[t].head}
    /\ remote' = [remote EXCEPT ![t] = tree[t].head] /\ tree[t].dir
    /\ UNCHANGED <<row, approvals, held, tree, effects>>

Commits(w) ==
    LET t == TaskOf(w) IN
    /\ AtStep(w, "committing") /\ run[w].ws /\ tree[t].dir
    /\ run'[w].pc = "hash" /\ SameSnap(w) /\ SameAsk(w)
    /\ run'[w].ws = run[w].ws /\ run'[w].next = run[w].next
    /\ \/ SnapOf(w).deliver = "push_existing" /\ ~tree[t].dirty /\ tree' = tree
       \/ tree[t].dirty /\ tree' = [tree EXCEPT ![t].head = @ + 1, ![t].dirty = FALSE]
    /\ UNCHANGED <<row, approvals, held, remote, effects>>
Saves(w) ==
    /\ At(w, "hash") /\ tree[TaskOf(w)].dir
    /\ row' = [row EXCEPT ![TaskOf(w)].hash = tree[TaskOf(w)].head]
    /\ run'[w].pc = "deliver" /\ SameSnap(w) /\ SameAsk(w)
    /\ run'[w].ws = run[w].ws /\ run'[w].next = run[w].next
    /\ UNCHANGED <<approvals, disk>>

\* What a run does without failing, other than to leave its slot.
Steps(w) ==
    /\ UNCHANGED <<environment, calls, queue>>
    /\ \/ Changes(w)
       \/ /\ HandsOn(w)
          /\ \/ Reads(w) \/ Sees(w) \/ Yields(w) \/ Breaks(w)
             \/ \E to \in Statuses : Moves(w, to)
             \/ Acquires(w) \/ Asks(w) \/ Selects(w) \/ Answered(w) \/ Suspends(w)
             \/ Concludes(w) \/ Pushes(w) \/ Commits(w) \/ Saves(w)

-----------------------------------------------------------------------------
(* Every step of a run is of one of the kinds *)

\* Starting over, and leaving.
LEMMA AgainClears ==
    ASSUME run \in Runs, NEW w \in Slots, run[w] \in Run, Again(w)
    PROVE  HandsOn(w) /\ Cleared(w) /\ run'[w].pc = "row" /\ ~run'[w].threw
<1>1. HandsOn(w) BY AgainType
<1>2. run'[w] = Begin(run[w].job) BY DEF Again, Runs
<1> QED BY <1>1, <1>2 DEF Cleared, Begin

LEMMA EndRunClears ==
    ASSUME run \in Runs, NEW w \in Slots, run[w] \in Run, NEW threw \in BOOLEAN,
           EndRun(w, threw)
    PROVE  HandsOn(w) /\ Cleared(w) /\ run'[w].pc = "release" /\ run'[w].threw = threw
<1>1. HandsOn(w) BY EndRunType
<1>2. run'[w] = [Begin(run[w].job) EXCEPT !.pc = "release", !.threw = threw]
  BY DEF EndRun, Runs
<1> QED BY <1>1, <1>2 DEF Cleared, Begin

\* Moving to settle, and to the first statement of a request.
LEMMA SettleToFields ==
    ASSUME run \in Runs, NEW w \in Slots, run[w] \in Run, NEW status \in Statuses,
           SettleTo(w, status)
    PROVE  /\ HandsOn(w) /\ SameSnap(w) /\ SameAsk(w)
           /\ run'[w].pc = "settle" /\ run'[w].ws = FALSE /\ run'[w].next = status
<1>1. HandsOn(w) BY SettleToType
<1>2. run'[w] = [run[w] EXCEPT !.pc = "settle", !.next = status, !.ws = FALSE]
  BY DEF SettleTo, Runs
<1> QED BY <1>1, <1>2 DEF SameSnap, SameAsk, Run

LEMMA AskForFields ==
    ASSUME run \in Runs, NEW w \in Slots, run[w] \in Run, NEW action \in Actions,
           NEW auto \in BOOLEAN, NEW next \in Statuses,
           AskFor(w, action, auto, next)
    PROVE  /\ HandsOn(w) /\ SameSnap(w) /\ run'[w].pc = "select" /\ run'[w].ws = run[w].ws
           /\ run'[w].ask = action /\ run'[w].auto = auto /\ run'[w].next = next
<1>1. HandsOn(w) BY AskForType
<1>2. run'[w] = [run[w] EXCEPT !.pc = "select", !.ask = action, !.auto = auto,
                               !.next = next]
  BY DEF AskFor, Runs
<1> QED BY <1>1, <1>2 DEF SameSnap, Run

LEMMA GotoFields ==
    ASSUME run \in Runs, NEW w \in Slots, run[w] \in Run, NEW pc \in RunPCs, Goto(w, pc),
           pc \in {"select", "insert"} => run[w].ask # "none"
    PROVE  /\ HandsOn(w) /\ SameSnap(w) /\ SameAsk(w) /\ run'[w].pc = pc
           /\ run'[w].ws = run[w].ws /\ run'[w].next = run[w].next
<1>1. HandsOn(w) BY GotoType
<1>2. run'[w] = [run[w] EXCEPT !.pc = pc] BY DEF Goto, Runs
<1> QED BY <1>1, <1>2 DEF SameSnap, SameAsk, Run

LEMMA AskedFields ==
    ASSUME run \in Runs, NEW w \in Slots, run[w] \in Run, Asked(w)
    PROVE  /\ HandsOn(w) /\ SameSnap(w) /\ run'[w].pc = "settle" /\ run'[w].ws = InLoop(w)
           /\ run'[w].ask = "none" /\ run'[w].auto = FALSE /\ run'[w].next = run[w].next
<1>1. HandsOn(w) BY AskedType
<1>2. run'[w] = [run[w] EXCEPT !.pc = "settle", !.ws = InLoop(w), !.ask = "none",
                               !.auto = FALSE, !.plan = 0]
  BY DEF Asked, Runs
<1> QED BY <1>1, <1>2 DEF SameSnap, Run

\* The edges a run takes without looking the table up.
LEMMA Edges ==
    /\ CanTransition("created", "queued") /\ CanTransition("queued", "analyzing")
    /\ CanTransition("building", "completed")
    /\ CanTransition("analyzing", "implementing") /\ CanTransition("analyzing", "planning")
    /\ CanTransition("implementing", "testing") /\ CanTransition("testing", "completed")
    /\ CanTransition("testing", "committing")
    /\ CanTransition("waiting_approval", "implementing")
    /\ CanTransition("waiting_approval", "pushing")
    /\ CanTransition("committing", "completed") /\ CanTransition("committing", "pushing")
    /\ CanTransition("pushing", "completed")
    /\ CanTransition("planning", "waiting_approval")
    /\ CanTransition("committing", "waiting_approval")
    /\ \A s \in Statuses \ Terminal : CanTransition(s, "failed")
PROOF BY DEF CanTransition, Forward, Terminal, Statuses

LEMMA TransitionKind ==
    ASSUME TypeInv, NEW w \in Slots, run[w] \in Run, NEW to \in Statuses,
           Transition(w, to), UNCHANGED <<environment, approvals, calls, queue, disk>>,
           run[w].pc \in {"step", "deliver", "settle"}, Leads(w, to),
           CanTransition(SnapOf(w).status, to) \/ At(w, "settle")
    PROVE  Steps(w)
<1>1. run \in Runs BY DEF TypeInv, TypeOK, Runs
<1>2. UNCHANGED <<environment, calls, queue>> /\ UNCHANGED <<approvals, disk>> OBVIOUS
<1>3. CASE ~CanTransition(SnapOf(w).status, to)
  <2>1. EndRun(w, TRUE) /\ UNCHANGED row BY <1>3 DEF Transition
  <2>2. HandsOn(w) /\ Cleared(w) /\ run'[w].pc = "release" /\ run'[w].threw = TRUE
    BY <1>1, <2>1, EndRunClears
  <2>3. Breaks(w)
    BY <1>2, <1>3, <2>1, <2>2 DEF Breaks, Leads, Acting, At
  <2> QED BY <1>2, <2>2, <2>3 DEF Steps
<1>4. CASE CanTransition(SnapOf(w).status, to) /\ ~Applies(w)
  <2>1. EndRun(w, FALSE) /\ UNCHANGED row BY <1>4 DEF Transition
  <2>2. HandsOn(w) /\ Cleared(w) /\ run'[w].pc = "release" /\ run'[w].threw = FALSE
    BY <1>1, <2>1, EndRunClears
  <2>3. Yields(w)
    BY <1>2, <1>4, <2>1, <2>2 DEF Yields, Applies, Acting
  <2> QED BY <1>2, <2>2, <2>3 DEF Steps
<1>5. CASE CanTransition(SnapOf(w).status, to) /\ Applies(w)
  <2>1. Again(w) /\ row' = [row EXCEPT ![TaskOf(w)].status = to] BY <1>5 DEF Transition
  <2>2. HandsOn(w) /\ Cleared(w) /\ run'[w].pc = "row" /\ ~run'[w].threw
    BY <1>1, <2>1, AgainClears
  <2>3. Moves(w, to) BY <1>2, <1>5, <2>1, <2>2 DEF Moves
  <2> QED BY <1>2, <2>2, <2>3 DEF Steps
<1> QED BY <1>3, <1>4, <1>5

\* A transition of a step that was not resumed from an approval, nor came to push.
LEMMA StepKind ==
    ASSUME TypeInv, NEW w \in Slots, run[w] \in Run, NEW to \in Statuses,
           Transition(w, to), UNCHANGED <<environment, approvals, calls, queue, disk>>,
           At(w, "step"), CanTransition(SnapOf(w).status, to),
           to \notin {"pushing", "waiting_approval"},
           SnapOf(w).status \in {"pushing", "waiting_approval"} => to = "failed"
    PROVE  Steps(w)
<1>1. Leads(w, to) BY DEF Leads, At
<1> QED BY <1>1, TransitionKind DEF At

LEMMA LoadKinds ==
    ASSUME IInv, NEW w \in Slots, LoadRow(w) \/ LoadApprovals(w)
    PROVE  Steps(w)
<1> DEFINE t == TaskOf(w)
<1>1. /\ run \in Runs /\ run[w] \in Run /\ t \in Tasks
      /\ UNCHANGED <<environment, calls, queue>> /\ UNCHANGED <<row, approvals, disk>>
  BY AtSound DEF LoadRow, LoadApprovals, RunPCs
<1>2. CASE LoadRow(w)
  <2>1. HandsOn(w)
    <3>1. row[t] \in Row /\ row[t].status \in Statuses
      BY <1>1, AtType, <1>2 DEF LoadRow, IInv, TypeInv, TypeOK, Created, Row, RunPCs
    <3> QED BY <1>1, <1>2, <3>1 DEF LoadRow, HandsOn, Runs, Run, Row, Snapshot, RunPCs
  <2>2. Reads(w)
    BY <1>1, <1>2 DEF LoadRow, Reads, SameAsk, SnapOf, Runs, Run, Snapshot
  <2> QED BY <1>1, <2>1, <2>2 DEF Steps
<1>3. CASE LoadApprovals(w)
  <2>1. CASE /\ SnapOf(w).status \in Terminal \/ row[t].status # SnapOf(w).status
             /\ EndRun(w, FALSE)
    <3>1. HandsOn(w) /\ Cleared(w) /\ run'[w].pc = "release" /\ run'[w].threw = FALSE
      BY <1>1, <2>1, EndRunClears
    <3>2. Yields(w) BY <1>1, <1>3, <2>1, <3>1 DEF LoadApprovals, Yields, At
    <3> QED BY <1>1, <3>1, <3>2 DEF Steps
  <2>2. CASE /\ SnapOf(w).status \notin Terminal /\ row[t].status = SnapOf(w).status
             /\ run' = [run EXCEPT ![w].pc = "step", ![w].snap.grants = Granted(t),
                                   ![w].snap.pending = (Pending(t) # {}),
                                   ![w].snap.last = LastDecision(t)]
    <3>1. Granted(t) \subseteq Actions /\ LastDecision(t) \subseteq Decision
      <4>1. approvals[t] \subseteq Approval BY <1>1 DEF IInv, TypeInv, TypeOK
      <4>2. \A d \in LastDecision(t) : \E a \in Decided(t) :
               d = [action |-> a.action, status |-> a.status]
        BY DEF LastDecision
      <4> QED BY <4>1, <4>2 DEF Decided, Granted, Approval, Decision
    <3>2. HandsOn(w)
      <4> DEFINE s == [run[w].snap EXCEPT !.grants = Granted(t), !.pending = (Pending(t) # {}),
                                         !.last = LastDecision(t)]
      <4>1. s \in Snapshot BY <1>1, <3>1 DEF Run, Snapshot
      <4>2. run'[w] = [run[w] EXCEPT !.pc = "step", !.snap = s]
            /\ run' = [run EXCEPT ![w] = run'[w]]
        BY <1>1, <2>2 DEF Runs, Run, Snapshot
      <4> HIDE DEF s
      <4>3. run'[w] \in Run /\ run'[w].job = run[w].job BY <1>1, <4>1, <4>2 DEF Run, RunPCs
      <4> QED BY <1>1, <4>2, <4>3 DEF HandsOn, Runs
    <3>3. Sees(w)
      <4>1. /\ run'[w].pc = "step" /\ run'[w].snap.grants = Granted(t)
            /\ run'[w].snap.pending = (Pending(t) # {})
            /\ run'[w].snap.last = LastDecision(t)
            /\ run'[w].snap.status = run[w].snap.status
            /\ run'[w].snap.plan = run[w].snap.plan
            /\ run'[w].snap.deliver = run[w].snap.deliver
            /\ run'[w].snap.hash = run[w].snap.hash
        BY <1>1, <2>2 DEF Runs, Run, Snapshot
      <4>2. /\ run'[w].ws = run[w].ws /\ run'[w].ask = run[w].ask
            /\ run'[w].auto = run[w].auto /\ run'[w].next = run[w].next
            /\ run'[w].threw = run[w].threw /\ run'[w].stops = run[w].stops
        BY <1>1, <2>2 DEF Runs, Run
      <4> QED BY <1>1, <1>3, <2>2, <4>1, <4>2 DEF LoadApprovals, Sees, SameAsk, SnapOf
    <3> QED BY <1>1, <3>2, <3>3 DEF Steps
  <2> QED BY <1>3, <2>1, <2>2 DEF LoadApprovals
<1> QED BY <1>2, <1>3

LEMMA TransitionKinds ==
    ASSUME IInv, NEW w \in Slots,
           \/ Settle(w) \/ MoveOn(w) \/ ResumeFromApproval(w)
           \/ AnalyzeUnprepared(w) \/ Analyze(w) \/ AnalyzeOdooOnline(w) \/ BackupFails(w)
           \/ ModelFails(w) \/ Implement(w) \/ ImplementChat(w) \/ ImplementOdooOnline(w)
           \/ ValidateOdooOnline(w)
    PROVE  Steps(w)
<1>1. run \in Runs /\ run[w] \in Run /\ TypeInv
  BY AtSound DEF Settle, MoveOn, ResumeFromApproval, AnalyzeUnprepared, Analyze,
                 AnalyzeOdooOnline, BackupFails, ModelFails, Implement, ImplementChat,
                 ImplementOdooOnline, ValidateOdooOnline, LoopEnded, AtWork, AtStep, RunPCs,
                 IInv
<1>2. UNCHANGED <<environment, approvals, calls, queue, disk>>
  BY DEF Settle, MoveOn, ResumeFromApproval, AnalyzeUnprepared, Analyze, AnalyzeOdooOnline,
         BackupFails, ModelFails, Implement, ImplementChat, ImplementOdooOnline,
         ValidateOdooOnline
<1>3. CASE Settle(w)
  <2>1. run[w].next \in Statuses BY <1>1 DEF Run
  <2>2. Leads(w, run[w].next) BY <1>3 DEF Settle, Leads, At
  <2> QED BY <1>1, <1>2, <1>3, <2>1, <2>2, TransitionKind DEF Settle, At
<1>4. CASE MoveOn(w)
  BY <1>1, <1>2, <1>4, Edges, StepKind DEF MoveOn, AtStep, Statuses
<1>5. CASE ResumeFromApproval(w)
  <2>1. CASE SnapOf(w).pending /\ EndRun(w, FALSE) /\ UNCHANGED row
    <3>1. HandsOn(w) /\ Cleared(w) /\ run'[w].pc = "release" /\ run'[w].threw = FALSE
      BY <1>1, <2>1, EndRunClears
    <3>2. Yields(w)
      BY <1>2, <1>5, <2>1, <3>1 DEF ResumeFromApproval, AtStep, At, Yields, Acting
    <3> QED BY <1>2, <3>1, <3>2 DEF Steps
  <2>2. ASSUME NEW d \in SnapOf(w).last, ~SnapOf(w).pending, d.status = "approved",
               Transition(w, Resumption(d.action))
        PROVE  Steps(w)
    <3> DEFINE to == Resumption(d.action)
    <3>1. to \in {"pushing", "implementing"} BY DEF Resumption
    <3>2. CanTransition(SnapOf(w).status, to)
      BY <1>5, <3>1, Edges DEF ResumeFromApproval, AtStep
    <3>3. Leads(w, to) BY <1>5, <2>2 DEF ResumeFromApproval, AtStep, At, Leads
    <3>4. to \in Statuses BY <3>1 DEF Statuses
    <3>5. Transition(w, to) BY <2>2
    <3> HIDE DEF to
    <3> QED BY <1>1, <1>2, <1>5, <3>2, <3>3, <3>4, <3>5, TransitionKind
            DEF ResumeFromApproval, AtStep, At
  <2>3. CASE Transition(w, "failed")
    BY <1>1, <1>2, <1>5, <2>3, Edges, StepKind
    DEF ResumeFromApproval, AtStep, Statuses, Terminal
  <2> QED BY <1>5, <2>1, <2>2, <2>3 DEF ResumeFromApproval
<1>6. CASE AnalyzeUnprepared(w) \/ Analyze(w) \/ AnalyzeOdooOnline(w)
  <2>1. AtStep(w, "analyzing")
    BY <1>6 DEF AnalyzeUnprepared, Analyze, AnalyzeOdooOnline, AtWork
  <2>2. \E to \in {"planning", "failed", "implementing"} : Transition(w, to)
    BY <1>6 DEF AnalyzeUnprepared, Analyze, AnalyzeOdooOnline
  <2> QED BY <1>1, <1>2, <2>1, <2>2, Edges, StepKind DEF AtStep, Statuses, Terminal
<1>7. CASE BackupFails(w)
  BY <1>1, <1>2, <1>7, Edges, StepKind DEF BackupFails, AtStep, Statuses, Terminal
<1>8. CASE ModelFails(w) \/ Implement(w) \/ ImplementChat(w) \/ ImplementOdooOnline(w)
  <2>1. AtStep(w, "implementing")
    BY <1>8 DEF ModelFails, Implement, ImplementChat, ImplementOdooOnline, LoopEnded, AtWork
  <2>2. \E to \in {"testing", "failed"} : Transition(w, to)
    BY <1>8 DEF ModelFails, Implement, ImplementChat, ImplementOdooOnline
  <2> QED BY <1>1, <1>2, <2>1, <2>2, Edges, StepKind DEF AtStep, Statuses, Terminal
<1>9. CASE ValidateOdooOnline(w)
  <2>1. \E to \in {"completed", "failed"} : Transition(w, to)
    BY <1>9 DEF ValidateOdooOnline
  <2> QED BY <1>1, <1>2, <1>9, <2>1, Edges, StepKind
          DEF ValidateOdooOnline, AtStep, Statuses, Terminal
<1> QED BY <1>3, <1>4, <1>5, <1>6, <1>7, <1>8, <1>9

LEMMA HaltingKinds ==
    ASSUME IInv, NEW w \in Slots, SuspendTask(w) \/ LoopHalted(w) \/ DirectoryGone(w)
    PROVE  Steps(w)
<1>1. run \in Runs /\ run[w] \in Run
  BY AtSound DEF SuspendTask, LoopHalted, DirectoryGone, AtWork, AtStep, RunPCs
<1>2. CASE SuspendTask(w)
  <2>1. run'[w] = [run[w] EXCEPT !.pc = "step", !.next = "queued", !.stops = @ + 1]
    BY <1>1, <1>2 DEF SuspendTask, Runs
  <2>2. HandsOn(w) BY <1>1, <1>2 DEF SuspendTask, HandsOn, Runs, Run, RunPCs, Statuses
  <2>3. /\ run'[w].pc = "step" /\ run'[w].snap = run[w].snap /\ SameAsk(w)
        /\ run'[w].ws = run[w].ws /\ run'[w].next = "queued"
        /\ run'[w].stops = run[w].stops + 1 /\ run'[w].threw = run[w].threw
    BY <1>1, <2>1 DEF SameAsk, Run
  <2>4. UNCHANGED <<approvals, disk>> BY <1>2 DEF SuspendTask
  <2>5. Suspends(w) BY <1>2, <2>3, <2>4 DEF SuspendTask, Suspends
  <2> QED BY <1>2, <2>2, <2>5 DEF SuspendTask, Steps
<1>3. CASE LoopHalted(w)
  <2>1. HandsOn(w) /\ Cleared(w) /\ run'[w].pc = "release" /\ run'[w].threw = FALSE
    BY <1>1, <1>3, EndRunClears DEF LoopHalted
  <2>2. run[w].stops # 0 BY <1>1, <1>3 DEF LoopHalted, Run
  <2>3. Yields(w) BY <1>3, <2>1, <2>2 DEF LoopHalted, Yields, Acting, At
  <2> QED BY <1>3, <2>1, <2>3 DEF LoopHalted, Steps
<1>4. CASE DirectoryGone(w)
  <2>1. HandsOn(w) /\ Cleared(w) /\ run'[w].pc = "release" /\ run'[w].threw = TRUE
    BY <1>1, <1>4, EndRunClears DEF DirectoryGone
  <2>2. Breaks(w)
    BY <1>4, <2>1 DEF DirectoryGone, Breaks, Acting, At, AtWork, AtStep
  <2> QED BY <1>4, <2>1, <2>2 DEF DirectoryGone, Steps
<1> QED BY <1>2, <1>3, <1>4

LEMMA AskingKinds ==
    ASSUME IInv, NEW w \in Slots,
           \/ Plan(w) \/ PlanOdooOnline(w) \/ ToolStopped(w) \/ Deliver(w)
           \/ SelectStanding(w) \/ InsertApproval(w)
    PROVE  Steps(w)
<1> DEFINE t == TaskOf(w)
<1>1. /\ run \in Runs /\ run[w] \in Run /\ t \in Tasks /\ SoundRun(w) /\ TypeInv
  BY AtSound DEF Plan, PlanOdooOnline, ToolStopped, Deliver, SelectStanding,
                 InsertApproval, AtTools, AtWork, AtStep, RunPCs, IInv
<1>2. CASE Plan(w) \/ PlanOdooOnline(w)
  <2>1. AtStep(w, "planning") /\ run[w].ws
        /\ UNCHANGED <<environment, approvals, calls, queue, disk>>
    BY <1>2 DEF Plan, PlanOdooOnline, AtWork
  <2>2. CASE Transition(w, "failed")
    BY <1>1, <2>1, <2>2, Edges, StepKind DEF AtStep, Statuses, Terminal
  <2>3. ASSUME NEW d \in Deliveries, PutForward(w, d), d = "push_existing" => profile[t].ahead
        PROVE  Steps(w)
    <3> DEFINE n == row[t].plan + 1
    <3>1. /\ run' = [run EXCEPT ![w].pc = "select", ![w].ask = "implementation_plan",
                                ![w].next = "waiting_approval", ![w].plan = n]
          /\ row' = [row EXCEPT ![t].plan = @ + 1, ![t].deliver = d]
      BY <2>3 DEF PutForward
    <3>2. row[t] \in Row BY <1>1 DEF TypeInv, TypeOK
    <3>3. HandsOn(w) BY <1>1, <3>1, <3>2, PlanType
    <3>4. n \in Nat /\ row' = [row EXCEPT ![t].plan = n, ![t].deliver = d]
      BY <1>1, <3>1, <3>2 DEF Row, TypeInv, TypeOK
    <3> HIDE DEF n
    <3>5. run'[w] = [run[w] EXCEPT !.pc = "select", !.ask = "implementation_plan",
                                   !.next = "waiting_approval", !.plan = n]
      BY <1>1, <3>1 DEF Runs
    <3>6. /\ run'[w].pc = "select" /\ SameSnap(w) /\ run'[w].ws = run[w].ws
          /\ run'[w].ask = "implementation_plan" /\ run'[w].auto = run[w].auto
          /\ run'[w].next = "waiting_approval"
      BY <1>1, <3>5 DEF SameSnap, Run
    <3>7. AsksPlan(w) BY <2>1, <2>3, <3>4, <3>6 DEF AsksPlan
    <3>8. Asks(w) BY <2>1, <3>6, <3>7 DEF Asks
    <3> QED BY <2>1, <3>3, <3>8 DEF Steps
  <2> QED BY <1>2, <2>2, <2>3 DEF Plan, PlanOdooOnline, Deliveries
<1>3. CASE ToolStopped(w)
  <2>1. profile[t].gates \subseteq ToolGates
    BY <1>1, ConstantsAssumption DEF TypeInv, TypeOK, Profile
  <2>2. PICK g \in ToolGates \cap profile[t].gates :
            NeedsApproval(w, g) /\ AskFor(w, g, FALSE, "waiting_approval")
    BY <1>3, <2>1 DEF ToolStopped
  <2>3. /\ HandsOn(w) /\ SameSnap(w) /\ run'[w].pc = "select" /\ run'[w].ws = run[w].ws
        /\ run'[w].ask = g /\ run'[w].auto = FALSE /\ run'[w].next = "waiting_approval"
    BY <1>1, <2>2, AskForFields DEF Actions, Statuses
  <2>4. AsksTool(w) BY <1>3, <2>2, <2>3 DEF ToolStopped, AsksTool, AtTools, NeedsApproval
  <2> QED BY <1>3, <2>3, <2>4 DEF ToolStopped, Asks, Steps
<1>4. CASE Deliver(w)
  <2>1. At(w, "deliver") /\ SnapOf(w).status = "committing"
        /\ UNCHANGED <<environment, approvals, calls, queue, disk>>
    BY <1>1, <1>4 DEF Deliver, SoundRun, At
  <2>2. CASE Transition(w, "pushing") /\ "git_push" \in SnapOf(w).grants
    <3>1. Leads(w, "pushing") BY <2>1, <2>2 DEF Leads, At
    <3> QED BY <1>1, <2>1, <2>2, <3>1, Edges, TransitionKind DEF Statuses, At
  <2>3. CASE Transition(w, "completed")
    <3>1. Leads(w, "completed") BY <2>1, <2>3 DEF Leads, At
    <3> QED BY <1>1, <2>1, <2>3, <3>1, Edges, TransitionKind DEF Statuses, At
  <2>4. CASE /\ "git_push" \notin SnapOf(w).grants /\ UNCHANGED row
             /\ AskFor(w, "git_push", Authorised(t),
                       IF Authorised(t) THEN "pushing" ELSE "waiting_approval")
    <3> DEFINE auto == Authorised(t)
               next == IF auto THEN "pushing" ELSE "waiting_approval"
    <3>1. auto \in BOOLEAN BY DEF Authorised
    <3>2. next \in Statuses BY DEF Statuses
    <3>3. AskFor(w, "git_push", auto, next) BY <2>4
    <3> HIDE DEF auto, next
    <3>4. /\ HandsOn(w) /\ SameSnap(w) /\ run'[w].pc = "select" /\ run'[w].ws = run[w].ws
          /\ run'[w].ask = "git_push" /\ run'[w].auto = auto /\ run'[w].next = next
      BY <1>1, <3>1, <3>2, <3>3, AskForFields DEF Actions
    <3>5. AsksPush(w) BY <2>1, <2>4, <3>4 DEF AsksPush, auto, next
    <3> QED BY <2>1, <2>4, <3>4, <3>5 DEF Asks, Steps
  <2> QED BY <1>4, <2>2, <2>3, <2>4 DEF Deliver, Authorised
<1>5. CASE SelectStanding(w)
  <2>1. run[w].ask # "none" BY <1>1, <1>5 DEF SelectStanding, At, Run
  <2>2. CASE Standing(t, run[w].ask) # {} /\ Asked(w)
    <3>1. /\ HandsOn(w) /\ SameSnap(w) /\ run'[w].pc = "settle" /\ run'[w].ws = InLoop(w)
          /\ run'[w].ask = "none" /\ run'[w].auto = FALSE /\ run'[w].next = run[w].next
      BY <1>1, <2>2, AskedFields
    <3>2. Answered(w) BY <1>5, <2>1, <2>2, <3>1 DEF SelectStanding, Answered
    <3> QED BY <1>5, <3>1, <3>2 DEF SelectStanding, Steps
  <2>3. CASE Standing(t, run[w].ask) = {} /\ Goto(w, "insert")
    <3>1. /\ HandsOn(w) /\ SameSnap(w) /\ SameAsk(w) /\ run'[w].pc = "insert"
          /\ run'[w].ws = run[w].ws /\ run'[w].next = run[w].next
      BY <1>1, <2>1, <2>3, GotoFields DEF RunPCs
    <3>2. Selects(w) BY <1>5, <2>3, <3>1 DEF SelectStanding, Selects
    <3> QED BY <1>5, <3>1, <3>2 DEF SelectStanding, Steps
  <2> QED BY <1>5, <2>2, <2>3 DEF SelectStanding
<1>6. CASE InsertApproval(w)
  <2>1. run[w].ask # "none" BY <1>1, <1>6 DEF InsertApproval, At, Run
  <2>2. /\ HandsOn(w) /\ SameSnap(w) /\ run'[w].pc = "settle" /\ run'[w].ws = InLoop(w)
        /\ run'[w].ask = "none" /\ run'[w].auto = FALSE /\ run'[w].next = run[w].next
    BY <1>1, <1>6, AskedFields DEF InsertApproval
  <2>3. \/ /\ ~run[w].auto /\ \E a \in Pending(t) : a.action = run[w].ask
           /\ UNCHANGED <<row, approvals>>
        \/ /\ approvals' = [approvals EXCEPT ![t] = @ \cup {New(w)}]
           /\ row' = [row EXCEPT ![t].clock = @ + 1]
    BY <1>6 DEF InsertApproval, New
  <2>4. Answered(w) BY <1>6, <2>1, <2>2, <2>3 DEF InsertApproval, Answered
  <2> QED BY <1>6, <2>2, <2>4 DEF InsertApproval, Steps
<1> QED BY <1>2, <1>3, <1>4, <1>5, <1>6

LEMMA WorkspaceKinds ==
    ASSUME IInv, NEW w \in Slots,
           \/ Acquire(w) \/ UseGatedTool(w) \/ UseTool(w) \/ Sample(w) \/ Validate(w)
           \/ CompleteChat(w) \/ CommitNothing(w) \/ CommitWork(w) \/ SaveCommitHash(w)
           \/ Push(w)
    PROVE  Steps(w)
<1> DEFINE t == TaskOf(w)
<1>1. run \in Runs /\ run[w] \in Run /\ t \in Tasks
  BY AtSound DEF Acquire, UseGatedTool, UseTool, Sample, Validate, CompleteChat,
                 CommitNothing, CommitWork, SaveCommitHash, Push,
                 AtTools, AtWork, AtStep, At, RunPCs
<1>2. ASSUME NEW status \in Terminal \cup {"committing"}, SettleTo(w, status),
             At(w, "step"), run[w].ws, CanTransition(SnapOf(w).status, status),
             SnapOf(w).status \in {"testing", "committing", "pushing"},
             ~(SnapOf(w).status = "pushing" /\ status = "completed"),
             UNCHANGED <<environment, row, approvals, calls, queue, disk>>
      PROVE  Steps(w)
  <2>1. status \in Statuses BY DEF Terminal, Statuses
  <2>2. /\ HandsOn(w) /\ SameSnap(w) /\ SameAsk(w)
        /\ run'[w].pc = "settle" /\ run'[w].ws = FALSE /\ run'[w].next = status
    BY <1>1, <1>2, <2>1, SettleToFields
  <2>3. Concludes(w) BY <1>2, <2>2 DEF Concludes
  <2> QED BY <1>2, <2>2, <2>3 DEF Steps
<1>3. CASE Acquire(w)
  <2>1. HandsOn(w) BY <1>1, <1>3 DEF Acquire, HandsOn, Runs, Run
  <2>2. run'[w] = [run[w] EXCEPT !.ws = TRUE] BY <1>1, <1>3 DEF Acquire, Runs
  <2>3. Acquires(w) BY <1>1, <1>3, <2>2 DEF Acquire, Acquires, SameSnap, SameAsk, At, Run
  <2> QED BY <1>3, <2>1, <2>3 DEF Acquire, Steps
<1>4. CASE UseGatedTool(w) \/ UseTool(w) \/ Sample(w)
  <2>1. PICK effect : Change(w, effect) BY <1>4 DEF UseGatedTool, UseTool, Sample
  <2>2. /\ InLoop(w) \/ ModeOf(w) = "odoo_online"
        /\ run[w].ws /\ run[w].pc \in Acting
    BY <1>4 DEF UseGatedTool, UseTool, Sample, AtTools, InLoop, AtWork, AtStep, At, Acting
  <2> QED BY <2>1, <2>2 DEF Change, Changes, Steps
<1>5. CASE Validate(w) \/ CompleteChat(w)
  <2>1. /\ At(w, "step") /\ run[w].ws /\ SnapOf(w).status = "testing"
        /\ UNCHANGED <<environment, row, approvals, calls, queue, disk>>
    BY <1>5 DEF Validate, CompleteChat, AtWork, AtStep
  <2>2. \E status \in {"failed", "committing", "completed"} : SettleTo(w, status)
    BY <1>5 DEF Validate, CompleteChat
  <2> QED BY <1>2, <2>1, <2>2, Edges DEF Terminal, Statuses
<1>6. CASE CommitNothing(w)
  <2>1. /\ AtStep(w, "committing") /\ run[w].ws /\ tree[t].dir /\ ~tree[t].dirty
        /\ UNCHANGED <<environment, row, approvals, calls, queue, disk>>
    BY <1>6 DEF CommitNothing, AtWork
  <2>2. CASE SettleTo(w, "completed")
    BY <1>2, <2>1, <2>2, Edges DEF Terminal, AtStep
  <2>3. CASE SnapOf(w).deliver = "push_existing" /\ Goto(w, "hash")
    <3>1. /\ HandsOn(w) /\ SameSnap(w) /\ SameAsk(w) /\ run'[w].pc = "hash"
          /\ run'[w].ws = run[w].ws /\ run'[w].next = run[w].next
      BY <1>1, <2>3, GotoFields DEF RunPCs
    <3>2. Commits(w) BY <2>1, <2>3, <3>1 DEF Commits, disk
    <3> QED BY <2>1, <3>1, <3>2 DEF Steps
  <2> QED BY <1>6, <2>2, <2>3 DEF CommitNothing
<1>7. CASE CommitWork(w)
  <2>1. /\ AtStep(w, "committing") /\ run[w].ws /\ tree[t].dir /\ tree[t].dirty
        /\ UNCHANGED <<environment, row, approvals, calls, queue, held, remote, effects>>
    BY <1>7 DEF CommitWork, AtWork
  <2>2. CASE SettleTo(w, "failed") /\ UNCHANGED tree
    <3>1. UNCHANGED <<environment, row, approvals, calls, queue, disk>>
      BY <2>1, <2>2 DEF disk
    <3> QED BY <1>2, <2>1, <2>2, <3>1, Edges DEF Terminal, Statuses, AtStep
  <2>3. CASE /\ tree' = [tree EXCEPT ![t].head = @ + 1, ![t].dirty = FALSE]
             /\ Goto(w, "hash")
    <3>1. /\ HandsOn(w) /\ SameSnap(w) /\ SameAsk(w) /\ run'[w].pc = "hash"
          /\ run'[w].ws = run[w].ws /\ run'[w].next = run[w].next
      BY <1>1, <2>3, GotoFields DEF RunPCs
    <3>2. Commits(w) BY <2>1, <2>3, <3>1 DEF Commits
    <3> QED BY <2>1, <3>1, <3>2 DEF Steps
  <2> QED BY <1>7, <2>2, <2>3 DEF CommitWork
<1>8. CASE SaveCommitHash(w)
  <2>1. /\ HandsOn(w) /\ SameSnap(w) /\ SameAsk(w) /\ run'[w].pc = "deliver"
        /\ run'[w].ws = run[w].ws /\ run'[w].next = run[w].next
    BY <1>1, <1>8, GotoFields DEF SaveCommitHash, RunPCs
  <2>2. Saves(w) BY <1>8, <2>1 DEF SaveCommitHash, Saves
  <2> QED BY <1>8, <2>1, <2>2 DEF SaveCommitHash, Steps
<1>9. CASE Push(w)
  <2>1. /\ AtStep(w, "pushing") /\ run[w].ws /\ "git_push" \in SnapOf(w).grants
        /\ UNCHANGED <<environment, row, approvals, calls, queue, held, tree, effects>>
    BY <1>9 DEF Push, AtWork, NeedsApproval, CoveredByPlan
  <2>2. CASE SettleTo(w, "failed") /\ UNCHANGED remote
    <3>1. UNCHANGED <<environment, row, approvals, calls, queue, disk>>
      BY <2>1, <2>2 DEF disk
    <3> QED BY <1>2, <2>1, <2>2, <3>1, Edges DEF Terminal, Statuses, AtStep
  <2>3. ASSUME NEW status \in {"completed", "failed"}, SettleTo(w, status), tree[t].dir,
               remote' = [remote EXCEPT ![t] = tree[t].head],
               status = "completed" => SnapOf(w).hash \in {0, tree[t].head}
        PROVE  Steps(w)
    <3>1. /\ HandsOn(w) /\ SameSnap(w) /\ SameAsk(w)
          /\ run'[w].pc = "settle" /\ run'[w].ws = FALSE /\ run'[w].next = status
      BY <1>1, <2>3, SettleToFields DEF Statuses
    <3>2. Pushes(w) BY <2>1, <2>3, <3>1 DEF Pushes
    <3> QED BY <2>1, <3>1, <3>2 DEF Steps
  <2> QED BY <1>9, <2>2, <2>3 DEF Push
<1> QED BY <1>3, <1>4, <1>5, <1>6, <1>7, <1>8, <1>9

LEMMA WorkKinds ==
    ASSUME IInv, NEW w \in Slots, Work(w)
    PROVE  Release(w) \/ Steps(w)
PROOF BY LoadKinds, TransitionKinds, HaltingKinds, AskingKinds, WorkspaceKinds DEF Work

-----------------------------------------------------------------------------
(* What a step of a run leaves alone *)

\* Nothing of task u moves.
Same(u) == /\ row'[u] = row[u] /\ approvals'[u] = approvals[u]
           /\ tree'[u] = tree[u] /\ remote'[u] = remote[u] /\ (u \in held' <=> u \in held)

\* A step is of the run's own task: the other tasks and slots stay as they are.
LEMMA StepFacts ==
    ASSUME IInv, NEW w \in Slots, Steps(w)
    PROVE  /\ run \in Runs /\ run[w] \in Run /\ TaskOf(w) \in Tasks /\ SoundRun(w)
           /\ run' \in Runs /\ run'[w] \in Run /\ TaskOf(w)' = TaskOf(w)
           /\ run'[w].job = run[w].job
           /\ \A v \in Slots : v # w => run'[v] = run[v]
           /\ \A u \in Tasks : u # TaskOf(w) => Same(u)
           /\ UNCHANGED <<profile, calls, queue, faults>>
<1> DEFINE t == TaskOf(w)
<1>1. /\ run \in Runs /\ row \in [Tasks -> Row] /\ approvals \in [Tasks -> SUBSET Approval]
      /\ tree \in [Tasks -> Tree] /\ remote \in [Tasks -> Nat]
  BY DEF IInv, TypeInv, TypeOK, Runs
<1>2. run[w].pc \in RunPCs
  BY DEF Steps, Changes, Reads, Sees, Yields, Breaks, Moves, Acquires, Asks, AsksTool,
         AsksPlan, AsksPush, Selects, Answered, Suspends, Concludes, Pushes, Commits,
         Saves, Acting, At, AtStep, RunPCs
<1>3. run[w] \in Run /\ t \in Tasks /\ SoundRun(w) BY <1>2, AtSound DEF At
<1>4. /\ run' \in Runs /\ run' = [run EXCEPT ![w] = run'[w]] /\ run'[w].job = run[w].job
      /\ run'[w].pc \in RunPCs
  <2>1. CASE Changes(w)
    BY <1>1, <1>2, <2>1 DEF Changes, Runs
  <2>2. CASE HandsOn(w) /\ ~Changes(w)
    BY <2>2
    DEF Steps, HandsOn, Reads, Sees, Yields, Breaks, Moves, Acquires, Asks, Selects,
        Answered, Suspends, Concludes, Pushes, Commits, Saves, RunPCs
  <2> QED BY <2>1, <2>2 DEF Steps
<1>5. run'[w] \in Run BY <1>4 DEF Runs, Idle, RunPCs
<1>6. TaskOf(w)' = t BY <1>4 DEF TaskOf
<1>7. \A v \in Slots : v # w => run'[v] = run[v] BY <1>1, <1>4 DEF Runs
<1>8. \A u \in Tasks : u # t => Same(u)
  <2>1. \A u \in Tasks : u # t => row'[u] = row[u]
    <3>1. CASE \E to \in Statuses : Moves(w, to)
      BY <1>1, <1>3, <3>1 DEF Moves
    <3>2. CASE Asks(w)
      BY <1>1, <1>3, <3>2 DEF Asks, AsksTool, AsksPlan, AsksPush
    <3>3. CASE Suspends(w) \/ Answered(w) \/ Saves(w)
      BY <1>1, <1>3, <3>3 DEF Suspends, Answered, Saves
    <3>4. CASE row' = row BY <3>4
    <3> QED
      BY <3>1, <3>2, <3>3, <3>4
      DEF Steps, Changes, Reads, Sees, Yields, Breaks, Acquires, Selects, Concludes,
          Pushes, Commits
  <2>2. \A u \in Tasks : u # t => approvals'[u] = approvals[u]
    <3>1. approvals' = approvals \/ \E n : approvals' = [approvals EXCEPT ![t] = n]
      BY DEF Steps, Changes, Reads, Sees, Yields, Breaks, Moves, Acquires, Asks, AsksTool,
             AsksPlan, AsksPush, Selects, Answered, Suspends, Concludes, Pushes, Commits,
             Saves
    <3> QED BY <1>1, <1>3, <3>1
  <2>3. \A u \in Tasks : u # t => tree'[u] = tree[u]
    <3>1. \/ tree' = tree
          \/ \E n : tree' = [tree EXCEPT ![t] = n]
          \/ \E b : tree' = [tree EXCEPT ![t].dirty = b]
          \/ tree' = [tree EXCEPT ![t].head = @ + 1, ![t].dirty = FALSE]
      BY DEF Steps, Changes, Reads, Sees, Yields, Breaks, Moves, Acquires, Asks, AsksTool,
             AsksPlan, AsksPush, Selects, Answered, Suspends, Concludes, Pushes, Commits,
             Saves, disk
    <3> QED BY <1>1, <1>3, <3>1
  <2>4. \A u \in Tasks : u # t => remote'[u] = remote[u] /\ (u \in held' <=> u \in held)
    <3>1. /\ remote' = remote \/ \E n : remote' = [remote EXCEPT ![t] = n]
          /\ held' = held \/ held' = held \cup {t}
      BY DEF Steps, Changes, Reads, Sees, Yields, Breaks, Moves, Acquires, Asks, AsksTool,
             AsksPlan, AsksPush, Selects, Answered, Suspends, Concludes, Pushes, Commits,
             Saves, disk
    <3> QED BY <1>1, <1>3, <3>1
  <2> QED BY <2>1, <2>2, <2>3, <2>4 DEF Same
<1>9. UNCHANGED <<profile, calls, queue, faults>> BY DEF Steps, environment
<1> QED BY <1>1, <1>3, <1>4, <1>5, <1>6, <1>7, <1>8, <1>9

\* A step of a run adds to what is asked for, or leaves it alone.
LEMMA StepKeeps ==
    ASSUME IInv, NEW w \in Slots, Steps(w)
    PROVE  /\ Kept
           /\ \/ approvals' = approvals
              \/ /\ Answered(w) /\ At(w, "insert")
                 /\ approvals'[TaskOf(w)] = approvals[TaskOf(w)] \cup {New(w)}
<1>1. /\ approvals \in [Tasks -> SUBSET Approval] /\ TaskOf(w) \in Tasks
      /\ \A u \in Tasks : u # TaskOf(w) => approvals'[u] = approvals[u]
  BY StepFacts DEF IInv, TypeInv, TypeOK, Same
<1>2. \/ approvals' = approvals
      \/ /\ Answered(w) /\ At(w, "insert")
         /\ approvals'[TaskOf(w)] = approvals[TaskOf(w)] \cup {New(w)}
  BY <1>1
  DEF Steps, Changes, Reads, Sees, Yields, Breaks, Moves, Acquires, Asks, Selects,
      Answered, Suspends, Concludes, Pushes, Commits, Saves
<1>3. Kept BY <1>1, <1>2 DEF Kept, Granted
<1> QED BY <1>2, <1>3

-----------------------------------------------------------------------------
(* A run that comes to push holds the grant, however many runs overlap *)

\* A task pushes with a grant of it, and no push configuration authorises is asked for.
PushTask(t) ==
    /\ row[t].status = "pushing" => "git_push" \in Granted(t)
    /\ Authorised(t) => \A a \in approvals[t] : a.action = "git_push" => a.status = "approved"
\* A run heads for a push with its grant, or with what will record one; and has read it
\* when it comes to push.
PushRun(w) ==
    LET t == TaskOf(w) IN
    /\ run[w].pc \notin {"select", "insert"} => run[w].ask = "none"
    /\ run[w].ask = "git_push" => run[w].auto = Authorised(t)
    /\ run[w].next = "pushing" => \/ "git_push" \in Granted(t)
                                  \/ Authorised(t) /\ run[w].ask = "git_push"
    /\ SnapOf(w).status = "pushing" =>
          /\ "git_push" \in Granted(t)
          /\ ~At(w, "approvals") => "git_push" \in SnapOf(w).grants
PushInv == /\ \A t \in Tasks : PushTask(t)
           /\ \A w \in Slots : Busy(w) => PushRun(w)

\* The task and the run a step is not about.
LEMMA PushElsewhere ==
    ASSUME IInv, PushInv, NEW w \in Slots, NEW t \in Tasks, Kept, profile' = profile,
           \A v \in Slots : v # w => run'[v] = run[v],
           \A u \in Tasks : u # t => row'[u] = row[u] /\ approvals'[u] = approvals[u],
           PushTask(t)', Busy(w)' => PushRun(w)'
    PROVE  PushInv'
<1>1. ASSUME NEW u \in Tasks, u # t PROVE PushTask(u)'
  BY <1>1 DEF PushInv, PushTask, Granted, Authorised
<1>2. ASSUME NEW v \in Slots, v # w, Busy(v)' PROVE PushRun(v)'
  <2>1. run'[v] = run[v] /\ Busy(v) BY <1>2 DEF Busy, At
  <2>2. PushRun(v) /\ TaskOf(v) \in Tasks
    BY <2>1, BusySlot DEF PushInv, Busy, At, IInv, TypeInv, TypeOK, Runs
  <2>3. TaskOf(v)' = TaskOf(v) /\ SnapOf(v)' = SnapOf(v) BY <2>1 DEF TaskOf, SnapOf
  <2>4. Granted(TaskOf(v)) \subseteq Granted(TaskOf(v))' BY <2>2, <2>3 DEF Kept
  <2> QED BY <2>1, <2>2, <2>3, <2>4 DEF PushRun, At, Authorised
<1> QED BY <1>1, <1>2 DEF PushInv

LEMMA PushOfStep ==
    ASSUME IInv, PushInv, NEW w \in Slots, Steps(w)
    PROVE  PushInv'
<1> DEFINE t == TaskOf(w)
           g == "git_push" \in Granted(t)
<1>1. /\ run[w] \in Run /\ t \in Tasks /\ SoundRun(w) /\ t' = t
      /\ row \in [Tasks -> Row] /\ row[t] \in Row
  BY StepFacts DEF IInv, TypeInv, TypeOK
<1>2. Kept /\ profile' = profile /\ Authorised(t)' = Authorised(t)
  BY StepKeeps, StepFacts DEF Authorised
<1>3. PushTask(t) /\ PushRun(w) /\ (g => "git_push" \in Granted(t'))
      /\ (g => g')
  BY <1>1, <1>2 DEF PushInv, Busy, At, Run, RunPCs, Kept
<1>4. SnapOf(w).grants \subseteq Granted(t)
      /\ \A d \in SnapOf(w).last : d.status = "approved" => d.action \in Granted(t)
  BY <1>1 DEF SoundRun, SnapshotHolds
<1>5. SUFFICES PushTask(t)' /\ PushRun(w)'
  BY <1>1, <1>2, <1>5, StepFacts, PushElsewhere DEF Same
<1>6. ASSUME Cleared(w), run'[w].pc \in {"row", "release"} PROVE PushRun(w)'
  BY <1>1, <1>6 DEF PushRun, Cleared, SnapOf, EmptySnap
<1>7. ASSUME SameSnap(w), ~At(w, "approvals"),
             run'[w].pc \notin {"select", "insert"} => run'[w].ask = "none",
             run'[w].ask = "git_push" => run'[w].auto = Authorised(t),
             run'[w].next = "pushing" =>
                 \/ g'
                 \/ Authorised(t) /\ run'[w].ask = "git_push"
      PROVE  PushRun(w)'
  BY <1>1, <1>2, <1>3, <1>7 DEF PushRun, SameSnap, SnapOf, At
<1>8. ASSUME approvals' = approvals, row'[t].status = row[t].status PROVE PushTask(t)'
  BY <1>1, <1>2, <1>3, <1>8 DEF PushTask, Granted
<1>9. CASE Reads(w) \/ Sees(w)
  <2>1. PushTask(t)' BY <1>8, <1>9 DEF Reads, Sees
  <2>2. PushRun(w)'
    <3>1. CASE Reads(w)
      BY <1>1, <1>2, <1>3, <3>1 DEF Reads, PushRun, PushTask, SameAsk, SnapOf, At
    <3>2. CASE Sees(w)
      BY <1>1, <1>2, <1>3, <3>2 DEF Sees, PushRun, SameAsk, SnapOf, At
    <3> QED BY <1>9, <3>1, <3>2
  <2> QED BY <2>1, <2>2
<1>10. CASE Yields(w) \/ Breaks(w)
  BY <1>6, <1>8, <1>10 DEF Yields, Breaks
<1>11. ASSUME NEW to \in Statuses, Moves(w, to) PROVE PushTask(t)' /\ PushRun(w)'
  <2>1. PushRun(w)' BY <1>6, <1>11 DEF Moves
  <2>2. to = "pushing" => g
    <3>1. CASE At(w, "settle")
      BY <1>3, <1>11, <3>1 DEF Moves, Leads, PushRun, At
    <3>2. CASE At(w, "deliver")
      BY <1>4, <1>11, <3>2 DEF Moves, Leads
    <3>3. CASE At(w, "step")
      BY <1>4, <1>11, <3>3 DEF Moves, Leads, Resumption
    <3> QED BY <1>11, <3>1, <3>2, <3>3 DEF Moves, At
  <2>3. row'[t].status = to /\ approvals' = approvals
    BY <1>1, <1>11 DEF Moves, Row
  <2>4. PushTask(t)' BY <1>1, <1>2, <1>3, <2>2, <2>3 DEF PushTask, Granted
  <2> QED BY <2>1, <2>4
<1>12. CASE Acquires(w) \/ Selects(w) \/ Concludes(w) \/ Pushes(w) \/ Commits(w) \/ Saves(w)
  <2>1. PushTask(t)'
    BY <1>1, <1>8, <1>12 DEF Acquires, Selects, Concludes, Pushes, Commits, Saves, Row
  <2>2. PushRun(w)'
    BY <1>3, <1>7, <1>12
    DEF Acquires, Selects, Concludes, Pushes, Commits, Saves, SameAsk, PushRun, At, AtStep,
        Terminal
  <2> QED BY <2>1, <2>2
<1>13. CASE Asks(w)
  <2>1. PushTask(t)'
    BY <1>1, <1>8, <1>13 DEF Asks, AsksTool, AsksPlan, AsksPush, Row
  <2>2. PushRun(w)'
    BY <1>3, <1>7, <1>13
    DEF Asks, AsksTool, AsksPlan, AsksPush, SameAsk, PushRun, At, AtStep, ToolGates
  <2> QED BY <2>1, <2>2
<1>14. CASE Answered(w)
  <2>1. PushTask(t)'
    <3>1. CASE approvals' = approvals BY <1>1, <1>8, <1>14, <3>1 DEF Answered, Row
    <3>2. CASE approvals'[t] = approvals[t] \cup {New(w)}
      <4>1. row'[t].status = row[t].status BY <1>1, <1>14 DEF Answered, Row
      <4> QED BY <1>1, <1>2, <1>3, <3>2, <4>1 DEF PushTask, PushRun, New
    <3> QED BY <3>1, <3>2, StepKeeps
  <2>2. run[w].next = "pushing" => g'
    <3> SUFFICES ASSUME run[w].next = "pushing", ~g PROVE g' BY <1>3
    <3>1. Authorised(t) /\ run[w].ask = "git_push" /\ run[w].auto BY <1>3 DEF PushRun
    <3>2. CASE Standing(t, run[w].ask) # {}
      BY <1>3, <3>1, <3>2 DEF Standing, PushTask, Granted
    <3>3. CASE approvals'[t] = approvals[t] \cup {New(w)}
      <4>1. New(w) \in approvals'[t] BY <3>3
      <4>2. New(w).action = "git_push" /\ New(w).status = "approved" BY <3>1 DEF New
      <4> QED BY <1>1, <4>1, <4>2 DEF Granted
    <3> QED
      <4>1. approvals \in [Tasks -> SUBSET Approval] BY DEF IInv, TypeInv, TypeOK
      <4> QED BY <1>1, <1>14, <3>1, <3>2, <3>3, <4>1 DEF Answered
  <2>3. PushRun(w)' BY <1>7, <1>14, <2>2 DEF Answered, At
  <2> QED BY <2>1, <2>3
<1>15. CASE Suspends(w)
  <2>1. row'[t].status \in {row[t].status, "waiting_approval"} /\ approvals' = approvals
    BY <1>1, <1>15 DEF Suspends, Row
  <2>2. PushTask(t)' BY <1>1, <1>2, <1>3, <2>1 DEF PushTask, Granted
  <2>3. PushRun(w)'
    BY <1>1, <1>2, <1>3, <1>15, <2>1 DEF Suspends, SameAsk, PushRun, SnapOf, At
  <2> QED BY <2>2, <2>3
<1>16. CASE Changes(w)
  <2>1. PushTask(t)' BY <1>8, <1>16 DEF Changes
  <2>2. run'[w] = run[w] BY <1>16 DEF Changes
  <2>3. PushRun(w)' BY <1>1, <1>2, <1>3, <2>2 DEF PushRun, SnapOf, At
  <2> QED BY <2>1, <2>3
<1> QED BY <1>9, <1>10, <1>11, <1>12, <1>13, <1>14, <1>15, <1>16 DEF Steps

LEMMA PushInit == Init => PushInv
PROOF BY DEF Init, PushInv, PushTask, Busy, At, Idle

LEMMA PushNext == IInv /\ PushInv /\ [Next]_vars => PushInv'
<1> SUFFICES ASSUME IInv, PushInv, [Next]_vars PROVE PushInv' OBVIOUS
<1> USE DEF IInv, TypeInv, TypeOK
<1>1. ASSUME UNCHANGED <<profile, row, approvals, run>> PROVE PushInv'
  BY <1>1 DEF PushInv, PushTask, PushRun, Busy, At, Granted, Authorised, TaskOf, SnapOf
<1>2. CASE UNCHANGED vars BY <1>1, <1>2 DEF vars, environment
<1>3. ASSUME NEW t \in Tasks, Create(t) \/ Cancel(t) \/ Reclaim(t) PROVE PushInv'
  <2>1. UNCHANGED <<profile, approvals, run>>
    BY <1>3 DEF Create, Cancel, Reclaim, environment
  <2>2. \A u \in Tasks : row'[u].status = "pushing" => row[u].status = "pushing"
    BY <1>3 DEF Create, Cancel, Reclaim, Row
  <2> QED BY <2>1, <2>2 DEF PushInv, PushTask, PushRun, Busy, At, Granted, Authorised,
                            TaskOf, SnapOf
<1>4. ASSUME NEW t \in Tasks, NEW verdict \in {"approved", "rejected"}, Decide(t, verdict)
      PROVE  PushInv'
  <2>1. Kept BY <1>4, ConsentOfDecide
  <2>2. PICK a \in Pending(t) :
           /\ approvals' = [approvals EXCEPT ![t] =
                 (@ \ {a}) \cup {[a EXCEPT !.status = verdict, !.dec = row[t].clock]}]
           /\ row' = [row EXCEPT ![t].clock = @ + 1]
           /\ UNCHANGED <<profile, run>>
    BY <1>4 DEF Decide, environment
  <2>3. a \in Approval /\ a \in approvals[t] /\ a.status = "pending" BY DEF Pending
  <2> DEFINE b == [a EXCEPT !.status = verdict, !.dec = row[t].clock]
  <2>4. b.action = a.action BY <2>3 DEF Approval
  <2>5. approvals'[t] = (approvals[t] \ {a}) \cup {b}
        /\ \A u \in Tasks : u # t => approvals'[u] = approvals[u]
    BY <2>2
  <2> HIDE DEF b
  <2>6. \A u \in Tasks : row'[u].status = row[u].status BY <2>2 DEF Row
  <2>7. ASSUME NEW u \in Tasks PROVE PushTask(u)'
    BY <2>1, <2>2, <2>3, <2>4, <2>5, <2>6 DEF PushInv, PushTask, Kept, Authorised
  <2>8. ASSUME NEW w \in Slots, Busy(w)' PROVE PushRun(w)'
    <3>1. PushRun(w) /\ TaskOf(w) \in Tasks /\ TaskOf(w)' = TaskOf(w)
          /\ SnapOf(w)' = SnapOf(w)
      BY <2>2, <2>8, BusySlot DEF PushInv, Busy, At, Runs, TaskOf, SnapOf
    <3>2. Granted(TaskOf(w)) \subseteq Granted(TaskOf(w))' BY <2>1, <3>1 DEF Kept
    <3> QED BY <2>2, <3>1, <3>2 DEF PushRun, At, Authorised
  <2> QED BY <2>7, <2>8 DEF PushInv
<1>5. ASSUME NEW c \in calls, ReachQueue(c) \/ LoseCall(c) PROVE PushInv'
  BY <1>1, <1>5 DEF ReachQueue, LoseCall, environment
<1>6. ASSUME NEW w \in Slots, Take(w) \/ Release(w) \/ Throw(w) PROVE PushInv'
  <2>1. UNCHANGED <<profile, row, approvals>> /\ Kept
    BY <1>6 DEF Take, Release, Throw, environment, Kept, Granted
  <2>2. \A v \in Slots : v # w => run'[v] = run[v]
    BY <1>6 DEF Take, Release, Throw, EndRun, ToolThrew
  <2>3. \A t \in Tasks : PushTask(t)'
    BY <2>1 DEF PushInv, PushTask, Granted, Authorised
  <2>4. Busy(w)' => PushRun(w)'
    <3>1. CASE Take(w)
      <4>1. PICK j \in queue : run' = [run EXCEPT ![w] = Begin(j)] BY <3>1 DEF Take
      <4>2. run'[w] = Begin(j) BY <4>1
      <4> QED BY <4>2 DEF PushRun, Begin, EmptySnap, SnapOf
    <3>2. CASE Release(w)
      BY <3>2 DEF Release, Busy, At, Idle
    <3>3. CASE Throw(w)
      <4>1. run \in Runs /\ run[w] \in Run /\ Busy(w)
        BY <3>3, AtSound DEF Throw, At, RunPCs, Busy, IInv
      <4>2. CASE EndRun(w, TRUE)
        <5>1. Cleared(w) /\ run'[w].pc = "release" BY <4>1, <4>2, EndRunClears
        <5> QED BY <5>1 DEF PushRun, Cleared, SnapOf, EmptySnap
      <4>3. CASE ToolThrew(w) /\ run[w].pc \in {"select", "insert", "settle"}
        <5>1. /\ HandsOn(w) /\ run'[w].snap = run[w].snap /\ run'[w].next = "queued"
              /\ run'[w].ask = "none" /\ run'[w].pc = "step"
          BY <4>1, <4>3 DEF ToolThrew, HandsOn, Runs, Run, RunPCs, Statuses
        <5>2. TaskOf(w)' = TaskOf(w) BY <5>1 DEF HandsOn, TaskOf
        <5>3. Granted(TaskOf(w))' = Granted(TaskOf(w)) BY <2>1, <5>2 DEF Granted
        <5> QED BY <4>1, <4>3, <5>1, <5>3 DEF PushInv, PushRun, SnapOf, At
      <4> QED BY <3>3, <4>2, <4>3 DEF Throw
    <3> QED BY <1>6, <3>1, <3>2, <3>3
  <2>5. CASE Tasks = {}
    BY <2>1, <2>2, <2>3, <2>4, <2>5, BusySlot DEF PushInv, Busy, At, Runs
  <2>6. ASSUME NEW t \in Tasks PROVE PushInv'
    BY <2>1, <2>2, <2>3, <2>4, PushElsewhere
  <2> QED BY <2>5, <2>6
<1>7. ASSUME NEW w \in Slots, Work(w) PROVE PushInv'
  BY <1>6, <1>7, WorkKinds, PushOfStep
<1>8. CASE Crash
  BY <1>8 DEF Crash, PushInv, PushTask, Busy, At, Idle, Granted, Authorised
<1> QED BY <1>2, <1>3, <1>4, <1>5, <1>6, <1>7, <1>8 DEF Next

\* Whatever runs of the task overlap: a run that comes to push has read the grant its
\* gate looks for, given by a person or recorded by configuration.
THEOREM PushCovered == Spec => []PushIsCovered
<1>1. Spec => []PushInv BY PushInit, PushNext, Invariant, PTL DEF Spec
<1>2. PushInv => PushIsCovered
  BY DEF PushInv, PushRun, PushIsCovered, AtWork, AtStep, At, Busy, NeedsApproval
<1> QED BY <1>1, <1>2, PTL

-----------------------------------------------------------------------------
(* Where no two runs of a task overlap *)

\* A worker with one slot runs no task twice at once.
LEMMA OneSlotAlone == ASSUME NEW s, Slots = {s} PROVE []Alone
<1>1. Alone BY DEF Alone
<1> QED BY <1>1, PTL

\* The rows of a task are in order of its clock, and one action has a second row only
\* after the first was rejected.
Before(a, b) == a.status = "rejected" /\ a.dec < b.req
Ordered(t) == \A a \in approvals[t] :
    a.req < row[t].clock /\ a.dec < row[t].clock /\ a.req <= a.dec
OnceEach(t) == \A a, b \in approvals[t] :
    a.action = b.action /\ a # b => Before(a, b) \/ Before(b, a)
\* What was not there when the run looked is not there when it inserts.
AskRun(w) == At(w, "insert") => Standing(TaskOf(w), run[w].ask) = {}

\* While the task is open, a run acts on the status the row has, or that it gave it.
Current(w) ==
    LET t == TaskOf(w) IN
    /\ run[w].stops # 0 => InLoop(w) /\ run[w].pc \in Acting
    /\ run[w].pc \in Acting \cup {"approvals"} /\ Open(t) =>
          row[t].status = IF run[w].stops = 0 THEN SnapOf(w).status ELSE "waiting_approval"

\* A push is asked for only of a commit the task has recorded, and a run that pushed
\* compared HEAD with that very commit.
HashTask(t) ==
    /\ (\E a \in approvals[t] : a.action = "git_push") => row[t].hash # 0
    /\ row[t].deliver = "push_existing" => profile[t].ahead
    /\ profile[t].ahead => tree[t].head # 0
HashRun(w) ==
    LET t == TaskOf(w) IN
    /\ SnapOf(w).deliver = "push_existing" => profile[t].ahead
    /\ ~At(w, "row") /\ ~At(w, "release")
          /\ (SnapOf(w).status # "committing" \/ At(w, "approvals") \/ At(w, "step"))
          => SnapOf(w).hash = row[t].hash
    /\ At(w, "hash") /\ tree[t].dir => tree[t].head # 0
    /\ At(w, "deliver") \/ run[w].ask = "git_push" => row[t].hash # 0
    /\ At(w, "select") \/ At(w, "insert") => run[w].next \in {"waiting_approval", "pushing"}
    /\ At(w, "settle") /\ SnapOf(w).status = "pushing" /\ run[w].next = "completed"
          => remote[t] = row[t].hash

TaskInv(t) == Ordered(t) /\ OnceEach(t) /\ HashTask(t)
RunInv(w) == AskRun(w) /\ Current(w) /\ HashRun(w)
OneInv == /\ \A t \in Tasks : TaskInv(t)
          /\ \A w \in Slots : Busy(w) => RunInv(w)

\* The task and the runs a step is not about.
LEMMA TaskFrame ==
    ASSUME NEW u \in Tasks, TaskInv(u), Same(u), profile' = profile
    PROVE  TaskInv(u)'
PROOF BY DEF TaskInv, Ordered, OnceEach, Before, HashTask, Same

LEMMA RunFrame ==
    ASSUME NEW v \in Slots, RunInv(v), run'[v] = run[v], Same(TaskOf(v)),
           profile' = profile
    PROVE  RunInv(v)'
<1>1. TaskOf(v)' = TaskOf(v) /\ SnapOf(v)' = SnapOf(v) BY DEF TaskOf, SnapOf
<1>2. AskRun(v)' BY <1>1 DEF RunInv, AskRun, Standing, Same, At
<1>3. Current(v)' BY <1>1 DEF RunInv, Current, Open, InLoop, Same
<1>4. HashRun(v)' BY <1>1 DEF RunInv, HashRun, Same, At
<1> QED BY <1>2, <1>3, <1>4 DEF RunInv

\* Another slot's run is of another task, so a step leaves it alone.
LEMMA OtherRuns ==
    ASSUME IInv, Alone, NEW w \in Slots, Steps(w), NEW v \in Slots, v # w, Busy(v)'
    PROVE  /\ Busy(v) /\ run'[v] = run[v] /\ TaskOf(v) \in Tasks
           /\ TaskOf(v)' = TaskOf(v) /\ SnapOf(v)' = SnapOf(v) /\ Same(TaskOf(v))
           /\ TaskOf(v) # TaskOf(w) /\ run[v] \in Run
<1>1. run'[v] = run[v] /\ run \in Runs BY StepFacts
<1>2. Busy(v) /\ TaskOf(v)' = TaskOf(v) /\ SnapOf(v)' = SnapOf(v)
  BY <1>1 DEF Busy, At, TaskOf, SnapOf
<1>3. TaskOf(v) \in Tasks /\ run[v] \in Run BY <1>1, <1>2, BusySlot DEF Busy, At
<1>4. Busy(w) BY StepFacts DEF Busy, At, Run, RunPCs
<1>5. TaskOf(v) # TaskOf(w) BY <1>2, <1>4 DEF Alone, Busy
<1> QED BY <1>1, <1>2, <1>3, <1>5, StepFacts

LEMMA OneElsewhere ==
    ASSUME IInv, Alone, OneInv, NEW w \in Slots, Steps(w),
           TaskInv(TaskOf(w))', RunInv(w)'
    PROVE  OneInv'
<1>1. ASSUME NEW u \in Tasks PROVE TaskInv(u)'
  BY <1>1, StepFacts, TaskFrame DEF OneInv
<1>2. ASSUME NEW v \in Slots, Busy(v)' PROVE RunInv(v)'
  BY <1>2, StepFacts, OtherRuns, RunFrame DEF OneInv
<1> QED BY <1>1, <1>2 DEF OneInv

\* Requests: one insert, of what nothing stands for.
LEMMA OrderOfStep ==
    ASSUME IInv, OneInv, NEW w \in Slots, Steps(w)
    PROVE  Ordered(TaskOf(w))' /\ OnceEach(TaskOf(w))' /\ AskRun(w)'
<1> DEFINE t == TaskOf(w)
<1>1. /\ run[w] \in Run /\ t \in Tasks /\ t' = t /\ run'[w].job = run[w].job
      /\ row \in [Tasks -> Row] /\ row[t] \in Row /\ approvals[t] \subseteq Approval
      /\ approvals \in [Tasks -> SUBSET Approval]
  BY StepFacts DEF IInv, TypeInv, TypeOK
<1>2. Ordered(t) /\ OnceEach(t) /\ AskRun(w)
  BY <1>1 DEF OneInv, TaskInv, RunInv, Busy, At, Run, RunPCs
<1>3. ASSUME approvals' = approvals, row'[t].clock = row[t].clock
      PROVE  Ordered(t)' /\ OnceEach(t)'
  BY <1>1, <1>2, <1>3 DEF Ordered, OnceEach, Before
<1>4. CASE Answered(w)
  <2>1. AskRun(w)' BY <1>4 DEF Answered, AskRun, At
  <2>2. CASE approvals' = approvals /\ row' = row BY <1>3, <2>1, <2>2
  <2>3. CASE /\ At(w, "insert") /\ approvals'[t] = approvals[t] \cup {New(w)}
             /\ row' = [row EXCEPT ![t].clock = @ + 1]
    <3>1. row'[t].clock = row[t].clock + 1 /\ row[t].clock \in Nat
      BY <1>1, <2>3 DEF Row
    <3>2. New(w).req = row[t].clock /\ New(w).dec = row[t].clock /\ New(w).action = run[w].ask
      BY DEF New
    <3>3. Ordered(t)'
      BY <1>1, <1>2, <2>3, <3>1, <3>2 DEF Ordered, Approval
    <3>4. \A a \in approvals[t] : a.action = run[w].ask => Before(a, New(w))
      BY <1>2, <2>3, <3>2 DEF AskRun, Standing, Ordered, Before
    <3>5. OnceEach(t)'
      <4>1. \A a, b \in approvals[t] \cup {New(w)} :
               a.action = b.action /\ a # b => Before(a, b) \/ Before(b, a)
        BY <1>2, <3>2, <3>4 DEF OnceEach
      <4> QED BY <1>1, <2>3, <4>1 DEF OnceEach, Before
    <3> QED BY <2>1, <3>3, <3>5
  <2> QED BY <1>1, <1>4, <2>2, <2>3 DEF Answered
<1>5. CASE Selects(w)
  BY <1>1, <1>3, <1>5 DEF Selects, AskRun, Standing, SameAsk
<1>6. CASE Changes(w)
  BY <1>1, <1>2, <1>3, <1>6 DEF Changes, AskRun, Standing, At
<1>7. CASE Asks(w)
  <2>1. row'[t].clock = row[t].clock
    BY <1>1, <1>7 DEF Asks, AsksTool, AsksPlan, AsksPush, Row
  <2> QED BY <1>3, <1>7, <2>1 DEF Asks, AskRun, At
<1>8. ASSUME NEW to \in Statuses, Moves(w, to)
      PROVE  Ordered(t)' /\ OnceEach(t)' /\ AskRun(w)'
  BY <1>1, <1>3, <1>8 DEF Moves, AskRun, At, Row
<1>9. CASE Suspends(w) \/ Saves(w)
  <2>1. row'[t].clock = row[t].clock BY <1>1, <1>9 DEF Suspends, Saves, Row
  <2> QED BY <1>3, <1>9, <2>1 DEF Suspends, Saves, AskRun, At
<1>10. CASE Reads(w) \/ Sees(w) \/ Yields(w) \/ Breaks(w) \/ Acquires(w) \/ Concludes(w)
            \/ Pushes(w) \/ Commits(w)
  BY <1>3, <1>10
  DEF Reads, Sees, Yields, Breaks, Acquires, Concludes, Pushes, Commits, AskRun, At
<1> QED BY <1>4, <1>5, <1>6, <1>7, <1>8, <1>9, <1>10 DEF Steps

\* What a run acts on.
LEMMA CurrentOfStep ==
    ASSUME IInv, OneInv, NEW w \in Slots, Steps(w)
    PROVE  Current(w)'
<1> DEFINE t == TaskOf(w)
<1>1. /\ run[w] \in Run /\ t \in Tasks /\ t' = t
      /\ row \in [Tasks -> Row] /\ row[t] \in Row
  BY StepFacts DEF IInv, TypeInv, TypeOK
<1>2. Current(w) /\ run[w].stops \in Nat
  BY <1>1 DEF OneInv, RunInv, Busy, At, Run, RunPCs
<1>3. ASSUME row'[t].status = row[t].status, SameSnap(w), run[w].pc \in Acting \cup {"approvals"},
             run'[w].pc \in Acting, InLoop(w) /\ run[w].stops # 0 => run'[w].ws
      PROVE  Current(w)'
  BY <1>1, <1>2, <1>3 DEF Current, SameSnap, SnapOf, InLoop, Open
<1>4. CASE Reads(w) \/ Sees(w)
  <2>1. run[w].stops = 0 /\ run'[w].stops = 0 BY <1>2, <1>4 DEF Reads, Sees, Current, At, Acting
  <2>2. row'[t].status = run'[w].snap.status BY <1>1, <1>4 DEF Reads, Sees
  <2> QED BY <1>1, <2>1, <2>2 DEF Current, SnapOf
<1>5. ASSUME Cleared(w), run'[w].pc \notin Acting \cup {"approvals"} PROVE Current(w)'
  BY <1>5 DEF Cleared, Current
<1>6. CASE Yields(w) \/ Breaks(w) BY <1>5, <1>6 DEF Yields, Breaks, Acting
<1>7. ASSUME NEW to \in Statuses, Moves(w, to) PROVE Current(w)'
  BY <1>5, <1>7 DEF Moves, Acting
<1>8. CASE Acquires(w) \/ Selects(w) \/ Commits(w) \/ Saves(w)
  <2>1. row'[t].status = row[t].status
    BY <1>1, <1>8 DEF Acquires, Selects, Commits, Saves, Row
  <2> QED BY <1>3, <1>8, <2>1 DEF Acquires, Selects, Commits, Saves, Acting, At, AtStep, InLoop
<1>9. CASE Concludes(w) \/ Pushes(w)
  BY <1>3, <1>9 DEF Concludes, Pushes, Acting, At, AtStep, InLoop
<1>10. CASE Asks(w)
  <2>1. row'[t].status = row[t].status
    BY <1>1, <1>10 DEF Asks, AsksTool, AsksPlan, AsksPush, Row
  <2> QED BY <1>3, <1>10, <2>1
          DEF Asks, AsksTool, AsksPlan, AsksPush, Acting, At, AtStep, InLoop
<1>11. CASE Answered(w)
  <2>1. row'[t].status = row[t].status BY <1>1, <1>11 DEF Answered, Row
  <2> QED BY <1>3, <1>11, <2>1 DEF Answered, Acting, At
<1>12. CASE Suspends(w)
  <2>1. /\ run'[w].stops # 0 /\ SnapOf(w)' = SnapOf(w) /\ run'[w].ws /\ run'[w].pc \in Acting
    BY <1>2, <1>12 DEF Suspends, SnapOf, InLoop, Acting
  <2>2. Open(t)' => row'[t].status = "waiting_approval"
    <3>1. CASE Applies(w) BY <1>1, <1>12, <3>1 DEF Suspends, Row
    <3>2. CASE ~Applies(w)
      BY <1>1, <1>2, <1>12, <3>2 DEF Suspends, Applies, Current, Open, At, Acting
    <3> QED BY <3>1, <3>2
  <2> QED BY <1>1, <1>12, <2>1, <2>2 DEF Current, Suspends, InLoop
<1>13. CASE Changes(w)
  BY <1>1, <1>2, <1>13 DEF Changes, Current, SnapOf, InLoop, Open
<1> QED BY <1>4, <1>6, <1>7, <1>8, <1>9, <1>10, <1>11, <1>12, <1>13 DEF Steps

\* What is recorded of a commit.
LEMMA HashOfStep ==
    ASSUME IInv, OneInv, NEW w \in Slots, Steps(w)
    PROVE  HashTask(TaskOf(w))' /\ HashRun(w)'
<1> DEFINE t == TaskOf(w)
<1>1. /\ run[w] \in Run /\ t \in Tasks /\ t' = t /\ profile' = profile
      /\ row \in [Tasks -> Row] /\ row[t] \in Row
      /\ tree \in [Tasks -> Tree] /\ tree[t] \in Tree /\ remote \in [Tasks -> Nat]
      /\ SnapOf(w).grants \subseteq Granted(t)
      /\ run[w].pc \in {"hash", "deliver"} => SnapOf(w).status = "committing"
  BY StepFacts DEF IInv, TypeInv, TypeOK, SoundRun, SnapshotHolds
<1>2. HashTask(t) /\ HashRun(w)
  BY <1>1 DEF OneInv, TaskInv, RunInv, Busy, At, Run, RunPCs
<1>3. ASSUME approvals' = approvals, row'[t].hash = row[t].hash,
             row'[t].deliver = row[t].deliver, tree'[t].head = tree[t].head
      PROVE  HashTask(t)'
  BY <1>1, <1>2, <1>3 DEF HashTask
<1>4. ASSUME Cleared(w), run'[w].pc \in {"row", "release"} PROVE HashRun(w)'
  <2>1. SnapOf(w)'.deliver = "commit" /\ SnapOf(w)'.status = "created" /\ run'[w].ask = "none"
    BY <1>4 DEF Cleared, SnapOf, EmptySnap
  <2> QED BY <1>4, <2>1 DEF HashRun, At
<1>5. ASSUME SameSnap(w), row'[t].hash = row[t].hash, run[w].pc \in Acting,
             run'[w].pc \in {"step", "select", "insert", "settle"},
             run'[w].pc = "step" => SnapOf(w).status # "committing" \/ At(w, "step"),
             run'[w].ask = "git_push" => row[t].hash # 0,
             run'[w].pc \in {"select", "insert"} =>
                 run'[w].next \in {"waiting_approval", "pushing"},
             run'[w].pc = "settle" =>
                 ~(SnapOf(w).status = "pushing" /\ run'[w].next = "completed")
      PROVE  HashRun(w)'
  BY <1>1, <1>2, <1>5 DEF HashRun, SameSnap, SnapOf, At, Acting
<1>6. CASE Reads(w) \/ Sees(w)
  <2>1. HashTask(t)' BY <1>1, <1>3, <1>6 DEF Reads, Sees, disk
  <2>2. CASE Reads(w)
    <3>1. HashRun(w)' BY <1>1, <1>2, <2>2 DEF Reads, HashRun, HashTask, SameAsk, SnapOf, At
    <3> QED BY <2>1, <3>1
  <2>3. CASE Sees(w)
    <3>1. HashRun(w)' BY <1>1, <1>2, <2>3 DEF Sees, HashRun, SameAsk, SnapOf, At
    <3> QED BY <2>1, <3>1
  <2> QED BY <1>6, <2>2, <2>3
<1>7. CASE Yields(w) \/ Breaks(w) BY <1>3, <1>4, <1>7 DEF Yields, Breaks, disk
<1>8. ASSUME NEW to \in Statuses, Moves(w, to) PROVE HashTask(t)' /\ HashRun(w)'
  <2>1. row'[t].hash = row[t].hash /\ row'[t].deliver = row[t].deliver
    BY <1>1, <1>8 DEF Moves, Row
  <2> QED BY <1>3, <1>4, <1>8, <2>1 DEF Moves, disk
<1>9. CASE Acquires(w)
  <2>1. profile[t].ahead => profile[t].mode = "worktree"
    BY <1>1, ConstantsAssumption DEF IInv, TypeInv, TypeOK, Profile
  <2>2. profile[t].ahead => tree'[t].head = tree[t].head
    BY <1>1, <1>9, <2>1 DEF Acquires, Fresh
  <2>3. HashTask(t)' BY <1>1, <1>2, <1>9, <2>2 DEF HashTask, Acquires
  <2>4. HashRun(w)'
    BY <1>1, <1>2, <1>5, <1>9 DEF Acquires, HashRun, SameAsk, Acting, At
  <2> QED BY <2>3, <2>4
<1>10. CASE Asks(w)
  <2>1. CASE AsksPlan(w)
    <3>1. PICK n \in Nat, d \in Deliveries :
             /\ row' = [row EXCEPT ![t].plan = n, ![t].deliver = d]
             /\ d = "push_existing" => profile[t].ahead
      BY <2>1 DEF AsksPlan
    <3>2. row'[t].hash = row[t].hash /\ row'[t].deliver = d
      BY <1>1, <3>1 DEF Row
    <3>3. HashTask(t)' BY <1>1, <1>2, <1>10, <3>1, <3>2 DEF HashTask, Asks, disk
    <3>4. HashRun(w)' BY <1>5, <1>10, <2>1, <3>2 DEF Asks, AsksPlan, Acting, AtStep, At
    <3> QED BY <3>3, <3>4
  <2>2. CASE AsksTool(w) \/ AsksPush(w)
    <3>1. HashTask(t)' BY <1>3, <1>10, <2>2 DEF Asks, AsksTool, AsksPush, disk
    <3>2. HashRun(w)'
      BY <1>2, <1>5, <1>10, <2>2
      DEF Asks, AsksTool, AsksPush, HashRun, ToolGates, Acting, AtStep, At
    <3> QED BY <3>1, <3>2
  <2> QED BY <1>10, <2>1, <2>2 DEF Asks
<1>11. CASE Selects(w)
  <2>1. HashTask(t)' BY <1>3, <1>11 DEF Selects, disk
  <2>2. HashRun(w)' BY <1>2, <1>5, <1>11 DEF Selects, SameAsk, HashRun, Acting, At
  <2> QED BY <2>1, <2>2
<1>12. CASE Answered(w)
  <2>1. /\ row'[t].hash = row[t].hash /\ row'[t].deliver = row[t].deliver
        /\ tree'[t] = tree[t]
    BY <1>1, <1>12 DEF Answered, Row, disk
  <2>2. HashTask(t)'
    <3>1. CASE approvals' = approvals BY <1>3, <2>1, <3>1
    <3>2. CASE approvals'[t] = approvals[t] \cup {New(w)}
      BY <1>1, <1>2, <2>1, <3>2 DEF HashTask, HashRun, New
    <3> QED BY <3>1, <3>2, StepKeeps
  <2>3. HashRun(w)' BY <1>2, <1>5, <1>12, <2>1 DEF Answered, HashRun, Acting, At
  <2> QED BY <2>2, <2>3
<1>13. CASE Suspends(w)
  <2>1. row'[t].hash = row[t].hash /\ row'[t].deliver = row[t].deliver
    BY <1>1, <1>13 DEF Suspends, Row
  <2>2. HashTask(t)' BY <1>3, <1>13, <2>1 DEF Suspends, disk
  <2>3. HashRun(w)'
    BY <1>1, <1>2, <1>13, <2>1 DEF Suspends, SameAsk, HashRun, SnapOf, InLoop, At
  <2> QED BY <2>2, <2>3
<1>14. CASE Concludes(w)
  <2>1. HashTask(t)' BY <1>3, <1>14 DEF Concludes, disk
  <2>2. HashRun(w)' BY <1>2, <1>5, <1>14 DEF Concludes, SameAsk, HashRun, Acting, At
  <2> QED BY <2>1, <2>2
<1>15. CASE Pushes(w)
  <2>1. HashTask(t)' BY <1>3, <1>15 DEF Pushes
  <2>2. row[t].hash # 0 BY <1>1, <1>2, <1>15 DEF Pushes, HashTask, Granted
  <2>3. SnapOf(w).hash = row[t].hash BY <1>2, <1>15 DEF Pushes, HashRun, AtStep, At
  <2>4. remote'[t] = tree[t].head BY <1>1, <1>15 DEF Pushes
  <2>5. HashRun(w)'
    BY <1>1, <1>2, <1>15, <2>2, <2>3, <2>4
    DEF Pushes, SameSnap, SameAsk, HashRun, SnapOf, AtStep, At
  <2> QED BY <2>1, <2>5
<1>16. CASE Commits(w)
  <2>1. tree[t].head \in Nat BY <1>1 DEF Tree
  <2>2. tree'[t].head = tree[t].head \/ tree'[t].head = tree[t].head + 1
    BY <1>1, <1>16 DEF Commits, Tree
  <2>3. tree'[t].head # 0
    BY <1>1, <1>2, <1>16, <2>1, <2>2 DEF Commits, HashRun, HashTask, Tree
  <2>4. HashTask(t)' BY <1>1, <1>2, <1>16, <2>3 DEF Commits, HashTask
  <2>5. HashRun(w)'
    BY <1>1, <1>2, <1>16, <2>3 DEF Commits, SameSnap, SameAsk, HashRun, SnapOf, AtStep, At
  <2> QED BY <2>4, <2>5
<1>17. CASE Saves(w)
  <2>1. row'[t].hash = tree[t].head /\ row'[t].deliver = row[t].deliver
    BY <1>1, <1>17 DEF Saves, Row
  <2>2. tree[t].head # 0 BY <1>2, <1>17 DEF Saves, HashRun
  <2>3. HashTask(t)' BY <1>1, <1>2, <1>17, <2>1, <2>2 DEF Saves, HashTask, disk
  <2>4. HashRun(w)'
    BY <1>1, <1>2, <1>17, <2>1, <2>2 DEF Saves, SameSnap, SameAsk, HashRun, SnapOf, At
  <2> QED BY <2>3, <2>4
<1>18. CASE Changes(w)
  <2>1. tree'[t].head = tree[t].head /\ tree'[t].dir = tree[t].dir
    BY <1>1, <1>18 DEF Changes, Tree
  <2>2. HashTask(t)' BY <1>3, <1>18, <2>1 DEF Changes
  <2>3. HashRun(w)' BY <1>1, <1>2, <1>18, <2>1 DEF Changes, HashRun, SnapOf, At
  <2> QED BY <2>2, <2>3
<1> QED BY <1>6, <1>7, <1>8, <1>9, <1>10, <1>11, <1>12, <1>13, <1>14, <1>15, <1>16, <1>17,
           <1>18 DEF Steps

LEMMA OneOfStep ==
    ASSUME IInv, Alone, OneInv, NEW w \in Slots, Steps(w)
    PROVE  OneInv'
<1>1. TaskInv(TaskOf(w))'
  BY OrderOfStep, HashOfStep DEF TaskInv
<1>2. RunInv(w)'
  BY OrderOfStep, CurrentOfStep, HashOfStep DEF RunInv
<1> QED BY <1>1, <1>2, OneElsewhere

LEMMA OneInit == Init => OneInv
<1> SUFFICES ASSUME Init PROVE OneInv OBVIOUS
<1>1. ASSUME NEW t \in Tasks PROVE TaskInv(t)
  BY <1>1 DEF Init, TaskInv, Ordered, OnceEach, HashTask
<1> QED BY <1>1 DEF Init, OneInv, Busy, At, Idle

\* A removed directory holds nothing, and a worktree's commits stay on its branch.
LEMMA OneOfRemoval ==
    ASSUME IInv, OneInv, NEW t \in Tasks, UNCHANGED <<profile, row, approvals, remote>>,
           tree' \in [Tasks -> Tree],
           \A u \in Tasks : u # t => tree'[u] = tree[u],
           ~tree'[t].dir, profile[t].mode = "worktree" => tree'[t].head = tree[t].head
    PROVE  /\ \A u \in Tasks : TaskInv(u)'
           /\ \A v \in Slots : Busy(v) /\ run'[v] = run[v] => RunInv(v)'
<1>1. ASSUME NEW u \in Tasks PROVE TaskInv(u)'
  <2>1. profile[u].ahead => profile[u].mode = "worktree"
    BY <1>1, ConstantsAssumption DEF IInv, TypeInv, TypeOK, Profile
  <2>2. profile[u].ahead => tree'[u].head = tree[u].head BY <1>1, <2>1
  <2> QED BY <1>1, <2>2 DEF OneInv, TaskInv, Ordered, OnceEach, Before, HashTask
<1>2. ASSUME NEW v \in Slots, Busy(v), run'[v] = run[v] PROVE RunInv(v)'
  <2>1. RunInv(v) /\ TaskOf(v)' = TaskOf(v) /\ SnapOf(v)' = SnapOf(v) /\ TaskOf(v) \in Tasks
    BY <1>2, BusySlot DEF OneInv, Busy, At, TaskOf, SnapOf, IInv, TypeInv, TypeOK, Runs
  <2>2. tree'[TaskOf(v)].dir => tree'[TaskOf(v)] = tree[TaskOf(v)] BY <2>1
  <2>3. HashRun(v)' BY <1>2, <2>1, <2>2 DEF RunInv, HashRun, At
  <2>4. AskRun(v)' /\ Current(v)'
    BY <1>2, <2>1 DEF RunInv, AskRun, Standing, Current, Open, InLoop, At
  <2> QED BY <2>3, <2>4 DEF RunInv
<1> QED BY <1>1, <1>2

LEMMA OneOfAPI ==
    ASSUME IInv, OneInv, NEW t \in Tasks, Create(t) \/ Cancel(t) \/ Reclaim(t)
    PROVE  OneInv'
<1> USE DEF IInv, TypeInv, TypeOK
<1>1. CASE Reclaim(t)
  <2>1. /\ UNCHANGED <<profile, row, approvals, remote>> /\ run' = run
        /\ tree' = [tree EXCEPT ![t] = [Removed(t) EXCEPT !.stale = FALSE]]
    BY <1>1 DEF Reclaim, environment
  <2>2. Removed(t) \in Tree /\ ~Removed(t).dir
        /\ (profile[t].mode = "worktree" => Removed(t).head = tree[t].head)
    BY DEF Removed, Tree
  <2>3. /\ tree' \in [Tasks -> Tree] /\ \A u \in Tasks : u # t => tree'[u] = tree[u]
        /\ ~tree'[t].dir /\ (profile[t].mode = "worktree" => tree'[t].head = tree[t].head)
    BY <2>1, <2>2 DEF Tree
  <2>4. \A v \in Slots : Busy(v)' => Busy(v) BY <2>1 DEF Busy, At
  <2>5. /\ \A u \in Tasks : TaskInv(u)'
        /\ \A v \in Slots : Busy(v) /\ run'[v] = run[v] => RunInv(v)'
    BY <2>1, <2>3, OneOfRemoval
  <2> QED BY <2>1, <2>4, <2>5 DEF OneInv
<1>2. CASE Create(t) \/ Cancel(t)
  <2>1. /\ UNCHANGED <<profile, approvals, run, tree, remote>>
        /\ \A u \in Tasks : /\ row'[u].hash = row[u].hash /\ row'[u].clock = row[u].clock
                            /\ row'[u].deliver = row[u].deliver
        /\ \A u \in Tasks : u # t => row'[u] = row[u]
        /\ row[t].status = "absent" \/ row'[t].status = "cancelled"
    <3>1. UNCHANGED <<profile, approvals, run, tree, remote>>
      BY <1>2 DEF Create, Cancel, environment, disk
    <3>2. CASE row[t].status = "absent" /\ row' = [row EXCEPT ![t].status = "created"]
      BY <3>1, <3>2 DEF Row
    <3>3. CASE row' = [row EXCEPT ![t].status = "cancelled"]
      BY <3>1, <3>3 DEF Row
    <3> QED BY <1>2, <3>2, <3>3 DEF Create, Cancel
  <2>2. ASSUME NEW u \in Tasks PROVE TaskInv(u)'
    BY <2>1 DEF OneInv, TaskInv, Ordered, OnceEach, Before, HashTask
  <2>3. ASSUME NEW v \in Slots, Busy(v)' PROVE RunInv(v)'
    <3>1. /\ RunInv(v) /\ TaskOf(v)' = TaskOf(v) /\ SnapOf(v)' = SnapOf(v)
          /\ TaskOf(v) \in Tasks /\ Created(TaskOf(v)) /\ run'[v] = run[v]
      BY <2>1, <2>3, BusySlot DEF OneInv, Busy, At, TaskOf, SnapOf, Runs, Known, Idle
    <3>2. Open(TaskOf(v))' => row'[TaskOf(v)].status = row[TaskOf(v)].status
      BY <2>1, <3>1 DEF Open, Created, Terminal
    <3>3. AskRun(v)' /\ HashRun(v)'
      BY <2>1, <3>1 DEF RunInv, AskRun, Standing, HashRun, At
    <3>4. Current(v)' BY <2>1, <3>1, <3>2 DEF RunInv, Current, Open, InLoop
    <3> QED BY <3>3, <3>4 DEF RunInv
  <2> QED BY <2>2, <2>3 DEF OneInv
<1> QED BY <1>1, <1>2

\* A decision changes the latest pending row, and what is asked stays what is asked.
LEMMA OneOfDecide ==
    ASSUME IInv, OneInv, NEW t \in Tasks, NEW verdict \in {"approved", "rejected"},
           Decide(t, verdict)
    PROVE  OneInv'
<1> USE DEF IInv, TypeInv, TypeOK
<1>1. PICK a \in Pending(t) :
         /\ approvals' = [approvals EXCEPT ![t] =
               (@ \ {a}) \cup {[a EXCEPT !.status = verdict, !.dec = row[t].clock]}]
         /\ row' = [row EXCEPT ![t].clock = @ + 1]
         /\ UNCHANGED <<profile, run, tree, remote>>
  BY DEF Decide, environment, disk
<1>2. a \in Approval /\ a \in approvals[t] /\ a.status = "pending" /\ row[t] \in Row
  BY DEF Pending
<1> DEFINE b == [a EXCEPT !.status = verdict, !.dec = row[t].clock]
<1>3. b.action = a.action /\ b.req = a.req /\ b.dec = row[t].clock /\ b.status = verdict
  BY <1>2 DEF Approval
<1>4. approvals'[t] = (approvals[t] \ {a}) \cup {b}
      /\ \A u \in Tasks : u # t => approvals'[u] = approvals[u]
  BY <1>1
<1> HIDE DEF b
<1>5. /\ row'[t].clock = row[t].clock + 1 /\ row[t].clock \in Nat
      /\ \A u \in Tasks : u # t => row'[u] = row[u]
      /\ \A u \in Tasks : /\ row'[u].status = row[u].status /\ row'[u].hash = row[u].hash
                          /\ row'[u].deliver = row[u].deliver
  BY <1>1, <1>2 DEF Row
<1>6. ASSUME NEW u \in Tasks PROVE TaskInv(u)'
  <2>1. TaskInv(u) BY DEF OneInv
  <2>2. CASE u # t
    BY <1>1, <1>4, <1>5, <2>1, <2>2 DEF TaskInv, Ordered, OnceEach, Before, HashTask
  <2>3. CASE u = t
    <3>1. Ordered(t)'
      BY <1>2, <1>3, <1>4, <1>5, <2>1, <2>3 DEF TaskInv, Ordered, Approval
    <3>2. \A c \in approvals[t] : c.action = a.action /\ c # a => Before(c, a)
      BY <1>2, <2>1, <2>3 DEF TaskInv, OnceEach, Before
    <3>3. OnceEach(t)'
      BY <1>3, <1>4, <2>1, <2>3, <3>2 DEF TaskInv, OnceEach, Before
    <3>4. HashTask(t)'
      BY <1>1, <1>2, <1>3, <1>4, <1>5, <2>1, <2>3 DEF TaskInv, HashTask
    <3> QED BY <2>3, <3>1, <3>3, <3>4 DEF TaskInv
  <2> QED BY <2>2, <2>3
<1>7. ASSUME NEW v \in Slots, Busy(v)' PROVE RunInv(v)'
  <2>1. /\ RunInv(v) /\ TaskOf(v)' = TaskOf(v) /\ SnapOf(v)' = SnapOf(v)
        /\ TaskOf(v) \in Tasks /\ run'[v] = run[v]
    BY <1>1, <1>7, BusySlot DEF OneInv, Busy, At, TaskOf, SnapOf, Runs
  <2>2. HashRun(v)' BY <1>1, <1>5, <2>1 DEF RunInv, HashRun, At
  <2>3. Current(v)' BY <1>1, <1>5, <2>1 DEF RunInv, Current, Open, InLoop
  <2>4. AskRun(v)'
    <3>1. ASSUME At(v, "insert") PROVE Standing(TaskOf(v), run[v].ask)' = {}
      <4>1. Standing(TaskOf(v), run[v].ask) = {} BY <2>1, <3>1 DEF RunInv, AskRun
      <4>2. CASE TaskOf(v) # t BY <1>4, <2>1, <4>1, <4>2 DEF Standing
      <4>3. CASE TaskOf(v) = t
        <5>1. a.action # run[v].ask BY <1>2, <4>1, <4>3 DEF Standing
        <5> QED BY <1>3, <1>4, <2>1, <4>1, <4>3, <5>1 DEF Standing
      <4> QED BY <4>2, <4>3
    <3> QED BY <2>1, <3>1 DEF AskRun, At
  <2> QED BY <2>2, <2>3, <2>4 DEF RunInv
<1> QED BY <1>6, <1>7 DEF OneInv

\* A run that throws ends, or its loop goes on without what the tool was about.
Stumbles(w) ==
    /\ InLoop(w) /\ run[w].pc \in {"select", "insert", "settle"}
    /\ run'[w].pc = "step" /\ run'[w].snap = run[w].snap /\ run'[w].ws = run[w].ws
    /\ run'[w].ask = "none" /\ run'[w].next = "queued" /\ run'[w].stops = run[w].stops
    /\ run'[w].threw = run[w].threw
LEMMA ThrowFacts ==
    ASSUME IInv, NEW w \in Slots, Throw(w)
    PROVE  /\ run \in Runs /\ run[w] \in Run /\ TaskOf(w) \in Tasks /\ Busy(w)
           /\ HandsOn(w) /\ run'[w] \in Run /\ TaskOf(w)' = TaskOf(w)
           /\ \A v \in Slots : v # w => run'[v] = run[v]
           /\ UNCHANGED <<profile, row, approvals, calls, queue, disk>>
           /\ faults < MaxFaults /\ faults' = faults + 1
           /\ \/ Cleared(w) /\ run'[w].pc = "release" /\ run'[w].threw
              \/ Stumbles(w)
<1>1. run \in Runs /\ run[w] \in Run /\ TaskOf(w) \in Tasks /\ Busy(w)
  BY AtSound DEF Throw, At, RunPCs, Busy
<1>2. UNCHANGED <<profile, row, approvals, calls, queue, disk>> /\ faults < MaxFaults
      /\ faults' = faults + 1
  BY DEF Throw
<1>3. /\ HandsOn(w)
      /\ \/ Cleared(w) /\ run'[w].pc = "release" /\ run'[w].threw
         \/ Stumbles(w)
  <2>1. CASE EndRun(w, TRUE) BY <1>1, <2>1, EndRunClears
  <2>2. CASE ToolThrew(w) /\ InLoop(w) /\ run[w].pc \in {"select", "insert", "settle"}
    <3>1. run'[w] = [run[w] EXCEPT !.pc = "step", !.ask = "none", !.next = "queued"]
      BY <1>1, <2>2 DEF ToolThrew, Runs
    <3>2. HandsOn(w)
      BY <1>1, <2>2 DEF ToolThrew, HandsOn, Runs, Run, RunPCs, Statuses
    <3>3. Stumbles(w) BY <1>1, <2>2, <3>1 DEF Stumbles, Run
    <3> QED BY <3>2, <3>3
  <2> QED BY <2>1, <2>2 DEF Throw
<1>4. run'[w] \in Run
  <2>1. run'[w].pc # "idle" BY <1>3 DEF Stumbles
  <2> QED BY <1>3, <2>1 DEF HandsOn, Runs, Idle
<1>5. TaskOf(w)' = TaskOf(w) /\ \A v \in Slots : v # w => run'[v] = run[v]
  BY <1>1, <1>3 DEF HandsOn, TaskOf, Runs
<1> QED BY <1>1, <1>2, <1>3, <1>4, <1>5

\* A slot that takes a job, and one that leaves its own.
LEMMA TakeFacts ==
    ASSUME IInv, NEW w \in Slots, Take(w)
    PROVE  /\ \E j \in queue : run'[w] = Begin(j) /\ queue' = queue \ {j}
           /\ \A v \in Slots : v # w => run'[v] = run[v]
           /\ UNCHANGED <<environment, row, approvals, calls, disk>>
PROOF BY DEF Take, IInv, TypeInv, TypeOK

LEMMA ReleaseFacts ==
    ASSUME IInv, NEW w \in Slots, Release(w)
    PROVE  /\ run \in Runs /\ run[w] \in Run /\ TaskOf(w) \in Tasks /\ Busy(w)
           /\ ~Busy(w)'
           /\ \A v \in Slots : v # w => run'[v] = run[v]
           /\ UNCHANGED <<environment, row, approvals, calls, remote, effects>>
           /\ tree' \in [Tasks -> Tree]
           /\ \A u \in Tasks : u # TaskOf(w) => Same(u)
           /\ \/ tree' = tree
              \/ /\ row[TaskOf(w)].status \in Terminal /\ ~tree'[TaskOf(w)].dir
                 /\ ~tree'[TaskOf(w)].dirty
                 /\ tree'[TaskOf(w)].head = IF profile[TaskOf(w)].mode = "worktree"
                                            THEN tree[TaskOf(w)].head ELSE 0
<1>1. run \in Runs /\ run[w] \in Run /\ TaskOf(w) \in Tasks /\ Busy(w)
      /\ tree \in [Tasks -> Tree]
  BY AtSound DEF Release, At, RunPCs, Busy, IInv, TypeInv, TypeOK
<1>2. ~Busy(w)' /\ \A v \in Slots : v # w => run'[v] = run[v]
  BY <1>1 DEF Release, Busy, At, Idle, Runs
<1>3. Removed(TaskOf(w)) \in Tree BY <1>1 DEF Removed, Tree
<1>4. /\ UNCHANGED <<environment, row, approvals, calls, remote, effects>>
      /\ held' = held \ {TaskOf(w)}
      /\ \/ tree' = tree
         \/ /\ row[TaskOf(w)].status \in Terminal
            /\ tree' = [tree EXCEPT ![TaskOf(w)] = Removed(TaskOf(w))]
  BY DEF Release, Discards
<1>5. CASE tree' = tree BY <1>1, <1>2, <1>4, <1>5 DEF Same
<1>6. CASE /\ row[TaskOf(w)].status \in Terminal
           /\ tree' = [tree EXCEPT ![TaskOf(w)] = Removed(TaskOf(w))]
  <2>1. tree' \in [Tasks -> Tree] /\ \A u \in Tasks : u # TaskOf(w) => Same(u)
    BY <1>1, <1>3, <1>4, <1>6 DEF Same
  <2>2. /\ ~tree'[TaskOf(w)].dir /\ ~tree'[TaskOf(w)].dirty
        /\ tree'[TaskOf(w)].head = IF profile[TaskOf(w)].mode = "worktree"
                                   THEN tree[TaskOf(w)].head ELSE 0
    BY <1>1, <1>6 DEF Removed, Tree
  <2> QED BY <1>1, <1>2, <1>4, <1>6, <2>1, <2>2
<1> QED BY <1>4, <1>5, <1>6

LEMMA OneOfSlots ==
    ASSUME IInv, OneInv, NEW w \in Slots, Take(w) \/ Release(w) \/ Throw(w) \/ Crash
    PROVE  OneInv'
<1> USE DEF IInv, TypeInv, TypeOK
<1>a. ASSUME UNCHANGED <<profile, row, approvals, tree, remote>>,
             \A v \in Slots : v # w => run'[v] = run[v],
             Busy(w)' => RunInv(w)'
      PROVE  OneInv'
  <2>1. \A u \in Tasks : TaskInv(u)'
    BY <1>a DEF OneInv, TaskInv, Ordered, OnceEach, Before, HashTask
  <2>2. ASSUME NEW v \in Slots, v # w, Busy(v)' PROVE RunInv(v)'
    <3>1. RunInv(v) /\ run'[v] = run[v] BY <1>a, <2>2 DEF OneInv, Busy, At
    <3>2. TaskOf(v)' = TaskOf(v) /\ SnapOf(v)' = SnapOf(v) BY <3>1 DEF TaskOf, SnapOf
    <3> QED BY <1>a, <3>1, <3>2
            DEF RunInv, AskRun, Current, HashRun, Standing, Open, InLoop, At
  <2> QED BY <1>a, <2>1, <2>2 DEF OneInv
<1>1. CASE Take(w)
  <2>1. PICK j \in queue : run'[w] = Begin(j) BY <1>1, TakeFacts
  <2>2. run'[w].pc = "row" /\ run'[w].stops = 0 /\ run'[w].ask = "none"
        /\ run'[w].snap.deliver = "commit"
    BY <2>1 DEF Begin, EmptySnap
  <2>3. RunInv(w)' BY <2>2 DEF RunInv, AskRun, Current, HashRun, SnapOf, At, Acting
  <2> QED BY <1>1, <1>a, <2>3, TakeFacts DEF environment, disk
<1>2. CASE Release(w)
  <2>1. UNCHANGED <<profile, row, approvals, remote>>
    BY <1>2, ReleaseFacts DEF environment
  <2>2. CASE tree' = tree BY <1>2, <1>a, <2>1, <2>2, ReleaseFacts
  <2>3. CASE tree' # tree
    <3>1. /\ \A u \in Tasks : TaskInv(u)'
          /\ \A v \in Slots : Busy(v) /\ run'[v] = run[v] => RunInv(v)'
      BY <1>2, <2>1, <2>3, ReleaseFacts, OneOfRemoval DEF Same
    <3>2. \A v \in Slots : Busy(v)' => Busy(v) /\ run'[v] = run[v]
      BY <1>2, ReleaseFacts DEF Busy, At
    <3> QED BY <3>1, <3>2 DEF OneInv
  <2> QED BY <2>2, <2>3
<1>3. CASE Throw(w)
  <2>1. RunInv(w)'
    <3>1. CASE Cleared(w) /\ run'[w].pc = "release"
      <4>1. SnapOf(w)'.deliver = "commit" /\ run'[w].ask = "none" /\ run'[w].stops = 0
        BY <3>1 DEF Cleared, SnapOf, EmptySnap
      <4> QED BY <3>1, <4>1 DEF RunInv, AskRun, Current, HashRun, Acting, At
    <3>2. CASE Stumbles(w)
      <4>1. RunInv(w) /\ TaskOf(w)' = TaskOf(w) /\ UNCHANGED <<profile, row, approvals, disk>>
        BY <1>3, ThrowFacts DEF OneInv
      <4>2. SnapOf(w)' = SnapOf(w) BY <3>2 DEF Stumbles, SnapOf
      <4>3. AskRun(w)' BY <3>2 DEF Stumbles, AskRun, At
      <4>4. Current(w)'
        BY <3>2, <4>1, <4>2 DEF Stumbles, RunInv, Current, Open, InLoop, Acting
      <4>5. HashRun(w)'
        BY <3>2, <4>1, <4>2 DEF Stumbles, RunInv, HashRun, InLoop, At, disk
      <4> QED BY <4>3, <4>4, <4>5 DEF RunInv
    <3> QED BY <1>3, <3>1, <3>2, ThrowFacts
  <2> QED BY <1>3, <1>a, <2>1, ThrowFacts DEF disk
<1>4. CASE Crash
  BY <1>4 DEF Crash, OneInv, TaskInv, Ordered, OnceEach, Before, HashTask, Busy, At, Idle
<1> QED BY <1>1, <1>2, <1>3, <1>4

LEMMA OneNext == IInv /\ Alone /\ OneInv /\ [Next]_vars => OneInv'
<1> SUFFICES ASSUME IInv, Alone, OneInv, [Next]_vars PROVE OneInv' OBVIOUS
<1>1. ASSUME UNCHANGED <<profile, row, approvals, run, tree, remote>> PROVE OneInv'
  BY <1>1 DEF OneInv, TaskInv, Ordered, OnceEach, Before, HashTask, Busy, RunInv, AskRun,
              Current, HashRun, Standing, Open, InLoop, At, TaskOf, SnapOf
<1>2. CASE UNCHANGED vars BY <1>1, <1>2 DEF vars, environment, disk
<1>3. ASSUME NEW t \in Tasks, Create(t) \/ Cancel(t) \/ Reclaim(t) PROVE OneInv'
  BY <1>3, OneOfAPI
<1>4. ASSUME NEW t \in Tasks, NEW v \in {"approved", "rejected"}, Decide(t, v) PROVE OneInv'
  BY <1>4, OneOfDecide
<1>5. ASSUME NEW c \in calls, ReachQueue(c) \/ LoseCall(c) PROVE OneInv'
  BY <1>1, <1>5 DEF ReachQueue, LoseCall, environment, disk
<1>6. ASSUME NEW w \in Slots, Take(w) \/ Release(w) \/ Throw(w) PROVE OneInv'
  BY <1>6, OneOfSlots
<1>7. ASSUME NEW w \in Slots, Work(w) PROVE OneInv'
  BY <1>6, <1>7, WorkKinds, OneOfStep
<1>8. CASE Crash
  BY <1>8, OneOfSlots DEF Crash
<1> QED BY <1>2, <1>3, <1>4, <1>5, <1>6, <1>7, <1>8 DEF Next

LEMMA OneInvariant == Spec /\ []Alone => [](IInv /\ Alone /\ OneInv)
PROOF BY OneInit, OneNext, Invariant, PTL DEF Spec

\* "Asked once, and only once, for a given action on a given task", where the runs of a
\* task do not overlap: the two statements of a request are then one.
THEOREM AskedOnceAlone == Spec /\ []Alone => []AskedOnce
<1>1. OneInv => AskedOnce BY DEF OneInv, TaskInv, OnceEach, Before, AskedOnce
<1> QED BY <1>1, OneInvariant, PTL

-----------------------------------------------------------------------------
(* What is pushed, and what completes *)

\* Which step moves the remote, a task's status, and its directory.
LEMMA RemoteMoves ==
    ASSUME IInv, [Next]_vars, NEW t \in Tasks, remote'[t] # remote[t]
    PROVE  \E w \in Slots : Pushes(w) /\ Steps(w) /\ TaskOf(w) = t
<1>1. remote' # remote OBVIOUS
<1>2. PICK w \in Slots : Work(w) /\ ~Release(w)
  BY <1>1 DEF Next, Create, Cancel, Reclaim, Decide, ReachQueue, LoseCall, Take, Throw,
              Crash, Release, vars, disk
<1>3. Steps(w) BY <1>2, WorkKinds
<1>4. TaskOf(w) = t BY <1>3, StepFacts DEF Same
<1>5. Pushes(w)
  BY <1>1, <1>3
  DEF Steps, Changes, Reads, Sees, Yields, Breaks, Moves, Acquires, Asks, Selects,
      Answered, Suspends, Concludes, Commits, Saves, disk
<1> QED BY <1>3, <1>4, <1>5

LEMMA StatusMoves ==
    ASSUME IInv, [Next]_vars, NEW t \in Tasks, row'[t].status # row[t].status
    PROVE  \/ row'[t].status \in {"created", "cancelled"}
           \/ \E w \in Slots : /\ Steps(w) /\ TaskOf(w) = t
                               /\ \/ Suspends(w)
                                  \/ \E to \in Statuses : Moves(w, to) /\ row'[t].status = to
<1>1. row \in [Tasks -> Row] BY DEF IInv, TypeInv, TypeOK
<1>2. row' # row OBVIOUS
<1>3. ASSUME NEW u \in Tasks, Create(u) \/ Cancel(u)
      PROVE  row'[t].status \in {"created", "cancelled"}
  BY <1>1, <1>3 DEF Create, Cancel, Row
<1>4. ASSUME NEW u \in Tasks, NEW v \in {"approved", "rejected"}, Decide(u, v) PROVE FALSE
  BY <1>1, <1>4 DEF Decide, Row
<1>5. ASSUME NEW w \in Slots, Steps(w)
      PROVE  /\ TaskOf(w) = t
             /\ \/ Suspends(w)
                \/ \E to \in Statuses : Moves(w, to) /\ row'[t].status = to
  <2>1. TaskOf(w) = t BY <1>5, StepFacts DEF Same
  <2>2. ASSUME NEW to \in Statuses, Moves(w, to) PROVE row'[t].status = to
    BY <1>1, <2>1, <2>2 DEF Moves, Row
  <2>3. ~Asks(w) /\ ~Answered(w) /\ ~Saves(w)
    <3>1. row[t] \in Row BY <1>1
    <3>2. ASSUME Asks(w) PROVE FALSE
      <4>1. TaskOf(w) \in Tasks /\ row[TaskOf(w)] \in Row BY <2>1, <3>1
      <4>2. row'[TaskOf(w)].status = row[TaskOf(w)].status
        BY <1>1, <3>2, <4>1 DEF Asks, AsksTool, AsksPlan, AsksPush, Row
      <4> QED BY <2>1, <4>2
    <3>3. ASSUME Answered(w) PROVE FALSE BY <1>1, <1>2, <2>1, <3>1, <3>3 DEF Answered, Row
    <3>4. ASSUME Saves(w) PROVE FALSE BY <1>1, <2>1, <3>1, <3>4 DEF Saves, Row
    <3> QED BY <3>2, <3>3, <3>4
  <2>4. Suspends(w) \/ \E to \in Statuses : Moves(w, to)
    BY <1>2, <1>5, <2>3
    DEF Steps, Changes, Reads, Sees, Yields, Breaks, Acquires, Selects, Concludes, Pushes,
        Commits
  <2> QED BY <2>1, <2>2, <2>4
<1>6. \/ \E u \in Tasks : Create(u) \/ Cancel(u)
      \/ \E u \in Tasks, v \in {"approved", "rejected"} : Decide(u, v)
      \/ \E w \in Slots : Steps(w)
  <2>1. ASSUME NEW w \in Slots, Work(w) PROVE Steps(w)
    BY <1>2, <2>1, WorkKinds DEF Release
  <2> QED BY <1>2, <2>1 DEF Next, Reclaim, ReachQueue, LoseCall, Take, Throw, Crash, vars
<1> QED BY <1>3, <1>4, <1>5, <1>6

LEMMA TreeMoves ==
    ASSUME IInv, [Next]_vars, NEW t \in Tasks, tree'[t] # tree[t]
    PROVE  \/ row[t].status \in Terminal
           \/ \E w \in Slots : /\ Steps(w) /\ TaskOf(w) = t
                               /\ Acquires(w) \/ Changes(w) \/ Commits(w)
<1>1. tree \in [Tasks -> Tree] BY DEF IInv, TypeInv, TypeOK
<1>2. tree' # tree OBVIOUS
<1>3. ASSUME NEW u \in Tasks, Reclaim(u) PROVE row[t].status \in Terminal
  BY <1>1, <1>3 DEF Reclaim
<1>4. ASSUME NEW w \in Slots, Release(w) PROVE row[t].status \in Terminal
  BY <1>4, ReleaseFacts DEF Same
<1>5. ASSUME NEW w \in Slots, Steps(w)
      PROVE  TaskOf(w) = t /\ (Acquires(w) \/ Changes(w) \/ Commits(w))
  <2>1. TaskOf(w) = t BY <1>5, StepFacts DEF Same
  <2> QED
    BY <1>2, <1>5, <2>1
    DEF Steps, Reads, Sees, Yields, Breaks, Moves, Asks, Selects, Answered, Suspends,
        Concludes, Pushes, Saves, disk
<1>6. \/ \E u \in Tasks : Reclaim(u)
      \/ \E w \in Slots : Release(w) \/ Steps(w)
  <2>1. ASSUME NEW w \in Slots, Work(w) PROVE Release(w) \/ Steps(w)
    BY <2>1, WorkKinds
  <2> QED
    BY <1>2, <2>1
    DEF Next, Create, Cancel, Decide, ReachQueue, LoseCall, Take, Throw, Crash, vars, disk
<1> QED BY <1>3, <1>4, <1>5, <1>6

\* What the steps of a run that has its task to itself do for RejectionHolds and for
\* CompletedPushIsRecorded.
LEMMA PushesAsDecided ==
    ASSUME IInv, OneInv, [Next]_vars, NEW t \in Tasks, remote'[t] # remote[t]
    PROVE  LET about == {a \in Decided(t) : a.action = "git_push"} IN
           \E a \in about : a.status = "approved" /\ \A b \in about : b.dec <= a.dec
<1>1. PICK w \in Slots : Pushes(w) /\ Steps(w) /\ TaskOf(w) = t BY RemoteMoves
<1>2. SnapOf(w).grants \subseteq Granted(t)
  BY <1>1, StepFacts DEF SoundRun, SnapshotHolds
<1>3. PICK a \in approvals[t] : a.action = "git_push" /\ a.status = "approved"
  BY <1>1, <1>2 DEF Pushes, Granted
<1>4. Ordered(t) /\ OnceEach(t) /\ approvals[t] \subseteq Approval
  BY DEF OneInv, TaskInv, IInv, TypeInv, TypeOK
<1>5. ASSUME NEW b \in approvals[t], b.action = "git_push" PROVE b.dec <= a.dec
  <2>1. CASE b = a BY <1>4, <2>1 DEF Approval
  <2>2. CASE b # a
    <3>1. b.dec < a.req BY <1>3, <1>4, <1>5, <2>2 DEF OnceEach, Before
    <3>2. a.req <= a.dec BY <1>4 DEF Ordered
    <3> QED BY <1>4, <3>1, <3>2 DEF Approval
  <2> QED BY <2>1, <2>2
<1> QED BY <1>3, <1>5 DEF Decided

LEMMA CompletesAsPushed ==
    ASSUME IInv, OneInv, [Next]_vars, NEW t \in Tasks,
           row[t].status = "pushing", row'[t].status = "completed"
    PROVE  remote[t] = row[t].hash
<1>1. PICK w \in Slots :
         /\ Steps(w) /\ TaskOf(w) = t
         /\ \/ Suspends(w)
            \/ \E to \in Statuses : Moves(w, to) /\ row'[t].status = to
  BY StatusMoves
<1>2. HashRun(w) /\ SoundRun(w)
  BY <1>1, StepFacts DEF OneInv, RunInv, Busy, At, Run, RunPCs
<1>3. Moves(w, "completed")
  <2>1. row[t] \in Row /\ row \in [Tasks -> Row] BY DEF IInv, TypeInv, TypeOK
  <2>2. ~Suspends(w) BY <1>1, <2>1 DEF Suspends, Row
  <2> QED BY <1>1, <2>2
<1>4. SnapOf(w).status = "pushing" BY <1>1, <1>3 DEF Moves, Applies
<1>5. At(w, "settle") /\ run[w].next = "completed"
  BY <1>2, <1>3, <1>4 DEF Moves, Leads, SoundRun, At
<1> QED BY <1>1, <1>2, <1>4, <1>5 DEF HashRun

\* A commit leaves only while the latest decision anyone made about pushing it is an
\* approval, where the runs of a task do not overlap: a second request of a push is
\* made only after the first was rejected.
THEOREM RejectionHoldsAlone == Spec /\ []Alone => RejectionHolds
<1>1. IInv /\ OneInv /\ [Next]_vars =>
      [\A t \in Tasks : remote'[t] # remote[t] =>
          LET about == {a \in Decided(t) : a.action = "git_push"} IN
          \E a \in about : a.status = "approved" /\ \A b \in about : b.dec <= a.dec]_vars
  BY PushesAsDecided
<1> QED BY <1>1, OneInvariant, PTL DEF Spec, RejectionHolds

\* A push that completes a task left the remote at the very commit the task recorded,
\* where the runs of a task do not overlap.
THEOREM PushRecordedAlone == Spec /\ []Alone => CompletedPushIsRecorded
<1>1. IInv /\ OneInv /\ [Next]_vars =>
      [\A t \in Tasks : row[t].status = "pushing" /\ row'[t].status = "completed"
          => remote[t] = row[t].hash]_vars
  BY CompletesAsPushed
<1> QED BY <1>1, OneInvariant, PTL DEF Spec, CompletedPushIsRecorded

-----------------------------------------------------------------------------
(* What a task wrote is kept until it has left as a commit *)

Unsettled(t) == row[t].status \notin Terminal
\* Nothing but a push is still to be decided of a task that has recorded a commit.
SettledFirst == \A t \in Tasks : Unsettled(t) /\ row[t].hash # 0 =>
    \A a \in Pending(t) : a.action = "git_push"

\* The statuses of a task that has recorded its commit.
Late == {"committing", "waiting_approval", "pushing", "building"}
PushAsked(t) == \E a \in approvals[t] : a.action = "git_push"
\* Whatever is decided of a push is decided last.
PushLast(t) == \A a, b \in approvals[t] :
    a.action = "git_push" /\ b.action # "git_push" => b.dec < a.dec
\* HEAD is the commit that was recorded, and there is nothing after it.
Recorded(t) == row[t].hash # 0 =>
    /\ row[t].status \in Late
    /\ ~tree[t].dirty /\ tree[t].head = row[t].hash
    /\ row[t].status = "waiting_approval" => PushAsked(t)
WorkTask(t) ==
    /\ tree[t].dirty => tree[t].dir
    /\ profile[t].mode \notin FileModes =>
          ~tree[t].dirty /\ tree[t].head = 0 /\ remote[t] = 0
    /\ Unsettled(t) => /\ PushLast(t) /\ Recorded(t)
                       /\ ~tree[t].dir /\ profile[t].mode = "clone" => tree[t].head = 0
WorkRun(w) ==
    LET t == TaskOf(w) IN
    /\ run[w].pc \in {"select", "insert", "settle"} => SnapOf(w).status # "waiting_approval"
    /\ At(w, "hash") /\ Unsettled(t) => ~tree[t].dirty
    /\ row[t].hash # 0 /\ Unsettled(t) =>
          /\ run[w].pc \in Acting \cup {"approvals"} => SnapOf(w).status \in Late
          /\ run[w].pc \in {"select", "insert"} => run[w].ask = "git_push"
          /\ At(w, "settle") /\ run[w].next = "waiting_approval" => PushAsked(t)
          /\ AtStep(w, "waiting_approval") /\ ~SnapOf(w).pending =>
                \A d \in SnapOf(w).last : d.status = "approved" => d.action = "git_push"
WorkInv == /\ \A t \in Tasks : WorkTask(t)
           /\ \A w \in Slots : Busy(w) => WorkRun(w)

LEMMA WorkTaskFrame ==
    ASSUME NEW u \in Tasks, WorkTask(u), Same(u), profile' = profile
    PROVE  WorkTask(u)'
PROOF BY DEF WorkTask, PushLast, Recorded, Unsettled, PushAsked, Same

LEMMA WorkRunFrame ==
    ASSUME NEW v \in Slots, WorkRun(v), run'[v] = run[v], Same(TaskOf(v)),
           profile' = profile
    PROVE  WorkRun(v)'
<1>1. TaskOf(v)' = TaskOf(v) /\ SnapOf(v)' = SnapOf(v) BY DEF TaskOf, SnapOf
<1> QED BY <1>1 DEF WorkRun, Unsettled, PushAsked, Same, At, AtStep

\* What a request leaves of the row.
LEMMA AsksFrame ==
    ASSUME row \in [Tasks -> Row], NEW w \in Slots, TaskOf(w) \in Tasks, Asks(w)
    PROVE  LET t == TaskOf(w) IN
           /\ row'[t].status = row[t].status /\ row'[t].hash = row[t].hash
           /\ row'[t].clock = row[t].clock
<1>1. row[TaskOf(w)] \in Row OBVIOUS
<1>2. CASE AsksPlan(w)
  <2>1. PICK n \in Nat, d \in Deliveries :
           row' = [row EXCEPT ![TaskOf(w)].plan = n, ![TaskOf(w)].deliver = d]
    BY <1>2 DEF AsksPlan
  <2> QED BY <1>1, <2>1 DEF Row
<1>3. CASE AsksTool(w) \/ AsksPush(w) BY <1>3 DEF AsksTool, AsksPush
<1> QED BY <1>2, <1>3 DEF Asks

\* A fresh directory is taken only where there is nothing to lose.
LEMMA FreshKeeps ==
    ASSUME IInv, OneInv, WorkInv, NEW w \in Slots, Acquires(w), Steps(w),
           tree'[TaskOf(w)] # tree[TaskOf(w)]
    PROVE  LET t == TaskOf(w) IN
           /\ tree'[t].dir /\ ~tree'[t].dirty
           /\ profile[t].mode \notin FileModes => tree'[t].head = 0
           /\ Unsettled(t) => /\ ~tree[t].dirty /\ tree'[t].head >= tree[t].head
                              /\ row[t].hash # 0 => tree'[t].head = tree[t].head
<1> DEFINE t == TaskOf(w)
<1>1. /\ t \in Tasks /\ tree[t] \in Tree /\ tree \in [Tasks -> Tree] /\ remote[t] \in Nat
      /\ profile[t].mode \in Modes /\ WorkTask(t) /\ HashRun(w)
  <2>1. t \in Tasks BY StepFacts
  <2>2. profile[t] \in Profile BY <2>1, ConstantsAssumption DEF IInv, TypeInv, TypeOK
  <2>3. HashRun(w) BY StepFacts DEF OneInv, RunInv, Busy, At, Run, RunPCs
  <2> QED BY <2>1, <2>2, <2>3 DEF IInv, TypeInv, TypeOK, Profile, WorkInv
<1>2. /\ t \notin held /\ ~Reattachable(t, SnapOf(w).hash) /\ ~Refused(t)
      /\ tree'[t] = Fresh(t)
  BY <1>1 DEF Acquires
<1>3. /\ Fresh(t).dir /\ ~Fresh(t).dirty
      /\ Fresh(t).head = IF profile[t].mode = "worktree" THEN tree[t].head ELSE remote[t]
  BY DEF Fresh
<1>4. SnapOf(w).hash = row[t].hash BY <1>1 DEF Acquires, HashRun, At
<1>5. ASSUME Unsettled(t)
      PROVE  /\ ~tree[t].dirty /\ Fresh(t).head >= tree[t].head
             /\ row[t].hash # 0 => Fresh(t).head = tree[t].head
  <2>1. CASE profile[t].mode = "worktree"
    BY <1>1, <1>2, <1>3, <2>1 DEF Refused, WorkTask, Tree
  <2>2. CASE profile[t].mode = "clone"
    <3>1. ~tree[t].dir
      BY <1>1, <1>2, <1>4, <1>5, <2>2 DEF Reattachable, FileModes, WorkTask, Recorded
    <3>2. ~tree[t].dirty /\ tree[t].head = 0 /\ row[t].hash = 0
      BY <1>1, <1>5, <2>2, <3>1 DEF WorkTask, Recorded
    <3> QED BY <1>1, <1>3, <2>2, <3>2
  <2>3. CASE profile[t].mode \notin FileModes
    BY <1>1, <1>3, <1>5, <2>3 DEF WorkTask, FileModes, Recorded
  <2> QED BY <1>1, <2>1, <2>2, <2>3 DEF Modes, FileModes
<1>6. profile[t].mode \notin FileModes => Fresh(t).head = 0
  BY <1>1, <1>3 DEF WorkTask, FileModes
<1> QED BY <1>2, <1>3, <1>5, <1>6

LEMMA WorkTaskOfStep ==
    ASSUME IInv, OneInv, WorkInv, NEW w \in Slots, Steps(w)
    PROVE  WorkTask(TaskOf(w))'
<1> DEFINE t == TaskOf(w)
<1>1. /\ run[w] \in Run /\ t \in Tasks /\ t' = t /\ profile' = profile
      /\ row \in [Tasks -> Row] /\ row[t] \in Row /\ Created(t)
      /\ tree \in [Tasks -> Tree] /\ tree[t] \in Tree /\ remote \in [Tasks -> Nat]
      /\ run[w].pc \in {"hash", "deliver"} => SnapOf(w).status = "committing"
      /\ run[w].pc \in RunPCs
  BY StepFacts DEF IInv, TypeInv, TypeOK, SoundRun, Known, Idle, Run, RunPCs, TaskOf
<1>2. WorkTask(t) /\ WorkRun(w) /\ HashTask(t) /\ HashRun(w) /\ Current(w) /\ Ordered(t)
      /\ run[w].stops \in Nat
  BY <1>1 DEF OneInv, WorkInv, TaskInv, RunInv, Busy, At, Run, RunPCs
<1>3. ASSUME approvals' = approvals, row'[t].hash = row[t].hash,
             row'[t].status = row[t].status,
             tree'[t] = tree[t], remote'[t] = remote[t]
      PROVE  WorkTask(t)'
  BY <1>1, <1>2, <1>3 DEF WorkTask, PushLast, Recorded, Unsettled, PushAsked
<1>4. CASE Reads(w) \/ Sees(w) \/ Yields(w) \/ Breaks(w) \/ Selects(w) \/ Concludes(w)
  BY <1>3, <1>4 DEF Reads, Sees, Yields, Breaks, Selects, Concludes, disk
<1>5. ASSUME NEW to \in Statuses, Moves(w, to) PROVE WorkTask(t)'
  <2>1. /\ row'[t].hash = row[t].hash /\ row'[t].status = to
        /\ UNCHANGED <<approvals, tree, remote>>
    BY <1>1, <1>5 DEF Moves, Row, disk
  <2>2. row[t].status = SnapOf(w).status /\ CanTransition(SnapOf(w).status, to)
        /\ Unsettled(t) /\ run[w].pc \in {"step", "deliver", "settle"} /\ Leads(w, to)
    BY <1>5 DEF Moves, Applies, CanTransition, Unsettled
  <2>3. ASSUME row[t].hash # 0, to \notin Terminal
        PROVE  to \in Late /\ (to = "waiting_approval" => PushAsked(t))
    <3>1. SnapOf(w).status \in Late BY <1>2, <2>2, <2>3 DEF WorkRun, Acting
    <3>2. CASE SnapOf(w).status = "waiting_approval"
      <4>1. At(w, "step") BY <1>1, <1>2, <2>2, <3>2 DEF WorkRun, At
      <4>2. to = "failed" \/ \E d \in SnapOf(w).last :
                                d.status = "approved" /\ to = Resumption(d.action)
        BY <2>2, <3>2, <4>1 DEF Leads
      <4>3. to # "failed" => to = "pushing"
        BY <1>2, <2>2, <2>3, <3>2, <4>1, <4>2 DEF WorkRun, Leads, AtStep, Resumption
      <4> QED BY <2>3, <4>3 DEF Late, Terminal
    <3>3. CASE SnapOf(w).status # "waiting_approval"
      <4>1. to \in Late BY <2>2, <2>3, <3>1, <3>3 DEF Late, CanTransition, Forward, Terminal
      <4>2. to = "waiting_approval" => At(w, "settle") /\ run[w].next = "waiting_approval"
        BY <2>2, <3>3 DEF Leads, At
      <4>3. to = "waiting_approval" => PushAsked(t)
        BY <1>2, <2>2, <2>3, <4>2 DEF WorkRun
      <4> QED BY <4>1, <4>3
    <3> QED BY <3>2, <3>3
  <2> QED
    BY <1>1, <1>2, <2>1, <2>2, <2>3 DEF WorkTask, PushLast, Recorded, Unsettled, PushAsked
<1>6. CASE Acquires(w)
  <2>1. UNCHANGED <<row, approvals, remote>> BY <1>6 DEF Acquires
  <2>2. CASE tree'[t] = tree[t] BY <1>1, <1>3, <2>1, <2>2
  <2>3. CASE tree'[t] # tree[t]
    BY <1>1, <1>2, <1>6, <2>1, <2>3, FreshKeeps
    DEF WorkTask, PushLast, Recorded, Unsettled, PushAsked
  <2> QED BY <2>2, <2>3
<1>7. CASE Asks(w)
  <2>1. row'[t].hash = row[t].hash /\ row'[t].status = row[t].status
    BY <1>1, <1>7, AsksFrame
  <2> QED BY <1>3, <1>7, <2>1 DEF Asks, disk
<1>8. CASE Answered(w)
  <2>1. /\ row'[t].hash = row[t].hash /\ row'[t].status = row[t].status
        /\ tree' = tree /\ remote' = remote
    BY <1>1, <1>8 DEF Answered, Row, disk
  <2>2. CASE approvals' = approvals BY <1>3, <2>1, <2>2
  <2>3. CASE At(w, "insert") /\ approvals'[t] = approvals[t] \cup {New(w)}
    <3>1. New(w).action = run[w].ask /\ New(w).dec = row[t].clock BY DEF New
    <3>2. Unsettled(t) => PushLast(t)'
      <4> SUFFICES ASSUME Unsettled(t) PROVE PushLast(t)' OBVIOUS
      <4>1. PushLast(t) BY <1>2 DEF WorkTask
      <4>2. CASE run[w].ask = "git_push"
        BY <1>1, <1>2, <2>3, <3>1, <4>1, <4>2 DEF PushLast, Ordered
      <4>3. CASE run[w].ask # "git_push"
        <5>1. row[t].hash = 0 BY <1>2, <2>3, <4>3 DEF WorkRun, At
        <5>2. \A a \in approvals'[t] : a.action # "git_push"
          BY <1>2, <2>3, <3>1, <4>3, <5>1 DEF HashTask
        <5> QED BY <1>1, <5>2 DEF PushLast
      <4> QED BY <4>2, <4>3
    <3>3. PushAsked(t) => PushAsked(t)' BY <1>1, <2>3 DEF PushAsked
    <3> QED BY <1>1, <1>2, <2>1, <3>2, <3>3 DEF WorkTask, Recorded, Unsettled
  <2> QED BY <2>2, <2>3, StepKeeps
<1>9. CASE Suspends(w)
  <2>1. /\ row'[t].hash = row[t].hash /\ UNCHANGED <<approvals, tree, remote>>
        /\ row'[t].status = IF Applies(w) THEN "waiting_approval" ELSE row[t].status
    BY <1>1, <1>9 DEF Suspends, Row, disk
  <2>2. Unsettled(t) => row[t].hash = 0
    BY <1>2, <1>9 DEF Suspends, InLoop, WorkRun, Acting, Late, At
  <2>3. Unsettled(t)' => Unsettled(t)
    BY <1>1, <1>9, <2>1 DEF Unsettled, Suspends, InLoop, Applies, Terminal
  <2> QED BY <1>1, <1>2, <2>1, <2>2, <2>3 DEF WorkTask, PushLast, Recorded, PushAsked
<1>10. CASE Changes(w)
  <2>1. /\ tree'[t].head = tree[t].head /\ tree'[t].dir = tree[t].dir
        /\ tree'[t].dirty = (profile[t].mode \in FileModes)
        /\ profile[t].mode \in FileModes => tree[t].dir
        /\ UNCHANGED <<row, approvals, remote>>
    BY <1>1, <1>10 DEF Changes, Tree, ModeOf
  <2>2. row[t].hash # 0 /\ Unsettled(t) => FALSE
    <3> SUFFICES ASSUME row[t].hash # 0, Unsettled(t) PROVE FALSE OBVIOUS
    <3>1. SnapOf(w).status \in Late BY <1>2, <1>10 DEF Changes, WorkRun
    <3>2. profile[t].mode = "odoo_online"
      BY <1>10, <3>1 DEF Changes, InLoop, Late, ModeOf
    <3> QED BY <1>2, <3>2 DEF WorkTask, Recorded, FileModes
  <2> QED
    BY <1>1, <1>2, <2>1, <2>2 DEF WorkTask, PushLast, Recorded, Unsettled, PushAsked
<1>11. CASE Pushes(w)
  <2>1. UNCHANGED <<row, approvals, tree>> /\ remote'[t] = tree[t].head
    BY <1>1, <1>11 DEF Pushes
  <2> QED
    BY <1>1, <1>2, <2>1 DEF WorkTask, PushLast, Recorded, Unsettled, PushAsked
<1>12. CASE Commits(w)
  <2>1. UNCHANGED <<row, approvals, remote>> /\ tree[t].dir BY <1>12 DEF Commits
  <2>2. \/ tree'[t] = tree[t]
        \/ /\ tree[t].dirty /\ ~tree'[t].dirty
           /\ tree'[t].dir = tree[t].dir
    <3>1. CASE tree' = [tree EXCEPT ![t].head = @ + 1, ![t].dirty = FALSE] /\ tree[t].dirty
      BY <1>1, <3>1 DEF Tree
    <3> QED BY <1>12, <3>1 DEF Commits
  <2>3. CASE tree'[t] = tree[t] BY <1>1, <1>3, <2>1, <2>3
  <2>4. CASE tree[t].dirty /\ ~tree'[t].dirty /\ tree'[t].dir = tree[t].dir
    <3>1. profile[t].mode \in FileModes /\ (Unsettled(t) => row[t].hash = 0)
      BY <1>2, <2>4 DEF WorkTask, Recorded
    <3> QED
      BY <1>1, <1>2, <2>1, <2>4, <3>1 DEF WorkTask, PushLast, Recorded, Unsettled, PushAsked
  <2> QED BY <2>2, <2>3, <2>4
<1>13. CASE Saves(w)
  <2>1. /\ row'[t].hash = tree[t].head /\ row'[t].status = row[t].status
        /\ UNCHANGED <<approvals, tree, remote>>
    BY <1>1, <1>13 DEF Saves, Row, disk
  <2>2. Unsettled(t) => row[t].status = "committing" /\ ~tree[t].dirty
    BY <1>1, <1>2, <1>13
    DEF Saves, WorkRun, Current, Acting, Open, Unsettled, Created, InLoop, At
  <2> QED
    BY <1>1, <1>2, <2>1, <2>2
    DEF WorkTask, PushLast, Recorded, Unsettled, PushAsked, Late
<1> QED BY <1>4, <1>5, <1>6, <1>7, <1>8, <1>9, <1>10, <1>11, <1>12, <1>13 DEF Steps

LEMMA WorkRunOfStep ==
    ASSUME IInv, OneInv, WorkInv, NEW w \in Slots, Steps(w)
    PROVE  WorkRun(w)'
<1> DEFINE t == TaskOf(w)
<1>1. /\ run[w] \in Run /\ t \in Tasks /\ t' = t /\ profile' = profile
      /\ row \in [Tasks -> Row] /\ row[t] \in Row
      /\ tree \in [Tasks -> Tree] /\ tree[t] \in Tree
      /\ run[w].pc \in {"hash", "deliver"} => SnapOf(w).status = "committing"
      /\ approvals[t] \subseteq Approval
  BY StepFacts DEF IInv, TypeInv, TypeOK, SoundRun
<1>2. WorkTask(t) /\ WorkRun(w) /\ HashTask(t) /\ HashRun(w)
  BY <1>1 DEF OneInv, WorkInv, TaskInv, RunInv, Busy, At, Run, RunPCs
<1>3. ASSUME run'[w].pc \in {"row", "release"} PROVE WorkRun(w)'
  BY <1>3 DEF WorkRun, Acting, At, AtStep
<1>4. ASSUME SameSnap(w), row'[t].hash = row[t].hash, row'[t].status = row[t].status,
             approvals' = approvals,
             run[w].pc \in Acting, run'[w].pc \in Acting,
             run'[w].pc = "hash" => \/ At(w, "hash") /\ tree'[t].dirty = tree[t].dirty
                                    \/ ~tree'[t].dirty,
             run'[w].pc \in {"select", "insert", "settle"} =>
                 SnapOf(w).status # "waiting_approval",
             run'[w].pc \in {"select", "insert"} /\ row[t].hash # 0 /\ Unsettled(t) =>
                 run'[w].ask = "git_push",
             run'[w].pc = "settle" /\ run'[w].next = "waiting_approval" =>
                 At(w, "settle") /\ run[w].next = "waiting_approval",
             run'[w].pc = "step" => At(w, "step")
      PROVE  WorkRun(w)'
  BY <1>1, <1>2, <1>4 DEF WorkRun, SameSnap, SnapOf, At, AtStep, Unsettled, PushAsked
<1>5. CASE Reads(w)
  <2>1. /\ UNCHANGED <<row, approvals, tree>> /\ run'[w].pc = "approvals"
        /\ run'[w].snap.status = row[t].status
    BY <1>5 DEF Reads, disk
  <2> QED
    BY <1>1, <1>2, <2>1 DEF WorkRun, WorkTask, Recorded, Unsettled, SnapOf, At, AtStep
<1>6. CASE Sees(w)
  <2>1. /\ UNCHANGED <<row, approvals, tree>> /\ run'[w].pc = "step" /\ At(w, "approvals")
        /\ run'[w].snap.status = SnapOf(w).status /\ row[t].status = SnapOf(w).status
        /\ run'[w].snap.pending = (Pending(t) # {})
        /\ run'[w].snap.last = LastDecision(t)
    BY <1>6 DEF Sees, disk
  <2>2. ASSUME row[t].hash # 0, Unsettled(t), SnapOf(w).status = "waiting_approval",
               Pending(t) = {}, NEW d \in LastDecision(t)
        PROVE  d.action = "git_push"
    <3>1. PushLast(t) /\ PushAsked(t) BY <1>2, <2>1, <2>2 DEF WorkTask, Recorded
    <3>2. PICK a \in approvals[t] : a.action = "git_push" BY <3>1 DEF PushAsked
    <3>3. a \in Decided(t) BY <2>2, <3>2 DEF Pending, Decided
    <3>4. PICK b \in Decided(t) : /\ d = [action |-> b.action, status |-> b.status]
                                  /\ \A c \in Decided(t) : c.dec <= b.dec
      BY <2>2 DEF LastDecision
    <3>5. b \in approvals[t] /\ a.dec <= b.dec BY <3>3, <3>4 DEF Decided
    <3>6. a.dec \in Nat /\ b.dec \in Nat BY <1>1, <3>2, <3>5 DEF Approval
    <3> QED BY <3>1, <3>2, <3>4, <3>5, <3>6 DEF PushLast
  <2> QED BY <1>1, <1>2, <2>1, <2>2 DEF WorkRun, Unsettled, SnapOf, Acting, At, AtStep
<1>7. CASE Yields(w) \/ Breaks(w) BY <1>3, <1>7 DEF Yields, Breaks
<1>8. ASSUME NEW to \in Statuses, Moves(w, to) PROVE WorkRun(w)'
  BY <1>3, <1>8 DEF Moves
<1>9. CASE Acquires(w)
  BY <1>4, <1>9 DEF Acquires, Acting, At, SameAsk
<1>10. CASE Asks(w)
  <2>1. row'[t].hash = row[t].hash /\ row'[t].status = row[t].status
    BY <1>1, <1>10, AsksFrame
  <2>2. run[w].pc \in Acting /\ SnapOf(w).status \in {"implementing", "planning", "committing"}
    BY <1>1, <1>10
    DEF Asks, AsksTool, AsksPlan, AsksPush, InLoop, Acting, At, AtStep
  <2>3. row[t].hash # 0 /\ Unsettled(t) => AsksPush(w)
    BY <1>2, <1>10, <2>2
    DEF Asks, AsksTool, AsksPlan, WorkRun, InLoop, Acting, Late, At, AtStep
  <2>4. /\ SameSnap(w) /\ approvals' = approvals /\ run'[w].pc = "select"
        /\ row[t].hash # 0 /\ Unsettled(t) => run'[w].ask = "git_push"
    BY <1>10, <2>3 DEF Asks, AsksPush
  <2> QED BY <1>4, <2>1, <2>2, <2>4 DEF Acting
<1>11. CASE Selects(w)
  BY <1>2, <1>4, <1>11 DEF Selects, SameAsk, WorkRun, Acting, At
<1>12. CASE Answered(w)
  <2>1. /\ row'[t].hash = row[t].hash /\ row'[t].status = row[t].status
        /\ SameSnap(w) /\ run'[w].pc = "settle" /\ run[w].pc \in {"select", "insert"}
    BY <1>1, <1>12 DEF Answered, Row, At
  <2>2. ASSUME run[w].ask = "git_push" PROVE PushAsked(t)'
    <3>1. CASE At(w, "select") /\ Standing(t, run[w].ask) # {} /\ approvals' = approvals
      BY <1>1, <2>2, <3>1 DEF Standing, PushAsked
    <3>2. CASE (\E a \in Pending(t) : a.action = run[w].ask) /\ approvals' = approvals
      BY <1>1, <2>2, <3>2 DEF Pending, PushAsked
    <3>3. CASE approvals'[t] = approvals[t] \cup {New(w)}
      <4>1. New(w).action = "git_push" BY <2>2 DEF New
      <4> QED BY <1>1, <3>3, <4>1 DEF PushAsked
    <3>4. approvals \in [Tasks -> SUBSET Approval] BY DEF IInv, TypeInv, TypeOK
    <3> QED
      BY <1>1, <1>12, <3>1, <3>2, <3>3, <3>4 DEF Answered
  <2> QED
    BY <1>1, <1>2, <2>1, <2>2
    DEF WorkRun, SameSnap, SnapOf, Unsettled, Acting, At, AtStep
<1>13. CASE Suspends(w)
  <2>1. /\ row'[t].hash = row[t].hash /\ run'[w].pc = "step" /\ run'[w].snap = run[w].snap
        /\ SnapOf(w).status = "implementing" /\ At(w, "settle")
    BY <1>1, <1>13 DEF Suspends, Row, InLoop
  <2>2. Unsettled(t)' => Unsettled(t)
    BY <1>1, <1>13 DEF Suspends, Unsettled, InLoop, Applies, Terminal, Row
  <2>3. row[t].hash # 0 /\ Unsettled(t) => FALSE
    BY <1>2, <2>1 DEF WorkRun, Acting, Late, At
  <2> QED BY <1>1, <2>1, <2>2, <2>3 DEF WorkRun, SnapOf, At, AtStep
<1>14. CASE Concludes(w)
  <2>1. run'[w].next # "waiting_approval" /\ SnapOf(w).status # "waiting_approval"
    BY <1>14 DEF Concludes, Terminal
  <2> QED BY <1>4, <1>14, <2>1 DEF Concludes, Acting, At
<1>15. CASE Pushes(w)
  BY <1>4, <1>15 DEF Pushes, Acting, At, AtStep
<1>16. CASE Commits(w)
  <2>1. ~tree'[t].dirty
    <3>1. CASE tree' = [tree EXCEPT ![t].head = @ + 1, ![t].dirty = FALSE]
      BY <1>1, <3>1 DEF Tree
    <3> QED BY <1>16, <3>1 DEF Commits
  <2> QED BY <1>1, <1>4, <1>16, <2>1 DEF Commits, Acting, At, AtStep
<1>17. CASE Saves(w)
  <2>1. run'[w].pc = "deliver" /\ SnapOf(w)'.status = "committing"
    BY <1>1, <1>17 DEF Saves, SameSnap, SnapOf, At
  <2> QED BY <2>1 DEF WorkRun, Late, At, AtStep
<1>18. CASE Changes(w)
  <2>1. /\ UNCHANGED <<row, approvals>> /\ run'[w] = run[w]
        /\ tree'[t].dirty = (profile[t].mode \in FileModes)
        /\ InLoop(w) \/ profile[t].mode = "odoo_online"
    BY <1>1, <1>18 DEF Changes, Tree, ModeOf
  <2>2. At(w, "hash") => ~tree'[t].dirty
    BY <1>1, <2>1 DEF InLoop, FileModes, At
  <2> QED
    BY <1>1, <1>2, <2>1, <2>2 DEF WorkRun, SnapOf, At, AtStep, Unsettled, PushAsked
<1> QED BY <1>5, <1>6, <1>7, <1>8, <1>9, <1>10, <1>11, <1>12, <1>13, <1>14, <1>15, <1>16,
           <1>17, <1>18 DEF Steps

LEMMA WorkOfStep ==
    ASSUME IInv, Alone, OneInv, WorkInv, NEW w \in Slots, Steps(w)
    PROVE  WorkInv'
<1>1. ASSUME NEW u \in Tasks PROVE WorkTask(u)'
  BY <1>1, StepFacts, WorkTaskOfStep, WorkTaskFrame DEF WorkInv
<1>2. ASSUME NEW v \in Slots, Busy(v)' PROVE WorkRun(v)'
  BY <1>2, StepFacts, OtherRuns, WorkRunOfStep, WorkRunFrame DEF WorkInv
<1> QED BY <1>1, <1>2 DEF WorkInv

LEMMA WorkInit == Init => WorkInv
<1> SUFFICES ASSUME Init PROVE WorkInv OBVIOUS
<1>1. ASSUME NEW t \in Tasks PROVE WorkTask(t)
  <2>1. profile[t].ahead => profile[t].mode = "worktree"
    BY <1>1, ConstantsAssumption DEF Init, Profile
  <2> QED BY <1>1, <2>1 DEF Init, WorkTask, PushLast, Recorded, FileModes
<1> QED BY <1>1 DEF Init, WorkInv, Busy, At, Idle

\* Steps that leave rows and requests alone, and directories but of settled tasks.
LEMMA WorkAround ==
    ASSUME IInv, WorkInv, UNCHANGED <<profile, row, approvals, remote>>,
           \A u \in Tasks : \/ tree'[u] = tree[u]
                            \/ /\ ~Unsettled(u) /\ ~tree'[u].dirty
                               /\ profile[u].mode \notin FileModes => tree'[u].head = 0,
           \A v \in Slots : \/ run'[v] = run[v]
                            \/ Busy(v)' => WorkRun(v)'
    PROVE  WorkInv'
<1>1. ASSUME NEW u \in Tasks PROVE WorkTask(u)'
  BY DEF WorkInv, WorkTask, PushLast, Recorded, Unsettled, PushAsked
<1>2. ASSUME NEW v \in Slots, Busy(v)', run'[v] = run[v] PROVE WorkRun(v)'
  <2>1. WorkRun(v) /\ TaskOf(v)' = TaskOf(v) /\ SnapOf(v)' = SnapOf(v) /\ TaskOf(v) \in Tasks
    BY <1>2, BusySlot DEF WorkInv, Busy, At, TaskOf, SnapOf, IInv, TypeInv, TypeOK, Runs
  <2>2. Unsettled(TaskOf(v)) => tree'[TaskOf(v)] = tree[TaskOf(v)] BY <2>1
  <2> QED BY <1>2, <2>1, <2>2 DEF WorkRun, Unsettled, PushAsked, At, AtStep
<1> QED BY <1>1, <1>2 DEF WorkInv

LEMMA WorkOfAPI ==
    ASSUME IInv, WorkInv, NEW t \in Tasks, Create(t) \/ Cancel(t) \/ Reclaim(t)
    PROVE  WorkInv'
<1> USE DEF IInv, TypeInv, TypeOK
<1>1. CASE Reclaim(t)
  <2>1. /\ UNCHANGED <<profile, row, approvals, remote, run>> /\ ~Unsettled(t)
        /\ tree' = [tree EXCEPT ![t] = [Removed(t) EXCEPT !.stale = FALSE]]
    BY <1>1 DEF Reclaim, environment, Unsettled
  <2>2. ~Removed(t).dirty
        /\ (profile[t].mode \notin FileModes => Removed(t).head = 0)
        /\ Removed(t) \in Tree
    BY DEF Removed, Tree, FileModes
  <2>3. /\ \A u \in Tasks : u # t => tree'[u] = tree[u]
        /\ ~tree'[t].dirty
        /\ (profile[t].mode \notin FileModes => tree'[t].head = 0)
    BY <2>1, <2>2 DEF Tree
  <2> QED BY <2>1, <2>3, WorkAround
<1>2. CASE Create(t) \/ Cancel(t)
  <2>1. /\ UNCHANGED <<profile, approvals, run, tree, remote>>
        /\ \A u \in Tasks : u # t => row'[u] = row[u]
        /\ row'[t].hash = row[t].hash
        /\ \/ row[t].status = "absent" /\ row'[t].status = "created"
           \/ row'[t].status = "cancelled"
    <3>1. UNCHANGED <<profile, approvals, run, tree, remote>>
      BY <1>2 DEF Create, Cancel, environment, disk
    <3>2. CASE row[t].status = "absent" /\ row' = [row EXCEPT ![t].status = "created"]
      BY <3>1, <3>2 DEF Row
    <3>3. CASE row' = [row EXCEPT ![t].status = "cancelled"]
      BY <3>1, <3>3 DEF Row
    <3> QED BY <1>2, <3>2, <3>3 DEF Create, Cancel
  <2>2. ASSUME NEW u \in Tasks PROVE WorkTask(u)'
    <3>1. CASE u # t
      BY <2>1, <3>1 DEF WorkInv, WorkTask, PushLast, Recorded, Unsettled, PushAsked
    <3>2. CASE u = t
      BY <2>1, <3>2
      DEF WorkInv, WorkTask, PushLast, Recorded, Unsettled, PushAsked, Terminal, Late
    <3> QED BY <3>1, <3>2
  <2>3. ASSUME NEW v \in Slots, Busy(v)' PROVE WorkRun(v)'
    <3>1. /\ WorkRun(v) /\ TaskOf(v)' = TaskOf(v) /\ SnapOf(v)' = SnapOf(v)
          /\ TaskOf(v) \in Tasks /\ Created(TaskOf(v)) /\ run'[v] = run[v]
      BY <2>1, <2>3, BusySlot DEF WorkInv, Busy, At, TaskOf, SnapOf, Runs, Known, Idle
    <3>2. Unsettled(TaskOf(v))' => Unsettled(TaskOf(v)) /\ row'[TaskOf(v)] = row[TaskOf(v)]
      BY <2>1, <3>1 DEF Unsettled, Created, Terminal
    <3> QED BY <2>1, <3>1, <3>2 DEF WorkRun, PushAsked, At, AtStep
  <2> QED BY <2>2, <2>3 DEF WorkInv
<1> QED BY <1>1, <1>2

\* What is decided of a task with a recorded commit is decided of its push.
LEMMA WorkOfDecide ==
    ASSUME IInv, OneInv, WorkInv, SettledFirst, NEW t \in Tasks,
           NEW verdict \in {"approved", "rejected"}, Decide(t, verdict)
    PROVE  WorkInv'
<1> USE DEF IInv, TypeInv, TypeOK
<1>1. PICK a \in Pending(t) :
         /\ approvals' = [approvals EXCEPT ![t] =
               (@ \ {a}) \cup {[a EXCEPT !.status = verdict, !.dec = row[t].clock]}]
         /\ row' = [row EXCEPT ![t].clock = @ + 1]
         /\ UNCHANGED <<profile, run, tree, remote>>
  BY DEF Decide, environment, disk
<1>2. a \in Approval /\ a \in approvals[t] /\ a.status = "pending" /\ row[t] \in Row
  BY DEF Pending
<1> DEFINE b == [a EXCEPT !.status = verdict, !.dec = row[t].clock]
<1>3. b.action = a.action /\ b.dec = row[t].clock
  BY <1>2 DEF Approval
<1>4. approvals'[t] = (approvals[t] \ {a}) \cup {b}
      /\ \A u \in Tasks : u # t => approvals'[u] = approvals[u]
  BY <1>1
<1> HIDE DEF b
<1>5. \A u \in Tasks : row'[u].status = row[u].status /\ row'[u].hash = row[u].hash
  BY <1>1, <1>2 DEF Row
<1>6. \A u \in Tasks : PushAsked(u) => PushAsked(u)'
  BY <1>2, <1>3, <1>4 DEF PushAsked
<1>7. ASSUME NEW u \in Tasks PROVE WorkTask(u)'
  <2>1. Unsettled(u) => PushLast(u)'
    <3>1. CASE u # t BY <1>4, <3>1 DEF WorkInv, WorkTask, PushLast
    <3>2. ASSUME u = t, Unsettled(t) PROVE PushLast(t)'
      <4>1. PushLast(t) /\ Ordered(t) /\ HashTask(t)
        BY <3>2 DEF WorkInv, WorkTask, OneInv, TaskInv
      <4>2. CASE a.action = "git_push"
        BY <1>3, <1>4, <4>1, <4>2 DEF PushLast, Ordered
      <4>3. CASE a.action # "git_push"
        <5>1. row[t].hash = 0 BY <3>2, <4>3 DEF SettledFirst
        <5>2. \A c \in approvals'[t] : c.action # "git_push"
          BY <1>3, <1>4, <4>1, <4>3, <5>1 DEF HashTask
        <5> QED BY <5>2 DEF PushLast
      <4> QED BY <4>2, <4>3
    <3> QED BY <3>1, <3>2
  <2> QED BY <1>1, <1>5, <1>6, <2>1 DEF WorkInv, WorkTask, Recorded, Unsettled
<1>8. ASSUME NEW v \in Slots, Busy(v)' PROVE WorkRun(v)'
  <2>1. /\ WorkRun(v) /\ TaskOf(v)' = TaskOf(v) /\ SnapOf(v)' = SnapOf(v)
        /\ TaskOf(v) \in Tasks /\ run'[v] = run[v]
    BY <1>1, <1>8, BusySlot DEF WorkInv, Busy, At, TaskOf, SnapOf, Runs
  <2> QED BY <1>1, <1>5, <1>6, <2>1 DEF WorkRun, Unsettled, At, AtStep
<1> QED BY <1>7, <1>8 DEF WorkInv

LEMMA WorkOfSlots ==
    ASSUME IInv, WorkInv, NEW w \in Slots, Take(w) \/ Release(w) \/ Throw(w) \/ Crash
    PROVE  WorkInv'
<1>1. CASE Take(w)
  <2>1. PICK j \in queue : run'[w] = Begin(j) BY <1>1, TakeFacts
  <2>2. run'[w].pc = "row" BY <2>1 DEF Begin
  <2>3. WorkRun(w)' BY <2>2 DEF WorkRun, Acting, At, AtStep
  <2> QED BY <1>1, <2>3, TakeFacts, WorkAround DEF environment, disk
<1>2. CASE Release(w)
  <2>1. /\ UNCHANGED <<profile, row, approvals, remote>>
        /\ \A v \in Slots : run'[v] = run[v] \/ ~Busy(v)'
    BY <1>2, ReleaseFacts DEF environment
  <2>2. \A u \in Tasks : \/ tree'[u] = tree[u]
                         \/ /\ ~Unsettled(u) /\ ~tree'[u].dirty
                            /\ profile[u].mode \notin FileModes => tree'[u].head = 0
    BY <1>2, ReleaseFacts DEF Same, Unsettled, FileModes
  <2> QED BY <2>1, <2>2, WorkAround
<1>3. CASE Throw(w)
  <2>1. UNCHANGED <<profile, row, approvals, tree, remote>> /\ TaskOf(w)' = TaskOf(w)
    BY <1>3, ThrowFacts DEF disk
  <2>2. WorkRun(w)'
    <3>1. CASE run'[w].pc = "release" BY <3>1 DEF WorkRun, Acting, At, AtStep
    <3>2. CASE Stumbles(w)
      <4>1. WorkRun(w) /\ SnapOf(w)' = SnapOf(w)
        BY <1>3, <3>2, ThrowFacts DEF WorkInv, Stumbles, SnapOf
      <4>2. row[TaskOf(w)].hash # 0 /\ Unsettled(TaskOf(w)) => FALSE
        BY <3>2, <4>1 DEF Stumbles, InLoop, WorkRun, Acting, Late
      <4> QED BY <2>1, <3>2, <4>1, <4>2 DEF Stumbles, WorkRun, Unsettled, At, AtStep
    <3> QED BY <1>3, <3>1, <3>2, ThrowFacts
  <2> QED BY <1>3, <2>1, <2>2, ThrowFacts, WorkAround
<1>4. CASE Crash
  <2>1. UNCHANGED <<profile, row, approvals, tree, remote>> /\ \A v \in Slots : ~Busy(v)'
    BY <1>4 DEF Crash, Busy, At, Idle
  <2> QED BY <2>1, WorkAround
<1> QED BY <1>1, <1>2, <1>3, <1>4

LEMMA WorkNext == IInv /\ Alone /\ OneInv /\ WorkInv /\ SettledFirst /\ [Next]_vars => WorkInv'
<1> SUFFICES ASSUME IInv, Alone, OneInv, WorkInv, SettledFirst, [Next]_vars PROVE WorkInv'
  OBVIOUS
<1>1. ASSUME UNCHANGED <<profile, row, approvals, run, tree, remote>> PROVE WorkInv'
  BY <1>1, WorkAround
<1>2. CASE UNCHANGED vars BY <1>1, <1>2 DEF vars, environment, disk
<1>3. ASSUME NEW t \in Tasks, Create(t) \/ Cancel(t) \/ Reclaim(t) PROVE WorkInv'
  BY <1>3, WorkOfAPI
<1>4. ASSUME NEW t \in Tasks, NEW v \in {"approved", "rejected"}, Decide(t, v) PROVE WorkInv'
  BY <1>4, WorkOfDecide
<1>5. ASSUME NEW c \in calls, ReachQueue(c) \/ LoseCall(c) PROVE WorkInv'
  BY <1>1, <1>5 DEF ReachQueue, LoseCall, environment, disk
<1>6. ASSUME NEW w \in Slots, Take(w) \/ Release(w) \/ Throw(w) PROVE WorkInv'
  BY <1>6, WorkOfSlots
<1>7. ASSUME NEW w \in Slots, Work(w) PROVE WorkInv'
  BY <1>6, <1>7, WorkKinds, WorkOfStep
<1>8. CASE Crash
  BY <1>8, WorkOfSlots DEF Crash
<1> QED BY <1>2, <1>3, <1>4, <1>5, <1>6, <1>7, <1>8 DEF Next

\* What a step takes from a directory of a task that has not settled: a commit's worth.
LEMMA WorkOfTree ==
    ASSUME IInv, OneInv, WorkInv, [Next]_vars, NEW t \in Tasks, row[t].status \notin Terminal
    PROVE  /\ tree'[t].head >= tree[t].head
           /\ tree[t].dirty /\ ~tree'[t].dirty => tree'[t].head = tree[t].head + 1
<1>1. /\ tree \in [Tasks -> Tree] /\ tree[t] \in Tree /\ tree[t].head \in Nat
  BY DEF IInv, TypeInv, TypeOK, Tree
<1>2. CASE tree'[t] = tree[t] BY <1>1, <1>2
<1>3. CASE tree'[t] # tree[t]
  <2>1. PICK w \in Slots : /\ Steps(w) /\ TaskOf(w) = t
                           /\ Acquires(w) \/ Changes(w) \/ Commits(w)
    BY <1>3, TreeMoves
  <2>2. CASE Acquires(w)
    BY <1>3, <2>1, <2>2, FreshKeeps DEF Unsettled
  <2>3. CASE Changes(w)
    <3>1. /\ tree'[t].head = tree[t].head
          /\ profile[t].mode \in FileModes => tree'[t].dirty
      BY <1>1, <2>1, <2>3 DEF Changes, Tree, ModeOf
    <3>2. tree[t].dirty => profile[t].mode \in FileModes BY DEF WorkInv, WorkTask
    <3> QED BY <1>1, <3>1, <3>2
  <2>4. CASE Commits(w)
    <3>1. tree' = [tree EXCEPT ![t].head = @ + 1, ![t].dirty = FALSE]
      BY <1>3, <2>1, <2>4 DEF Commits
    <3>2. tree'[t].head = tree[t].head + 1 BY <1>1, <3>1 DEF Tree
    <3> QED BY <1>1, <3>2
  <2> QED BY <2>1, <2>2, <2>3, <2>4
<1> QED BY <1>2, <1>3

\* What a task wrote leaves its directory only as a commit, where the runs of a task do
\* not overlap and nothing but the push is still to be decided of a task that has
\* recorded its commit.  Without the second condition a tool's late approval would
\* send the task to implement again, past the commit it can find its directory by.
THEOREM WorkKeptAlone == Spec /\ []Alone /\ []SettledFirst => WorkKept
<1>1. Spec /\ []Alone /\ []SettledFirst => [](IInv /\ OneInv /\ WorkInv)
  <2>1. IInv /\ Alone /\ OneInv /\ SettledFirst /\ WorkInv /\ [Next]_vars => WorkInv'
    BY WorkNext
  <2> QED BY <2>1, WorkInit, OneInvariant, PTL DEF Spec
<1>2. IInv /\ OneInv /\ WorkInv /\ [Next]_vars =>
      [\A t \in Tasks : row[t].status \notin Terminal =>
          /\ tree'[t].head >= tree[t].head
          /\ tree[t].dirty /\ ~tree'[t].dirty => tree'[t].head = tree[t].head + 1]_vars
  BY WorkOfTree
<1> QED BY <1>1, <1>2, PTL DEF Spec, WorkKept

-----------------------------------------------------------------------------
(* Tasks whose file tools meet no gate are settled first *)

Ungated == \A t \in Tasks : profile[t].mode \in FileModes => profile[t].gates = {}

\* A plan is decided before anything is committed, and a task that works on no files
\* records no commit.
PlanTask(t) ==
    /\ profile[t].mode \in FileModes =>
          \A a \in approvals[t] : a.action \in {"implementation_plan", "git_push"}
    /\ profile[t].mode \notin FileModes => row[t].hash = 0
    /\ Unsettled(t) /\ (\E a \in Pending(t) : a.action = "implementation_plan") =>
          row[t].status \in {"planning", "waiting_approval"} /\ row[t].hash = 0
PlanRun(w) ==
    LET t == TaskOf(w) IN
    /\ profile[t].mode \in FileModes =>
          run[w].ask \in {"none", "implementation_plan", "git_push"}
    /\ run[w].pc \in {"select", "insert"} /\ run[w].ask = "implementation_plan" =>
          SnapOf(w).status = "planning"
    /\ AtStep(w, "waiting_approval") /\ ~SnapOf(w).pending => Pending(t) = {}
PlanInv == /\ Ungated
           /\ \A t \in Tasks : PlanTask(t)
           /\ \A w \in Slots : Busy(w) => PlanRun(w)

LEMMA PlanSettles == IInv /\ PlanInv => SettledFirst
<1> SUFFICES ASSUME IInv, PlanInv, NEW t \in Tasks, Unsettled(t), row[t].hash # 0,
                    NEW a \in Pending(t)
             PROVE  a.action = "git_push"
  BY DEF SettledFirst
<1>1. PlanTask(t) /\ a \in approvals[t] BY DEF PlanInv, Pending
<1> QED BY <1>1 DEF PlanTask

LEMMA PlanTaskFrame ==
    ASSUME NEW u \in Tasks, PlanTask(u), profile' = profile, row'[u].hash = row[u].hash,
           row'[u].status = row[u].status \/ ~Unsettled(u)', approvals'[u] = approvals[u]
    PROVE  PlanTask(u)'
PROOF BY DEF PlanTask, Unsettled, Pending

LEMMA PlanRunFrame ==
    ASSUME NEW v \in Slots, PlanRun(v), run'[v] = run[v], profile' = profile,
           approvals'[TaskOf(v)] = approvals[TaskOf(v)]
    PROVE  PlanRun(v)'
<1>1. TaskOf(v)' = TaskOf(v) /\ SnapOf(v)' = SnapOf(v) BY DEF TaskOf, SnapOf
<1> QED BY <1>1 DEF PlanRun, Pending, At, AtStep

LEMMA PlanTaskOfStep ==
    ASSUME IInv, OneInv, WorkInv, PlanInv, NEW w \in Slots, Steps(w),
           NEW t \in Tasks, t = TaskOf(w)
    PROVE  PlanTask(t)'
<1>1. /\ run[w] \in Run /\ profile' = profile
      /\ row \in [Tasks -> Row] /\ row[t] \in Row /\ Created(t)
      /\ approvals \in [Tasks -> SUBSET Approval] /\ approvals[t] \subseteq Approval
      /\ run[w].pc \in {"hash", "deliver"} => SnapOf(w).status = "committing"
      /\ t = TaskOf(w)' /\ t = run[w].job.task
  BY StepFacts
  DEF IInv, TypeInv, TypeOK, SoundRun, Known, Idle, Run, RunPCs, TaskOf
<1>2. PlanTask(t) /\ PlanRun(w) /\ WorkTask(t) /\ WorkRun(w) /\ Current(w) /\ HashRun(w)
  BY <1>1 DEF PlanInv, OneInv, WorkInv, RunInv, Busy, At, Run, RunPCs
<1>3. ASSUME row'[t].hash = row[t].hash, row'[t].status = row[t].status,
             approvals'[t] = approvals[t]
      PROVE  PlanTask(t)'
  BY <1>1, <1>2, <1>3, PlanTaskFrame
<1>4. ASSUME NEW to \in Statuses, Moves(w, to) PROVE PlanTask(t)'
  <2>1. /\ row'[t].hash = row[t].hash /\ row'[t].status = to /\ approvals' = approvals
        /\ row[t].status = SnapOf(w).status /\ CanTransition(row[t].status, to)
        /\ run[w].pc \in {"step", "deliver", "settle"} /\ Leads(w, to)
    BY <1>1, <1>4 DEF Moves, Row, Applies
  <2>2. Unsettled(t) BY <2>1 DEF CanTransition, Unsettled
  <2>3. ASSUME NEW a \in Pending(t), a.action = "implementation_plan", to \notin Terminal
        PROVE  row[t].hash = 0 /\ to = "waiting_approval"
    <3>1. row[t].hash = 0 /\ row[t].status \in {"planning", "waiting_approval"}
      BY <1>2, <2>2, <2>3 DEF PlanTask
    <3>2. CASE row[t].status = "planning"
      BY <2>1, <2>3, <3>1, <3>2 DEF CanTransition, Forward, Terminal
    <3>3. CASE row[t].status = "waiting_approval"
      <4>1. run[w].pc = "step"
        BY <1>1, <1>2, <2>1, <3>3 DEF WorkRun
      <4>2. ~SnapOf(w).pending
        BY <2>1, <2>3, <3>3, <4>1 DEF Leads, At, Terminal
      <4> QED BY <1>2, <2>1, <2>3, <3>3, <4>1, <4>2 DEF PlanRun, AtStep, At
    <3> QED BY <3>1, <3>2, <3>3
  <2>4. Pending(t)' = Pending(t) BY <2>1 DEF Pending
  <2> QED BY <1>1, <1>2, <2>1, <2>3, <2>4 DEF PlanTask, Unsettled
<1>5. CASE Asks(w)
  <2>1. row'[t].hash = row[t].hash /\ row'[t].status = row[t].status
    BY <1>1, <1>5, AsksFrame
  <2> QED BY <1>3, <1>5, <2>1 DEF Asks
<1>6. CASE Answered(w)
  <2>1. row'[t].hash = row[t].hash /\ row'[t].status = row[t].status
    BY <1>1, <1>6 DEF Answered, Row
  <2>2. CASE approvals'[t] = approvals[t] BY <1>3, <2>1, <2>2
  <2>3. CASE approvals'[t] = approvals[t] \cup {New(w)} /\ At(w, "insert")
    <3>1. New(w).action = run[w].ask /\ run[w].ask # "none" BY <1>6 DEF New, Answered
    <3>2. ASSUME run[w].ask = "implementation_plan", Unsettled(t)
          PROVE  row[t].status = "planning" /\ row[t].hash = 0
      <4>1. SnapOf(w).status = "planning" BY <1>2, <2>3, <3>2 DEF PlanRun, At
      <4>2. row[t].status = "planning"
        BY <1>1, <1>2, <2>3, <3>2, <4>1
        DEF Current, Acting, At, Open, Unsettled, Created, InLoop
      <4> QED BY <1>2, <3>2, <4>2 DEF WorkTask, Recorded, Late
    <3>3. \A a \in Pending(t)' : a \in Pending(t) \/ a = New(w) BY <2>3 DEF Pending
    <3> HIDE DEF New
    <3>4. profile[t].mode \in FileModes =>
              \A a \in approvals'[t] : a.action \in {"implementation_plan", "git_push"}
      BY <1>2, <2>3, <3>1 DEF PlanTask, PlanRun
    <3> QED BY <1>1, <1>2, <2>1, <3>1, <3>2, <3>3, <3>4 DEF PlanTask, Unsettled
  <2> QED BY <1>1, <1>6, <2>2, <2>3 DEF Answered
<1>7. CASE Suspends(w)
  <2>1. /\ row'[t].hash = row[t].hash /\ approvals' = approvals
        /\ \/ row'[t].status = row[t].status
           \/ /\ row'[t].status = "waiting_approval" /\ row[t].status = "implementing"
    BY <1>1, <1>7 DEF Suspends, Row, Applies, InLoop
  <2>2. Pending(t)' = Pending(t) BY <2>1 DEF Pending
  <2> QED BY <1>1, <1>2, <1>3, <2>1, <2>2 DEF PlanTask, Unsettled, Terminal
<1>8. CASE Saves(w)
  <2>1. /\ row'[t].hash = tree[t].head /\ row'[t].status = row[t].status
        /\ approvals' = approvals /\ At(w, "hash")
    BY <1>1, <1>8 DEF Saves, Row
  <2>2. profile[t].mode \notin FileModes => row'[t].hash = 0 BY <1>2, <2>1 DEF WorkTask
  <2>3. Unsettled(t) => row[t].status = "committing"
    BY <1>1, <1>2, <2>1 DEF Current, Acting, At, Open, Unsettled, Created, InLoop
  <2>4. Pending(t)' = Pending(t) BY <2>1 DEF Pending
  <2> QED BY <1>1, <1>2, <2>1, <2>2, <2>3, <2>4 DEF PlanTask, Unsettled
<1>9. ASSUME row' = row, approvals' = approvals PROVE PlanTask(t)' BY <1>3, <1>9
<1> QED
  BY <1>1, <1>4, <1>5, <1>6, <1>7, <1>8, <1>9
  DEF Steps, Changes, Reads, Sees, Yields, Breaks, Acquires, Selects, Concludes, Pushes,
      Commits

LEMMA PlanRunOfStep ==
    ASSUME IInv, OneInv, WorkInv, PlanInv, NEW w \in Slots, Steps(w)
    PROVE  PlanRun(w)'
<1> DEFINE t == TaskOf(w)
<1>1. /\ run[w] \in Run /\ run'[w] \in Run /\ t \in Tasks /\ t' = t /\ profile' = profile
      /\ PlanRun(w) /\ WorkRun(w) /\ Ungated /\ Current(w)
      /\ approvals \in [Tasks -> SUBSET Approval]
  BY StepFacts
  DEF PlanInv, OneInv, WorkInv, RunInv, Busy, At, Run, RunPCs, IInv, TypeInv, TypeOK
<1>2. ASSUME run'[w].pc \in {"row", "release"}, run'[w].ask = "none" PROVE PlanRun(w)'
  BY <1>2 DEF PlanRun, At, AtStep
<1>3. ASSUME run'[w].ask = run[w].ask, run'[w].pc \notin {"select", "insert"},
             ~AtStep(w, "waiting_approval")'
      PROVE  PlanRun(w)'
  BY <1>1, <1>3 DEF PlanRun, At, AtStep
<1>4. CASE Yields(w) \/ Breaks(w) \/ \E to \in Statuses : Moves(w, to)
  BY <1>2, <1>4 DEF Yields, Breaks, Moves, Cleared
<1>5. CASE Reads(w)
  BY <1>3, <1>5 DEF Reads, SameAsk, At, AtStep
<1>6. CASE Sees(w)
  <2>1. /\ run'[w].pc = "step" /\ run'[w].snap.pending = (Pending(t) # {})
        /\ approvals' = approvals /\ run'[w].ask = run[w].ask
    BY <1>6 DEF Sees, SameAsk
  <2>2. Pending(t)' = Pending(t) BY <1>1, <2>1 DEF Pending
  <2> QED BY <1>1, <2>1, <2>2 DEF PlanRun, SnapOf, At, AtStep
<1>7. CASE Acquires(w)
  BY <1>3, <1>7 DEF Acquires, SameSnap, SameAsk, At, AtStep, SnapOf, Working
<1>8. CASE Asks(w)
  <2>1. /\ run'[w].pc = "select" /\ SnapOf(w)' = SnapOf(w)
    BY <1>8 DEF Asks, SameSnap, SnapOf
  <2>2. /\ profile[t].mode \in FileModes => run'[w].ask \in {"implementation_plan", "git_push"}
        /\ run'[w].ask = "implementation_plan" => SnapOf(w).status = "planning"
    BY <1>1, <1>8 DEF Asks, AsksTool, AsksPlan, AsksPush, Ungated, AtStep, ToolGates
  <2> QED BY <1>1, <2>1, <2>2 DEF PlanRun, At, AtStep
<1>9. CASE Selects(w)
  BY <1>1, <1>9 DEF Selects, PlanRun, SameSnap, SameAsk, SnapOf, At, AtStep
<1>10. CASE Answered(w)
  BY <1>10 DEF Answered, PlanRun, At, AtStep
<1>11. CASE Suspends(w)
  BY <1>3, <1>11 DEF Suspends, SameAsk, At, AtStep, SnapOf, InLoop
<1>12. CASE Concludes(w) \/ Pushes(w) \/ Commits(w) \/ Saves(w)
  BY <1>3, <1>12 DEF Concludes, Pushes, Commits, Saves, SameAsk, At, AtStep
<1>13. CASE Changes(w)
  <2>1. run' = run /\ approvals' = approvals BY <1>13 DEF Changes
  <2> QED BY <1>1, <2>1, PlanRunFrame
<1> QED BY <1>4, <1>5, <1>6, <1>7, <1>8, <1>9, <1>10, <1>11, <1>12, <1>13 DEF Steps

LEMMA PlanOfStep ==
    ASSUME IInv, Alone, OneInv, WorkInv, PlanInv, NEW w \in Slots, Steps(w)
    PROVE  PlanInv'
<1>1. Ungated' BY StepFacts DEF PlanInv, Ungated
<1>2. ASSUME NEW u \in Tasks PROVE PlanTask(u)'
  BY <1>2, StepFacts, PlanTaskOfStep, PlanTaskFrame DEF PlanInv, Same
<1>3. ASSUME NEW v \in Slots, Busy(v)' PROVE PlanRun(v)'
  BY <1>3, StepFacts, OtherRuns, PlanRunOfStep, PlanRunFrame DEF PlanInv, Same
<1> QED BY <1>1, <1>2, <1>3 DEF PlanInv

LEMMA PlanInit ==
    ASSUME \A p \in Profiles : p.mode \in FileModes => p.gates = {}
    PROVE  Init => PlanInv
<1> SUFFICES ASSUME Init PROVE PlanInv OBVIOUS
<1> QED BY DEF Init, PlanInv, Ungated, PlanTask, Pending, Busy, At, Idle

\* Steps that leave recorded commits and requests alone.
LEMMA PlanAround ==
    ASSUME IInv, PlanInv, profile' = profile,
           \A u \in Tasks : /\ row'[u].hash = row[u].hash /\ approvals'[u] = approvals[u]
                            /\ row'[u].status = row[u].status \/ ~Unsettled(u)'
                                                              \/ approvals[u] = {},
           \A v \in Slots : run'[v] = run[v] \/ (Busy(v)' => PlanRun(v)')
    PROVE  PlanInv'
<1>1. ASSUME NEW u \in Tasks PROVE PlanTask(u)'
  <2>1. CASE approvals[u] = {}
    <3>1. Pending(u)' = {} BY <2>1 DEF Pending
    <3> QED BY <2>1, <3>1 DEF PlanInv, PlanTask
  <2> QED BY <2>1, PlanTaskFrame DEF PlanInv
<1>2. ASSUME NEW v \in Slots, Busy(v)' PROVE PlanRun(v)'
  <2>1. CASE run'[v] = run[v]
    <3>1. Busy(v) /\ TaskOf(v) \in Tasks
      BY <1>2, <2>1, BusySlot DEF Busy, At, IInv, TypeInv, TypeOK, Runs
    <3> QED BY <2>1, <3>1, PlanRunFrame DEF PlanInv
  <2> QED BY <1>2, <2>1
<1> QED BY <1>1, <1>2 DEF PlanInv, Ungated

LEMMA PlanOfDecide ==
    ASSUME IInv, PlanInv, NEW t \in Tasks, NEW verdict \in {"approved", "rejected"},
           Decide(t, verdict)
    PROVE  PlanInv'
<1> USE DEF IInv, TypeInv, TypeOK
<1>1. PICK a \in Pending(t) :
         /\ approvals' = [approvals EXCEPT ![t] =
               (@ \ {a}) \cup {[a EXCEPT !.status = verdict, !.dec = row[t].clock]}]
         /\ row' = [row EXCEPT ![t].clock = @ + 1]
         /\ UNCHANGED <<profile, run>>
  BY DEF Decide, environment
<1>2. a \in Approval /\ a \in approvals[t] /\ row[t] \in Row
  BY DEF Pending
<1> DEFINE b == [a EXCEPT !.status = verdict, !.dec = row[t].clock]
<1>3. b.action = a.action /\ b.status # "pending" BY <1>2 DEF Approval
<1>4. approvals'[t] = (approvals[t] \ {a}) \cup {b}
      /\ \A u \in Tasks : u # t => approvals'[u] = approvals[u]
  BY <1>1
<1> HIDE DEF b
<1>5. /\ \A u \in Tasks : row'[u].status = row[u].status /\ row'[u].hash = row[u].hash
      /\ \A u \in Tasks : Pending(u)' \subseteq Pending(u)
  BY <1>1, <1>2, <1>3, <1>4 DEF Row, Pending
<1>6. ASSUME NEW u \in Tasks PROVE PlanTask(u)'
  <2>1. \A c \in approvals'[u] : \E d \in approvals[u] : c.action = d.action
    BY <1>2, <1>3, <1>4
  <2> QED BY <1>1, <1>5, <2>1 DEF PlanInv, PlanTask, Unsettled
<1>7. ASSUME NEW v \in Slots, Busy(v)' PROVE PlanRun(v)'
  <2>1. /\ PlanRun(v) /\ TaskOf(v)' = TaskOf(v) /\ SnapOf(v)' = SnapOf(v)
        /\ TaskOf(v) \in Tasks /\ run'[v] = run[v]
    BY <1>1, <1>7, BusySlot DEF PlanInv, Busy, At, TaskOf, SnapOf, Runs
  <2> QED BY <1>1, <1>5, <2>1 DEF PlanRun, At, AtStep
<1> QED BY <1>1, <1>6, <1>7 DEF PlanInv, Ungated

LEMMA PlanNext == IInv /\ Alone /\ OneInv /\ WorkInv /\ PlanInv /\ [Next]_vars => PlanInv'
<1> SUFFICES ASSUME IInv, Alone, OneInv, WorkInv, PlanInv, [Next]_vars PROVE PlanInv' OBVIOUS
<1>1. ASSUME UNCHANGED <<profile, row, approvals, run>> PROVE PlanInv'
  BY <1>1, PlanAround
<1>2. CASE UNCHANGED vars BY <1>1, <1>2 DEF vars, environment
<1>3. ASSUME NEW t \in Tasks, Create(t) \/ Cancel(t) \/ Reclaim(t) PROVE PlanInv'
  <2>1. CASE Reclaim(t) BY <1>1, <2>1 DEF Reclaim, environment
  <2>2. CASE Create(t)
    <3>1. /\ \A u \in Tasks : u # t => row'[u] = row[u]
          /\ row'[t].hash = row[t].hash /\ approvals[t] = {}
          /\ UNCHANGED <<profile, approvals, run>>
      BY <2>2 DEF Create, environment, Row, IInv, TypeInv, TypeOK, Known, Created
    <3> QED BY <3>1, PlanAround
  <2>3. CASE Cancel(t)
    <3>1. /\ \A u \in Tasks : u # t => row'[u] = row[u]
          /\ row'[t].hash = row[t].hash /\ ~Unsettled(t)'
          /\ UNCHANGED <<profile, approvals, run>>
      BY <2>3 DEF Cancel, environment, Row, IInv, TypeInv, TypeOK, Unsettled, Terminal
    <3> QED BY <3>1, PlanAround
  <2> QED BY <1>3, <2>1, <2>2, <2>3
<1>4. ASSUME NEW t \in Tasks, NEW v \in {"approved", "rejected"}, Decide(t, v) PROVE PlanInv'
  BY <1>4, PlanOfDecide
<1>5. ASSUME NEW c \in calls, ReachQueue(c) \/ LoseCall(c) PROVE PlanInv'
  BY <1>1, <1>5 DEF ReachQueue, LoseCall, environment
<1>6. ASSUME NEW w \in Slots, Take(w) \/ Release(w) \/ Throw(w) PROVE PlanInv'
  <2>1. UNCHANGED <<profile, row, approvals>> /\ \A v \in Slots : v # w => run'[v] = run[v]
    BY <1>6, TakeFacts, ReleaseFacts, ThrowFacts DEF environment
  <2>2. CASE Take(w)
    <3>1. run'[w].pc = "row" /\ run'[w].ask = "none"
      <4>1. PICK j \in queue : run'[w] = Begin(j) BY <2>2, TakeFacts
      <4> QED BY <4>1 DEF Begin
    <3>2. PlanRun(w)' BY <3>1 DEF PlanRun, At, AtStep
    <3> QED BY <2>1, <3>2, PlanAround
  <2>3. CASE Release(w) BY <2>1, <2>3, ReleaseFacts, PlanAround
  <2>4. CASE Throw(w)
    <3>1. run'[w].ask = "none" /\ run'[w].pc \in {"release", "step"}
          /\ ~AtStep(w, "waiting_approval")'
      BY <2>4, ThrowFacts DEF Cleared, Stumbles, InLoop, AtStep, At, SnapOf
    <3>2. PlanRun(w)' BY <3>1 DEF PlanRun, At, AtStep
    <3> QED BY <2>1, <3>2, PlanAround
  <2> QED BY <1>6, <2>2, <2>3, <2>4
<1>7. ASSUME NEW w \in Slots, Work(w) PROVE PlanInv'
  BY <1>6, <1>7, WorkKinds, PlanOfStep
<1>8. CASE Crash
  <2>1. UNCHANGED <<profile, row, approvals>> /\ \A v \in Slots : ~Busy(v)'
    BY <1>8 DEF Crash, Busy, At, Idle
  <2> QED BY <2>1, PlanAround
<1> QED BY <1>2, <1>3, <1>4, <1>5, <1>6, <1>7, <1>8 DEF Next

\* The work of a task whose file tools meet no gate is kept through any crashes, thrown
\* steps and lost calls: of such a task only the push is asked for after its commit.
THEOREM UngatedWorkKeptAlone ==
    ASSUME \A p \in Profiles : p.mode \in FileModes => p.gates = {}
    PROVE  Spec /\ []Alone => WorkKept
<1>1. Spec /\ []Alone => []SettledFirst
  <2>1. IInv /\ PlanInv => SettledFirst BY PlanSettles
  <2>2. Init => PlanInv BY PlanInit
  <2>3. /\ IInv /\ Alone /\ OneInv /\ WorkInv /\ PlanInv /\ [Next]_vars => PlanInv'
        /\ IInv /\ Alone /\ OneInv /\ SettledFirst /\ WorkInv /\ [Next]_vars => WorkInv'
    BY PlanNext, WorkNext
  <2> QED BY <2>1, <2>2, <2>3, WorkInit, OneInvariant, PTL DEF Spec
<1> QED BY <1>1, WorkKeptAlone, PTL

-----------------------------------------------------------------------------
(* A task that is not settled is moved on by someone *)

Ahead(t) == (\E c \in calls : c.task = t) \/ (\E j \in queue : j.task = t)
\* What a run may leave behind: a person who is asked, or a run to come.
Left(t) == (row[t].status = "waiting_approval" /\ Pending(t) # {}) \/ Ahead(t)
Answerable(t) == Pending(t) # {} \/ Ahead(t)

StrandTask(t) ==
    /\ Open(t) => Left(t) \/ \E w \in Slots : Busy(w) /\ TaskOf(w) = t
    /\ t \in held /\ Unsettled(t) /\ profile[t].mode \in FileModes => tree[t].dir
\* Every retry and every stall was one of the faults.
StrandJob(j) == j.stalls <= faults /\ (Open(j.task) => j.tries <= faults)
Spared(w) ==
    /\ StrandJob(run[w].job)
    /\ Open(TaskOf(w)) /\ run[w].threw => run[w].job.tries < faults
\* Nothing stops a run but what it reads.
Equipped(w) ==
    /\ At(w, "hash") => run[w].ws
    /\ run[w].pc \in {"select", "insert", "settle"} /\ ~InLoop(w) =>
          CanTransition(SnapOf(w).status, run[w].next)
    /\ Open(TaskOf(w)) /\ run[w].ws /\ ModeOf(w) \in FileModes => tree[TaskOf(w)].dir
\* What a run is stopped for is still to be decided, or its decision has a run to come.
Heard(w) ==
    LET t == TaskOf(w)  s == SnapOf(w) IN
    /\ run[w].pc \in Acting /\ s.pending => Answerable(t)
    /\ run[w].pc \in Acting /\ s.status = "implementing" =>
          Granted(t) \subseteq s.grants \/ Ahead(t)
    /\ run[w].pc \in {"select", "insert"} /\ s.status = "implementing" =>
          run[w].ask \notin s.grants /\ ~run[w].auto
    /\ InLoop(w) /\ (run[w].stops # 0 \/ At(w, "settle")) => Answerable(t)
    /\ At(w, "release") /\ ~run[w].threw => Left(t)
StrandRun(w) == Spared(w) /\ Equipped(w) /\ (Open(TaskOf(w)) => Heard(w))
StrandInv ==
    /\ faults <= MaxFaults
    /\ \A t \in Tasks : StrandTask(t)
    /\ \A j \in queue : StrandJob(j)
    /\ \A w \in Slots : Busy(w) => StrandRun(w)

\* No step of a run opens a task.
LEMMA OpenBefore ==
    ASSUME IInv, NEW w \in Slots, Steps(w), Unsettled(TaskOf(w))'
    PROVE  Open(TaskOf(w))
<1> DEFINE t == TaskOf(w)
<1>1. /\ run[w] \in Run /\ t \in Tasks /\ t' = t /\ Created(t)
      /\ row \in [Tasks -> Row] /\ row[t] \in Row
  BY StepFacts DEF IInv, TypeInv, TypeOK, Known, Idle, Run, RunPCs, TaskOf
<1>2. ASSUME row'[t].status = row[t].status PROVE Open(t)
  BY <1>1, <1>2 DEF Open, Unsettled, Created
<1>3. CASE Suspends(w)
  <2>1. CASE Applies(w) BY <1>1, <1>3, <2>1 DEF Suspends, Applies, InLoop, Open, Terminal
  <2>2. CASE ~Applies(w) BY <1>2, <1>3, <2>2 DEF Suspends
  <2> QED BY <2>1, <2>2
<1>4. ASSUME NEW to \in Statuses, Moves(w, to) PROVE Open(t)
  BY <1>1, <1>4 DEF Moves, Applies, CanTransition, Open, Created
<1>5. CASE Asks(w) BY <1>1, <1>2, <1>5, AsksFrame
<1>6. CASE Answered(w) \/ Saves(w)
  <2>1. row'[t].status = row[t].status BY <1>1, <1>6 DEF Answered, Saves, Row
  <2> QED BY <1>2, <2>1
<1> QED
  BY <1>2, <1>3, <1>4, <1>5, <1>6
  DEF Steps, Changes, Reads, Sees, Yields, Breaks, Acquires, Selects, Concludes, Pushes,
      Commits

\* What a step does to its run's job, and to the rest of StrandInv.
LEMMA SparedOfStep ==
    ASSUME IInv, StrandInv, NEW w \in Slots, Steps(w)
    PROVE  Spared(w)' \/ Breaks(w)
<1> DEFINE t == TaskOf(w)
<1>1. /\ t' = t /\ run'[w].job = run[w].job /\ faults' = faults /\ Spared(w) /\ run[w] \in Run
      /\ Open(t)' => Open(t)
  BY StepFacts, OpenBefore DEF StrandInv, StrandRun, Open, Unsettled, Busy, At, Run, RunPCs
<1>2. run'[w].threw => run[w].threw \/ Breaks(w)
  <2>1. CASE Yields(w) \/ \E to \in Statuses : Moves(w, to) BY <2>1 DEF Yields, Moves
  <2>2. CASE run'[w].threw = run[w].threw BY <2>2
  <2> QED
    BY <2>1, <2>2
    DEF Steps, Changes, Reads, Sees, Acquires, Asks, Selects, Answered, Suspends,
        Concludes, Pushes, Commits, Saves, SameSnap
<1>3. run[w].job.task = t BY DEF TaskOf
<1> QED BY <1>1, <1>2, <1>3 DEF Spared, StrandJob

\* A run finds its directory, and its transition is legal, while its task is open.
LEMMA NothingBreaks ==
    ASSUME IInv, StrandInv, NEW w \in Slots, Steps(w), Breaks(w)
    PROVE  ~Open(TaskOf(w))
<1>1. Equipped(w) BY StepFacts DEF StrandInv, StrandRun, Busy, At, Run, RunPCs
<1> QED BY <1>1 DEF Breaks, Equipped, InLoop, At

LEMMA EquippedOfStep ==
    ASSUME IInv, StrandInv, NEW w \in Slots, Steps(w)
    PROVE  Equipped(w)' /\ StrandTask(TaskOf(w))'
<1> DEFINE t == TaskOf(w)
<1>1. /\ t' = t /\ run[w] \in Run /\ run'[w] \in Run /\ t \in Tasks /\ profile' = profile
      /\ Unsettled(t)' => Open(t)
      /\ Equipped(w) /\ StrandTask(t) /\ ModeOf(w)' = ModeOf(w)
      /\ tree \in [Tasks -> Tree] /\ tree[t] \in Tree
  BY StepFacts, OpenBefore
  DEF StrandInv, StrandRun, Busy, At, Run, RunPCs, IInv, TypeInv, TypeOK, ModeOf
<1>2. Busy(w)' BY <1>1 DEF Busy, At, Run, RunPCs
<1>3. ASSUME t \in held' => t \in held, tree[t].dir => tree'[t].dir PROVE StrandTask(t)'
  BY <1>1, <1>2, <1>3 DEF StrandTask, Open, Unsettled
<1>4. ASSUME Cleared(w), run'[w].pc \in {"row", "release"} PROVE Equipped(w)'
  BY <1>4 DEF Cleared, Equipped, At
<1>5. ASSUME SameSnap(w), run'[w].ws => run[w].ws, tree[t].dir => tree'[t].dir,
             run'[w].pc = "hash" => run'[w].ws,
             run'[w].pc \in {"select", "insert", "settle"} /\ ~InLoop(w)' =>
                 CanTransition(SnapOf(w).status, run'[w].next)
      PROVE  Equipped(w)'
  BY <1>1, <1>5 DEF Equipped, SameSnap, SnapOf, At, Open, Unsettled
<1>6. CASE Reads(w) \/ Sees(w)
  <2>1. Equipped(w)'
    BY <1>1, <1>6 DEF Reads, Sees, Equipped, At, disk, Open, Unsettled
  <2> QED BY <1>3, <1>6, <2>1 DEF Reads, Sees, disk
<1>7. CASE Yields(w) \/ Breaks(w)
  BY <1>3, <1>4, <1>7 DEF Yields, Breaks, disk
<1>8. ASSUME NEW to \in Statuses, Moves(w, to) PROVE Equipped(w)' /\ StrandTask(t)'
  BY <1>3, <1>4, <1>8 DEF Moves, disk
<1>9. CASE Acquires(w)
  <2>1. Open(t) /\ ModeOf(w) \in FileModes => tree'[t].dir
    BY <1>1, <1>9 DEF Acquires, StrandTask, Open, Unsettled, ModeOf, Reattachable, Fresh
  <2>2. StrandTask(t)' BY <1>1, <1>2, <2>1 DEF StrandTask, Open, Unsettled, ModeOf
  <2>3. Equipped(w)' BY <1>1, <1>9, <2>1 DEF Acquires, Equipped, At, Open, Unsettled
  <2> QED BY <2>2, <2>3
<1>10. CASE Asks(w)
  <2>1. /\ SameSnap(w) /\ run'[w].ws = run[w].ws /\ run'[w].pc = "select"
        /\ InLoop(w)' <=> InLoop(w)
    BY <1>10 DEF Asks, SameSnap, InLoop, SnapOf
  <2>2. ~InLoop(w) => CanTransition(SnapOf(w).status, run'[w].next)
    BY <1>1, <1>10, StepFacts, Edges
    DEF Asks, AsksTool, AsksPlan, AsksPush, AtStep, SoundRun, At
  <2> QED BY <1>3, <1>5, <1>10, <2>1, <2>2 DEF Asks, disk
<1>11. CASE Selects(w)
  <2>1. InLoop(w)' <=> InLoop(w) BY <1>11 DEF Selects, SameSnap, InLoop, SnapOf
  <2> QED BY <1>1, <1>3, <1>5, <1>11, <2>1 DEF Selects, Equipped, At, disk
<1>12. CASE Answered(w)
  <2>1. /\ InLoop(w)' <=> InLoop(w)
        /\ run'[w].ws => run[w].ws
    BY <1>12 DEF Answered, SameSnap, InLoop, SnapOf
  <2> QED BY <1>1, <1>3, <1>5, <1>12, <2>1 DEF Answered, Equipped, At, disk
<1>13. CASE Suspends(w)
  <2>1. Equipped(w)'
    BY <1>1, <1>13 DEF Suspends, Equipped, At, disk, Open, Unsettled
  <2> QED BY <1>3, <1>13, <2>1 DEF Suspends, disk
<1>14. CASE Concludes(w)
  BY <1>3, <1>5, <1>14 DEF Concludes, disk
<1>15. CASE Pushes(w)
  BY <1>3, <1>5, <1>15, Edges DEF Pushes, AtStep, Statuses, Terminal
<1>16. CASE Commits(w)
  <2>1. tree[t].dir => tree'[t].dir
    <3>1. CASE tree' = [tree EXCEPT ![t].head = @ + 1, ![t].dirty = FALSE]
      BY <1>1, <3>1 DEF Tree
    <3> QED BY <1>16, <3>1 DEF Commits
  <2> QED BY <1>3, <1>5, <1>16, <2>1 DEF Commits
<1>17. CASE Saves(w)
  BY <1>3, <1>5, <1>17 DEF Saves, disk
<1>18. CASE Changes(w)
  <2>1. tree'[t].dir = tree[t].dir /\ run' = run /\ held' = held
    BY <1>1, <1>18 DEF Changes, Tree
  <2>2. Equipped(w)' BY <1>1, <2>1 DEF Equipped, InLoop, SnapOf, At, Open, Unsettled
  <2> QED BY <1>3, <2>1, <2>2
<1> QED BY <1>6, <1>7, <1>8, <1>9, <1>10, <1>11, <1>12, <1>13, <1>14, <1>15, <1>16, <1>17,
           <1>18 DEF Steps

\* Requests of a task are only added to, and calls and jobs stay, in a step of a run.
LEMMA StepLeaves ==
    ASSUME IInv, NEW w \in Slots, Steps(w), NEW t \in Tasks
    PROVE  Pending(t) \subseteq Pending(t)' /\ Ahead(t)' = Ahead(t)
<1>1. approvals[t] \subseteq approvals'[t]
  <2>1. TaskOf(w) \in Tasks /\ approvals \in [Tasks -> SUBSET Approval]
        /\ (t # TaskOf(w) => approvals'[t] = approvals[t])
    BY StepFacts DEF IInv, TypeInv, TypeOK, Same
  <2> QED BY <2>1, StepKeeps
<1> QED BY <1>1, StepFacts DEF Pending, Ahead

LEMMA HeardOfStep ==
    ASSUME IInv, OneInv, StrandInv, NEW w \in Slots, Steps(w), Open(TaskOf(w))'
    PROVE  Heard(w)'
<1> DEFINE t == TaskOf(w)
<1>1. /\ t' = t /\ run[w] \in Run /\ run'[w] \in Run /\ t \in Tasks
      /\ Open(t) /\ Heard(w) /\ Current(w) /\ SoundRun(w) /\ ~Breaks(w)
      /\ row \in [Tasks -> Row] /\ row[t] \in Row
      /\ approvals \in [Tasks -> SUBSET Approval]
  BY StepFacts, OpenBefore, NothingBreaks
  DEF StrandInv, StrandRun, OneInv, RunInv, Busy, At, Run, RunPCs, IInv, TypeInv, TypeOK,
      Open, Unsettled
<1>2. Pending(t) \subseteq Pending(t)' /\ Ahead(t)' = Ahead(t)
  BY <1>1, StepLeaves
<1>3. Answerable(t) => Answerable(t)' BY <1>1, <1>2 DEF Answerable
<1>4. ASSUME Cleared(w), run'[w].pc = "row" PROVE Heard(w)'
  BY <1>4 DEF Cleared, Heard, InLoop, Acting, At
<1>5. ASSUME SameSnap(w), run[w].pc \in Acting, run'[w].pc \in Acting,
             approvals'[t] = approvals[t],
             run'[w].ws => run[w].ws \/ At(w, "step"),
             run'[w].pc \in {"select", "insert"} /\ SnapOf(w).status = "implementing" =>
                 run'[w].ask \notin SnapOf(w).grants /\ ~run'[w].auto,
             run'[w].pc = "settle" => ~InLoop(w)'
      PROVE  Heard(w)'
  <2>1. Granted(t)' = Granted(t) BY <1>1, <1>5 DEF Granted
  <2>2. run[w].stops # 0 => InLoop(w) BY <1>1 DEF Current
  <2> QED
    BY <1>1, <1>2, <1>3, <1>5, <2>1, <2>2 DEF Heard, SameSnap, SnapOf, InLoop, Acting, At
<1>6. CASE Reads(w)
  BY <1>1, <1>6 DEF Reads, Heard, Acting, InLoop, At, Current
<1>7. CASE Sees(w)
  <2>1. /\ run'[w].pc = "step" /\ run'[w].snap.grants = Granted(t)
        /\ run'[w].snap.pending = (Pending(t) # {}) /\ approvals' = approvals
        /\ run'[w].stops = 0
    BY <1>1, <1>7 DEF Sees, Current, Acting, At
  <2>2. Granted(t)' = Granted(t) /\ Pending(t)' = Pending(t)
    BY <1>1, <2>1 DEF Granted, Pending
  <2> QED BY <1>1, <2>1, <2>2 DEF Heard, Answerable, SnapOf, InLoop, At
<1>8. CASE Yields(w)
  <2>1. /\ run'[w].pc = "release" /\ Cleared(w) /\ row' = row /\ approvals' = approvals
    BY <1>8 DEF Yields
  <2>2. Left(t)
    <3>1. CASE row[t].status # SnapOf(w).status
      <4>1. run[w].stops # 0 /\ row[t].status = "waiting_approval"
        BY <1>1, <1>8, <3>1 DEF Yields, Current
      <4>2. InLoop(w) BY <1>1, <4>1 DEF Current
      <4> QED BY <1>1, <4>1, <4>2 DEF Heard, Answerable, Left
    <3>2. CASE At(w, "approvals") /\ SnapOf(w).status \in Terminal
      BY <1>1, <3>2 DEF Current, Open, Acting, At
    <3>3. CASE AtStep(w, "waiting_approval") /\ SnapOf(w).pending
      <4>1. row[t].status = "waiting_approval"
        BY <1>1, <3>3 DEF Current, InLoop, AtStep, Acting, At
      <4> QED BY <1>1, <3>3, <4>1 DEF Heard, Answerable, Left, AtStep, Acting, At
    <3>4. CASE At(w, "step") /\ InLoop(w) /\ run[w].stops # 0
      <4>1. row[t].status = "waiting_approval" BY <1>1, <3>4 DEF Current, Acting, At
      <4> QED BY <1>1, <3>4, <4>1 DEF Heard, Answerable, Left
    <3> QED BY <1>8, <3>1, <3>2, <3>3, <3>4 DEF Yields
  <2>3. Left(t)' BY <1>1, <1>2, <2>1, <2>2 DEF Left
  <2> QED BY <1>1, <2>1, <2>3 DEF Cleared, Heard, InLoop, Acting, At
<1>9. ASSUME NEW to \in Statuses, Moves(w, to) PROVE Heard(w)'
  BY <1>4, <1>9 DEF Moves
<1>10. CASE Acquires(w)
  BY <1>5, <1>10 DEF Acquires, Acting, At
<1>11. CASE Asks(w)
  <2>1. run[w].pc \in Acting
    BY <1>11 DEF Asks, AsksTool, AsksPlan, AsksPush, AtStep, Acting, At
  <2>2. SnapOf(w).status = "implementing" =>
            run'[w].ask \notin SnapOf(w).grants /\ ~run'[w].auto
    BY <1>1, <1>11 DEF Asks, AsksTool, AsksPlan, AsksPush, AtStep, SoundRun, At
  <2> QED BY <1>5, <1>11, <2>1, <2>2 DEF Asks, Acting
<1>12. CASE Selects(w)
  BY <1>1, <1>5, <1>12 DEF Selects, SameAsk, Heard, Acting, At
<1>13. CASE Answered(w)
  <2>1. /\ SameSnap(w) /\ run'[w].pc = "settle" /\ run'[w].ws = InLoop(w)
        /\ run[w].pc \in {"select", "insert"}
    BY <1>13 DEF Answered, At
  <2>2. SnapOf(w).status = "implementing" => Granted(t)' = Granted(t)
    <3>1. CASE approvals'[t] = approvals[t] BY <1>1, <3>1 DEF Granted
    <3>2. CASE approvals'[t] = approvals[t] \cup {New(w)}
      <4>1. SnapOf(w).status = "implementing" => New(w).status = "pending"
        BY <1>1, <2>1 DEF Heard, New
      <4> QED BY <1>1, <3>2, <4>1 DEF Granted
    <3> QED BY <1>1, <1>13, <3>1, <3>2 DEF Answered
  <2>3. InLoop(w) => Answerable(t)'
    <3> SUFFICES ASSUME InLoop(w) PROVE Answerable(t)' OBVIOUS
    <3>1. run[w].ask \notin SnapOf(w).grants /\ ~run[w].auto
      BY <1>1, <2>1 DEF Heard, InLoop
    <3>2. CASE At(w, "select") /\ Standing(t, run[w].ask) # {} /\ approvals' = approvals
      <4>1. PICK a \in approvals[t] : a.action = run[w].ask /\ a.status # "rejected"
        BY <3>2 DEF Standing
      <4>2. CASE a.status = "pending" BY <1>3, <4>1, <4>2 DEF Answerable, Pending
      <4>3. CASE a.status = "approved"
        <5>1. run[w].ask \in Granted(t) BY <4>1, <4>3 DEF Granted
        <5>2. Ahead(t)
          BY <1>1, <2>1, <3>1, <5>1 DEF Heard, InLoop, Acting
        <5> QED BY <1>3, <5>2 DEF Answerable
      <4>4. a.status \in {"pending", "approved", "rejected"} BY <1>1, <4>1 DEF Approval
      <4> QED BY <4>1, <4>2, <4>3, <4>4
    <3>3. CASE \E a \in Pending(t) : a.action = run[w].ask
      BY <1>3, <3>3 DEF Answerable
    <3>4. CASE approvals'[t] = approvals[t] \cup {New(w)}
      <4>1. New(w) \in Pending(t)' BY <1>1, <3>1, <3>4 DEF New, Pending
      <4> QED BY <1>1, <4>1 DEF Answerable
    <3> QED BY <1>1, <1>13, <3>2, <3>3, <3>4 DEF Answered
  <2> QED
    BY <1>1, <1>2, <1>3, <2>1, <2>2, <2>3
    DEF Heard, SameSnap, SnapOf, InLoop, Acting, At
<1>14. CASE Suspends(w)
  <2>1. /\ run'[w].pc = "step" /\ run'[w].snap = run[w].snap /\ approvals' = approvals
        /\ At(w, "settle") /\ InLoop(w)
    BY <1>14 DEF Suspends
  <2>2. Granted(t)' = Granted(t) /\ Answerable(t)
    BY <1>1, <2>1 DEF Granted, Heard
  <2> QED
    BY <1>1, <1>2, <1>3, <2>1, <2>2 DEF Heard, SnapOf, InLoop, Acting, At
<1>15. CASE Concludes(w) \/ Pushes(w)
  BY <1>5, <1>15 DEF Concludes, Pushes, Acting, At, AtStep, InLoop
<1>16. CASE Commits(w) \/ Saves(w)
  BY <1>5, <1>16 DEF Commits, Saves, Acting, At, AtStep
<1>17. CASE Changes(w)
  <2>1. run' = run /\ row' = row /\ approvals' = approvals BY <1>17 DEF Changes
  <2>2. Granted(t)' = Granted(t) BY <1>1, <2>1 DEF Granted
  <2> QED
    BY <1>1, <1>2, <1>3, <1>17, <2>1, <2>2 DEF Heard, Changes, SnapOf, InLoop, Acting, At
<1> QED BY <1>1, <1>6, <1>7, <1>8, <1>9, <1>10, <1>11, <1>12, <1>13, <1>14, <1>15, <1>16,
           <1>17 DEF Steps

\* What a task and its runs rest on is still there, if the task is still open; a task
\* that opens has a run to come.
Rests(t) ==
    /\ Open(t)' => /\ row'[t].status = row[t].status \/ (~Created(t) /\ Ahead(t)')
                   /\ Pending(t) \subseteq Pending(t)' \/ Ahead(t)'
                   /\ Granted(t)' \subseteq Granted(t) \/ Ahead(t)'
                   /\ Ahead(t) => Ahead(t)'
    /\ Unsettled(t)' => Unsettled(t) /\ (tree[t].dir => tree'[t].dir)
    /\ t \in held' => t \in held
    /\ faults' >= faults

LEMMA StrandRunFrame ==
    ASSUME IInv, NEW v \in Slots, Busy(v), StrandRun(v), run'[v] = run[v], Rests(TaskOf(v)),
           profile' = profile, faults' \in Nat
    PROVE  StrandRun(v)'
<1> DEFINE t == TaskOf(v)
<1>1. /\ run[v] \in Run /\ t \in Tasks /\ faults \in Nat /\ Created(t)
      /\ run[v].job.stalls \in Nat /\ run[v].job.tries \in Nat
  BY BusySlot DEF Busy, At, IInv, TypeInv, TypeOK, Runs, Job, Known, TaskOf, Idle
<1>2. t' = t /\ SnapOf(v)' = SnapOf(v) /\ run[v].job.task = t BY DEF TaskOf, SnapOf
<1>3. Open(t)' => Open(t) /\ row'[t].status = row[t].status
  BY <1>1, <1>2 DEF Rests, Open
<1>4. Spared(v)'
  BY <1>1, <1>2, <1>3 DEF StrandRun, Spared, StrandJob, Rests
<1>5. Equipped(v)'
  BY <1>2, <1>3 DEF StrandRun, Equipped, Rests, InLoop, ModeOf, At, Open, Unsettled
<1>6. ASSUME Open(t)' PROVE Heard(v)'
  <2>1. Heard(v) /\ row'[t].status = row[t].status
    BY <1>2, <1>3, <1>6 DEF StrandRun
  <2>2. (Answerable(t) => Answerable(t)') /\ (Left(t) => Left(t)')
    BY <1>2, <1>6, <2>1 DEF Rests, Answerable, Left
  <2>3. Granted(t) \subseteq SnapOf(v).grants \/ Ahead(t) =>
            Granted(t)' \subseteq SnapOf(v).grants \/ Ahead(t)'
    BY <1>2, <1>6 DEF Rests
  <2> QED BY <1>2, <2>1, <2>2, <2>3 DEF Heard, InLoop, At
<1> QED BY <1>2, <1>4, <1>5, <1>6 DEF StrandRun

LEMMA StrandTaskFrame ==
    ASSUME StrandInv, NEW u \in Tasks, Rests(u), profile' = profile,
           \A w \in Slots : Busy(w) /\ TaskOf(w) = u =>
               (Busy(w)' /\ TaskOf(w)' = u) \/ (Open(u)' => Left(u)')
    PROVE  StrandTask(u)'
<1>1. StrandTask(u) BY DEF StrandInv
<1>2. Open(u)' /\ Ahead(u)' => Left(u)' BY DEF Left
<1>3. Open(u)' => Open(u) \/ Ahead(u)' BY DEF Rests, Open
<1>4. Left(u) /\ Open(u)' => Left(u)' BY DEF Rests, Left
<1> QED BY <1>1, <1>2, <1>3, <1>4 DEF StrandTask, Rests

LEMMA StrandJobFrame ==
    ASSUME IInv, StrandInv, NEW j \in queue, Rests(j.task), faults' \in Nat
    PROVE  StrandJob(j)'
<1>1. /\ j \in Job /\ faults \in Nat /\ Created(j.task)
      /\ j.stalls \in Nat /\ j.tries \in Nat
  BY DEF IInv, TypeInv, TypeOK, Known, Job
<1>2. Open(j.task)' => Open(j.task) BY <1>1 DEF Rests, Open
<1> QED BY <1>1, <1>2 DEF StrandInv, StrandJob, Rests

\* What leaves a task's rows, requests and directory alone.
LEMMA SameRests ==
    ASSUME NEW t \in Tasks, Same(t), Ahead(t) => Ahead(t)', faults \in Nat,
           faults' \in {faults, faults + 1}
    PROVE  Rests(t)
<1>1. faults' >= faults OBVIOUS
<1> QED BY <1>1 DEF Rests, Same, Pending, Granted, Unsettled

LEMMA StrandOfStep ==
    ASSUME IInv, Alone, OneInv, StrandInv, NEW w \in Slots, Steps(w)
    PROVE  StrandInv'
<1>1. /\ run[w] \in Run /\ TaskOf(w)' = TaskOf(w) /\ UNCHANGED <<profile, calls, queue, faults>>
      /\ faults \in Nat /\ run'[w] \in Run /\ queue \subseteq Job
  BY StepFacts DEF IInv, TypeInv, TypeOK
<1>2. \A u \in Tasks : Ahead(u)' = Ahead(u) BY <1>1 DEF Ahead
<1>3. \A u \in Tasks : u # TaskOf(w) => Rests(u)
  BY <1>1, <1>2, StepFacts, SameRests
<1>4. \A v \in Slots : Busy(v) => Busy(v)' /\ TaskOf(v)' = TaskOf(v)
  BY <1>1, StepFacts DEF Busy, At, TaskOf, Run, RunPCs
<1>5. ASSUME NEW u \in Tasks PROVE StrandTask(u)'
  BY <1>1, <1>3, <1>4, EquippedOfStep, StrandTaskFrame
<1>6. ASSUME NEW v \in Slots, Busy(v)' PROVE StrandRun(v)'
  <2>1. CASE v = w
    <3>1. Open(TaskOf(w))' => Open(TaskOf(w))
      BY <1>1, OpenBefore DEF Open, Unsettled
    <3>2. Spared(w)'
      <4>1. CASE Open(TaskOf(w))' BY <3>1, <4>1, SparedOfStep, NothingBreaks
      <4>2. CASE ~Open(TaskOf(w))'
        <5>1. Spared(w) BY <1>1 DEF StrandInv, StrandRun, Busy, At, Run, RunPCs
        <5>2. run'[w].job = run[w].job /\ run[w].job.task = TaskOf(w)
          BY StepFacts DEF TaskOf
        <5> QED BY <1>1, <4>2, <5>1, <5>2 DEF Spared, StrandJob
      <4> QED BY <4>1, <4>2
    <3> QED BY <2>1, <3>2, EquippedOfStep, HeardOfStep DEF StrandRun
  <2>2. CASE v # w
    <3>1. /\ Busy(v) /\ run'[v] = run[v] /\ TaskOf(v) \in Tasks /\ TaskOf(v) # TaskOf(w)
      BY <1>6, <2>2, OtherRuns
    <3> QED BY <1>1, <1>3, <3>1, StrandRunFrame DEF StrandInv
  <2> QED BY <2>1, <2>2
<1>7. ASSUME NEW j \in queue PROVE StrandJob(j)'
  <2>1. Open(j.task)' => Open(j.task)
    <3>1. j.task \in Tasks /\ Created(j.task) BY <1>1 DEF Job, IInv, TypeInv, Known
    <3>2. CASE j.task = TaskOf(w) BY <1>1, <3>2, OpenBefore DEF Open, Unsettled
    <3>3. CASE j.task # TaskOf(w) BY <1>3, <3>1, <3>3 DEF Rests, Open
    <3> QED BY <3>2, <3>3
  <2> QED BY <1>1, <2>1 DEF StrandInv, StrandJob
<1> QED BY <1>1, <1>5, <1>6, <1>7 DEF StrandInv

LEMMA StrandInit == Init => StrandInv
<1> SUFFICES ASSUME Init PROVE StrandInv OBVIOUS
<1>1. 0 <= MaxFaults BY ConstantsAssumption
<1> QED BY <1>1 DEF Init, StrandInv, StrandTask, Open, Busy, At, Idle

\* Steps that take nothing from a task: what is new is stated, what stays rests.
LEMMA StrandAround ==
    ASSUME IInv, StrandInv, profile' = profile, faults' \in {faults, faults + 1},
           faults' <= MaxFaults, \A u \in Tasks : Rests(u),
           \A u \in Tasks, v \in Slots : Busy(v) /\ TaskOf(v) = u =>
               (Busy(v)' /\ TaskOf(v)' = u) \/ (Open(u)' => Left(u)'),
           \A v \in Slots : Busy(v)' => StrandRun(v)' \/ (Busy(v) /\ run'[v] = run[v]),
           \A j \in queue' : j \in queue \/ StrandJob(j)'
    PROVE  StrandInv'
<1>1. run \in Runs /\ faults \in Nat /\ faults' \in Nat /\ queue \subseteq Job
  BY DEF IInv, TypeInv, TypeOK, Runs
<1>2. \A u \in Tasks : StrandTask(u)' BY StrandTaskFrame
<1>3. ASSUME NEW v \in Slots, Busy(v)' PROVE StrandRun(v)'
  <2>1. CASE Busy(v) /\ run'[v] = run[v]
    <3>1. TaskOf(v) \in Tasks BY <1>1, <2>1, BusySlot DEF Busy, At
    <3> QED BY <1>1, <2>1, <3>1, StrandRunFrame DEF StrandInv
  <2> QED BY <1>3, <2>1
<1>4. ASSUME NEW j \in queue' PROVE StrandJob(j)'
  <2>1. CASE j \in queue
    <3>1. j.task \in Tasks BY <1>1, <2>1 DEF Job
    <3> QED BY <1>1, <2>1, <3>1, StrandJobFrame
  <2> QED BY <1>4, <2>1
<1> QED BY <1>2, <1>3, <1>4 DEF StrandInv

\* The API, the calls it makes and the reclaim.
LEMMA StrandOfAPI ==
    ASSUME IInv, StrandInv, NEW t \in Tasks, Create(t) \/ Cancel(t) \/ Reclaim(t)
    PROVE  StrandInv'
<1>1. /\ UNCHANGED <<profile, run, faults, held>> /\ faults \in Nat
      /\ row \in [Tasks -> Row] /\ row[t] \in Row /\ tree \in [Tasks -> Tree]
      /\ approvals' = approvals
  BY DEF Create, Cancel, Reclaim, environment, disk, IInv, TypeInv, TypeOK
<1>2. ASSUME \A u \in Tasks : Rests(u), queue' \subseteq queue PROVE StrandInv'
  <2>1. \A v \in Slots : Busy(v)' = Busy(v) /\ TaskOf(v)' = TaskOf(v) /\ run'[v] = run[v]
    BY <1>1 DEF Busy, At, TaskOf
  <2>2. faults' <= MaxFaults BY <1>1 DEF StrandInv
  <2> QED BY <1>1, <1>2, <2>1, <2>2, StrandAround
<1>3. faults' >= faults BY <1>1
<1>4. CASE Create(t)
  <2>1. /\ row[t].status = "absent" /\ row'[t].status = "created" /\ tree' = tree
        /\ \A u \in Tasks : u # t => row'[u] = row[u]
        /\ calls' = calls \cup {[task |-> t, id |-> 0]} /\ queue' = queue
    BY <1>1, <1>4 DEF Create, disk, Row
  <2>2. Ahead(t)'
    <3>1. [task |-> t, id |-> 0] \in calls' /\ [task |-> t, id |-> 0].task = t BY <2>1
    <3> QED BY <3>1 DEF Ahead
  <2>3. \A u \in Tasks : Ahead(u) => Ahead(u)' BY <2>1 DEF Ahead
  <2>4. \A u \in Tasks : Rests(u)
    BY <1>1, <1>3, <2>1, <2>2, <2>3 DEF Rests, Pending, Granted, Created, Unsettled, Terminal
  <2> QED BY <1>2, <2>1, <2>4
<1>5. CASE Cancel(t)
  <2>1. /\ row'[t].status = "cancelled" /\ tree' = tree /\ calls' = calls
        /\ \A u \in Tasks : u # t => row'[u] = row[u]
        /\ queue' \subseteq queue /\ \A j \in queue : j.task # t => j \in queue'
    BY <1>1, <1>5 DEF Cancel, disk, Row
  <2>2. \A u \in Tasks : u # t => (Ahead(u) => Ahead(u)') BY <2>1 DEF Ahead
  <2>3. \A u \in Tasks : Rests(u)
    BY <1>1, <1>3, <2>1, <2>2 DEF Rests, Pending, Granted, Open, Unsettled, Terminal
  <2> QED BY <1>2, <2>1, <2>3
<1>6. CASE Reclaim(t)
  <2>1. /\ row' = row /\ ~Unsettled(t) /\ calls' = calls /\ queue' = queue
        /\ \A u \in Tasks : u # t => tree'[u] = tree[u]
    BY <1>1, <1>6 DEF Reclaim, Unsettled
  <2>2. \A u \in Tasks : Rests(u)
    BY <1>1, <1>3, <2>1 DEF Rests, Pending, Granted, Unsettled, Ahead
  <2> QED BY <1>2, <2>1, <2>2
<1> QED BY <1>4, <1>5, <1>6

LEMMA StrandOfDecide ==
    ASSUME IInv, StrandInv, NEW t \in Tasks, NEW verdict \in {"approved", "rejected"},
           Decide(t, verdict)
    PROVE  StrandInv'
<1>1. PICK a \in Pending(t) :
         /\ approvals' = [approvals EXCEPT ![t] =
               (@ \ {a}) \cup {[a EXCEPT !.status = verdict, !.dec = row[t].clock]}]
         /\ row' = [row EXCEPT ![t].clock = @ + 1]
         /\ calls' = calls \cup {[task |-> t, id |-> a.req]}
         /\ UNCHANGED <<profile, faults, queue, run, held, tree>>
  BY DEF Decide, environment, disk
<1>2. /\ row \in [Tasks -> Row] /\ row[t] \in Row /\ faults \in Nat
      /\ approvals \in [Tasks -> SUBSET Approval]
  BY DEF IInv, TypeInv, TypeOK
<1>3. /\ \A u \in Tasks : row'[u].status = row[u].status
      /\ \A u \in Tasks : u # t => approvals'[u] = approvals[u]
  BY <1>1, <1>2 DEF Row
<1>4. Ahead(t)' /\ \A u \in Tasks : Ahead(u) => Ahead(u)'
  <2>1. [task |-> t, id |-> a.req] \in calls' /\ [task |-> t, id |-> a.req].task = t
    BY <1>1
  <2> QED BY <1>1, <2>1 DEF Ahead
<1>5. faults' >= faults /\ faults' <= MaxFaults BY <1>1, <1>2 DEF StrandInv
<1>6. \A u \in Tasks : Rests(u)
  BY <1>1, <1>3, <1>4, <1>5 DEF Rests, Pending, Granted, Unsettled
<1>7. \A v \in Slots : Busy(v)' = Busy(v) /\ TaskOf(v)' = TaskOf(v) /\ run'[v] = run[v]
  BY <1>1 DEF Busy, At, TaskOf
<1> QED BY <1>1, <1>5, <1>6, <1>7, StrandAround

\* A call that reaches the queue is a job that has cost nothing yet.
LEMMA StrandOfCall ==
    ASSUME IInv, StrandInv, NEW c \in calls, ReachQueue(c)
    PROVE  StrandInv'
<1> DEFINE j == [task |-> c.task, id |-> c.id, tries |-> 0, stalls |-> 0]
<1>1. /\ calls' = calls \ {c} /\ queue' = queue \cup {j} /\ faults \in Nat
      /\ UNCHANGED <<profile, faults, row, approvals, run, held, tree>>
  BY DEF ReachQueue, environment, disk, IInv, TypeInv, TypeOK
<1>2. \A u \in Tasks : Ahead(u) => Ahead(u)'
  <2>1. j.task = c.task OBVIOUS
  <2> HIDE DEF j
  <2> QED BY <1>1, <2>1 DEF Ahead
<1>3. faults' >= faults /\ faults' <= MaxFaults BY <1>1 DEF StrandInv
<1>4. \A u \in Tasks : Rests(u)
  BY <1>1, <1>2, <1>3 DEF Rests, Pending, Granted, Unsettled
<1>5. StrandJob(j)' BY <1>1 DEF StrandJob
<1>6. \A v \in Slots : Busy(v)' = Busy(v) /\ TaskOf(v)' = TaskOf(v) /\ run'[v] = run[v]
  BY <1>1 DEF Busy, At, TaskOf
<1>7. \A k \in queue' : k \in queue \/ StrandJob(k)' BY <1>1, <1>5
<1> HIDE DEF j
<1> QED BY <1>1, <1>3, <1>4, <1>6, <1>7, StrandAround

\* A job leaves the queue for a slot, which is then the only one of its task.
LEMMA StrandOfTake ==
    ASSUME IInv, StrandInv, Alone', NEW w \in Slots, Take(w)
    PROVE  StrandInv'
<1>1. /\ run \in Runs /\ faults \in Nat /\ queue \subseteq Job /\ ~Busy(w)
      /\ UNCHANGED <<profile, faults, row, approvals, calls, held, tree>>
      /\ \A v \in Slots : v # w => run'[v] = run[v]
  BY TakeFacts DEF Take, Busy, IInv, TypeInv, TypeOK, Runs, environment, disk
<1>2. PICK j \in queue : run'[w] = Begin(j) /\ queue' = queue \ {j} BY TakeFacts
<1>3. /\ Busy(w)' /\ TaskOf(w)' = j.task /\ j.task \in Tasks
      /\ run'[w].pc = "row" /\ run'[w].job = j /\ ~run'[w].threw /\ ~run'[w].ws
      /\ ~InLoop(w)'
  BY <1>1, <1>2 DEF Begin, Busy, At, TaskOf, Job, InLoop
<1>4. faults' >= faults /\ faults' <= MaxFaults BY <1>1 DEF StrandInv
<1>5. \A u \in Tasks : u # j.task => Rests(u)
  BY <1>1, <1>2, <1>4 DEF Rests, Pending, Granted, Unsettled, Ahead
<1>6. ASSUME NEW v \in Slots, Busy(v)', v # w
      PROVE  Busy(v) /\ run'[v] = run[v] /\ TaskOf(v) \in Tasks /\ TaskOf(v) # j.task
  <2>1. Busy(v) /\ run'[v] = run[v] /\ TaskOf(v)' = TaskOf(v)
    BY <1>1, <1>6 DEF Busy, At, TaskOf
  <2>2. TaskOf(v) \in Tasks BY <1>1, <2>1, BusySlot DEF Busy, At
  <2> QED BY <1>3, <1>6, <2>1, <2>2 DEF Alone, Busy
<1>7. ASSUME NEW u \in Tasks PROVE StrandTask(u)'
  <2>1. CASE u = j.task
    <3>1. StrandTask(u) BY DEF StrandInv
    <3> QED BY <1>1, <1>3, <2>1, <3>1 DEF StrandTask, Unsettled
  <2>2. CASE u # j.task
    <3>1. \A v \in Slots : Busy(v) /\ TaskOf(v) = u => Busy(v)' /\ TaskOf(v)' = u
      BY <1>1 DEF Busy, At, TaskOf
    <3> QED BY <1>1, <1>5, <2>2, <3>1, StrandTaskFrame
  <2> QED BY <2>1, <2>2
<1>8. ASSUME NEW v \in Slots, Busy(v)' PROVE StrandRun(v)'
  <2>1. CASE v = w
    <3>1. StrandJob(j)' BY <1>1 DEF StrandInv, StrandJob, Open
    <3> QED BY <1>3, <2>1, <3>1 DEF StrandRun, Spared, Equipped, Heard, Acting, At
  <2>2. CASE v # w
    BY <1>1, <1>5, <1>6, <1>8, <2>2, StrandRunFrame DEF StrandInv
  <2> QED BY <2>1, <2>2
<1>9. \A k \in queue' : StrandJob(k)' BY <1>1, <1>2 DEF StrandInv, StrandJob, Open
<1> QED BY <1>1, <1>4, <1>7, <1>8, <1>9 DEF StrandInv

\* A run that ends has left its task to someone, or is tried again.
LEMMA StrandOfRelease ==
    ASSUME IInv, StrandInv, MaxFaults < MaxAttempts, NEW w \in Slots, Release(w)
    PROVE  StrandInv'
<1>a. PICK t \in Tasks, j \in Job : t = TaskOf(w) /\ j = run[w].job
  BY ReleaseFacts DEF Run
<1>1. /\ run \in Runs /\ run[w] \in Run /\ Busy(w) /\ At(w, "release")
      /\ faults \in Nat /\ j.tries \in Nat /\ j.stalls \in Nat
      /\ UNCHANGED <<profile, faults, row, approvals, calls>>
      /\ \A v \in Slots : v # w => run'[v] = run[v]
      /\ ~Busy(w)' /\ held' = held \ {t}
      /\ queue' = queue \cup (IF run[w].threw THEN Retries(j) ELSE {})
      /\ MaxAttempts \in Nat /\ MaxFaults \in Nat
  BY <1>a, ReleaseFacts, ConstantsAssumption
  DEF Release, environment, Run, Job, IInv, TypeInv, TypeOK, At
<1>2. faults' >= faults /\ faults' <= MaxFaults BY <1>1 DEF StrandInv
<1>3. \A u \in Tasks : Ahead(u) => Ahead(u)' BY <1>1 DEF Ahead
<1>4. \A u \in Tasks : Unsettled(u) => tree'[u] = tree[u]
  BY ReleaseFacts DEF Same, Unsettled
<1>5. \A u \in Tasks : Rests(u)
  BY <1>1, <1>2, <1>3, <1>4 DEF Rests, Pending, Granted, Unsettled
<1>6. StrandRun(w) /\ j.task = t BY <1>a, <1>1 DEF StrandInv, TaskOf
<1>7. \A k \in queue' : k \in queue \/ StrandJob(k)'
  <2>1. ASSUME run[w].threw, NEW k \in Retries(j) PROVE StrandJob(k)'
    <3>1. k.task = t /\ k.tries = j.tries + 1 /\ k.stalls = j.stalls
      BY <1>1, <1>6, <2>1 DEF Retries, Job
    <3> QED BY <1>a, <1>1, <1>6, <2>1, <3>1 DEF StrandRun, Spared, StrandJob, Open
  <2> QED BY <1>1, <2>1
<1>8. Open(t)' => Left(t)'
  <2> SUFFICES ASSUME Open(t) PROVE Left(t)' BY <1>1 DEF Open
  <2>1. CASE run[w].threw
    <3>1. j.tries + 1 < MaxAttempts
      BY <1>a, <1>1, <1>2, <1>6, <2>1 DEF StrandRun, Spared
    <3>2. [j EXCEPT !.tries = @ + 1] \in queue' BY <1>1, <2>1, <3>1 DEF Retries
    <3>3. [j EXCEPT !.tries = @ + 1].task = t BY <1>1, <1>6 DEF Job
    <3> QED BY <3>2, <3>3 DEF Left, Ahead
  <2>2. CASE ~run[w].threw
    <3>1. Left(t) BY <1>a, <1>1, <1>6, <2>2 DEF StrandRun, Heard
    <3> QED BY <1>1, <1>3, <3>1 DEF Left, Pending
  <2> QED BY <2>1, <2>2
<1>9. \A v \in Slots : v # w => Busy(v)' = Busy(v) /\ TaskOf(v)' = TaskOf(v)
  BY <1>1 DEF Busy, At, TaskOf
<1> QED BY <1>a, <1>1, <1>2, <1>5, <1>7, <1>8, <1>9, StrandAround

\* A step that throws is a fault more than its job has been tried for.
LEMMA StrandOfThrow ==
    ASSUME IInv, StrandInv, NEW w \in Slots, Throw(w)
    PROVE  StrandInv'
<1> DEFINE t == TaskOf(w)
           j == run[w].job
<1>1. /\ run[w] \in Run /\ t \in Tasks /\ Busy(w) /\ t' = t
      /\ j \in Job /\ run'[w].job = j /\ faults \in Nat /\ j.tries \in Nat
      /\ j.stalls \in Nat /\ faults' = faults + 1 /\ MaxFaults \in Nat
      /\ \A v \in Slots : v # w => run'[v] = run[v]
      /\ UNCHANGED <<profile, row, approvals, calls, queue, held, tree>>
      /\ run'[w] \in Run /\ j.task = t
  BY ThrowFacts, ConstantsAssumption
  DEF HandsOn, Run, Job, IInv, TypeInv, TypeOK, disk, TaskOf
<1>2. faults' \in Nat /\ faults' >= faults /\ faults' <= MaxFaults
  BY <1>1, ThrowFacts
<1>3. \A u \in Tasks : Rests(u)
  BY <1>1, <1>2 DEF Rests, Pending, Granted, Unsettled, Ahead
<1>4. StrandRun(w) BY <1>1 DEF StrandInv
<1>5. Open(t)' = Open(t) /\ Answerable(t)' = Answerable(t) /\ Granted(t)' = Granted(t)
      /\ Ahead(t)' = Ahead(t)
  BY <1>1 DEF Open, Answerable, Ahead, Pending, Granted
<1>6. StrandRun(w)'
  <2>1. Spared(w)' BY <1>1, <1>4, <1>5 DEF StrandRun, Spared, StrandJob
  <2>2. CASE Cleared(w) /\ run'[w].pc = "release" /\ run'[w].threw
    BY <2>1, <2>2 DEF StrandRun, Cleared, Equipped, Heard, InLoop, Acting, At
  <2>3. CASE Stumbles(w)
    <3>1. Equipped(w)'
      BY <1>1, <1>4, <1>5, <2>3 DEF Stumbles, StrandRun, Equipped, ModeOf, At
    <3>2. Open(t) => Heard(w)'
      BY <1>1, <1>4, <1>5, <2>3
      DEF Stumbles, StrandRun, Heard, SnapOf, InLoop, Acting, At
    <3> QED BY <1>1, <1>5, <2>1, <3>1, <3>2 DEF StrandRun
  <2> QED BY <2>2, <2>3, ThrowFacts
<1>7. \A v \in Slots : Busy(v) => Busy(v)' /\ TaskOf(v)' = TaskOf(v)
  BY <1>1 DEF Busy, At, TaskOf, Run, RunPCs
<1>8. \A v \in Slots : Busy(v)' => StrandRun(v)' \/ (Busy(v) /\ run'[v] = run[v])
  BY <1>1, <1>6 DEF Busy, At
<1> QED BY <1>1, <1>2, <1>3, <1>7, <1>8, StrandAround

\* A crash puts every job back, none of which has stalled once for every fault.
LEMMA StrandOfCrash ==
    ASSUME IInv, StrandInv, MaxFaults <= MaxStalls, Crash
    PROVE  StrandInv'
<1>1. /\ run \in Runs /\ faults \in Nat /\ faults < MaxFaults /\ faults' = faults + 1
      /\ UNCHANGED <<profile, row, approvals, calls, tree>> /\ held' = {}
      /\ queue' = queue \cup {[run[w].job EXCEPT !.stalls = @ + 1] : w \in Recovered}
      /\ \A v \in Slots : ~Busy(v)'
      /\ MaxFaults \in Nat /\ MaxStalls \in Nat
  BY ConstantsAssumption DEF Crash, Busy, At, Idle, IInv, TypeInv, TypeOK, Runs
<1>2. faults' \in Nat /\ faults' >= faults /\ faults' <= MaxFaults BY <1>1
<1>3. \A u \in Tasks : Ahead(u) => Ahead(u)' BY <1>1 DEF Ahead
<1>4. \A u \in Tasks : Rests(u)
  BY <1>1, <1>2, <1>3 DEF Rests, Pending, Granted, Unsettled
<1>5. ASSUME NEW v \in Slots, Busy(v)
      PROVE  LET j == [run[v].job EXCEPT !.stalls = @ + 1] IN
             /\ j.task = TaskOf(v) /\ j.stalls = run[v].job.stalls + 1
             /\ j.tries = run[v].job.tries /\ run[v].job.stalls \in Nat
             /\ run[v].job.tries \in Nat /\ TaskOf(v) \in Tasks
  <2>1. run[v].job \in Job /\ TaskOf(v) \in Tasks BY <1>1, <1>5, BusySlot DEF Busy, At
  <2> QED BY <2>1 DEF Job, TaskOf
<1>6. ASSUME NEW v \in Slots, Busy(v), NEW u \in Tasks, u = TaskOf(v) PROVE Ahead(u)'
  <2>1. run[v].job.stalls <= faults
    BY <1>6 DEF StrandInv, StrandRun, Spared, StrandJob
  <2>2. v \in Recovered BY <1>1, <1>5, <1>6, <2>1 DEF Recovered, Busy
  <2>3. \E j \in queue' : j.task = u BY <1>1, <1>5, <1>6, <2>2
  <2> QED BY <2>3 DEF Ahead
<1>7. ASSUME NEW k \in queue', k \notin queue PROVE StrandJob(k)'
  <2>1. PICK v \in Recovered : k = [run[v].job EXCEPT !.stalls = @ + 1] BY <1>1, <1>7
  <2>2. v \in Slots /\ Busy(v) BY <2>1 DEF Recovered, Busy
  <2>3. Spared(v) BY <2>2 DEF StrandInv, StrandRun
  <2>4. k.task = TaskOf(v) /\ run[v].job.task = TaskOf(v) BY <1>5, <2>1, <2>2 DEF TaskOf
  <2>5. Open(k.task)' = Open(k.task) BY <1>1 DEF Open
  <2> QED BY <1>1, <1>5, <2>1, <2>2, <2>3, <2>4, <2>5 DEF Spared, StrandJob
<1> QED BY <1>1, <1>2, <1>4, <1>6, <1>7, StrandAround DEF Left

LEMMA StrandNext ==
    ASSUME ~CallsLost, MaxFaults <= MaxStalls, MaxFaults < MaxAttempts
    PROVE  IInv /\ Alone /\ Alone' /\ OneInv /\ StrandInv /\ [Next]_vars => StrandInv'
<1> SUFFICES ASSUME IInv, Alone, Alone', OneInv, StrandInv, [Next]_vars PROVE StrandInv'
  OBVIOUS
<1>1. CASE UNCHANGED vars
  <2>1. /\ UNCHANGED <<profile, row, approvals, calls, queue, run, held, tree, faults>>
        /\ faults \in Nat /\ faults' >= faults /\ faults' <= MaxFaults
    BY <1>1 DEF vars, environment, disk, IInv, TypeInv, TypeOK, StrandInv
  <2>2. \A u \in Tasks : Rests(u)
    BY <2>1 DEF Rests, Pending, Granted, Ahead, Unsettled
  <2>3. \A v \in Slots : Busy(v)' = Busy(v) /\ TaskOf(v)' = TaskOf(v)
    BY <2>1 DEF Busy, At, TaskOf
  <2> QED BY <2>1, <2>2, <2>3, StrandAround
<1>2. ASSUME NEW t \in Tasks, Create(t) \/ Cancel(t) \/ Reclaim(t) PROVE StrandInv'
  BY <1>2, StrandOfAPI
<1>3. ASSUME NEW t \in Tasks, NEW v \in {"approved", "rejected"}, Decide(t, v)
      PROVE  StrandInv'
  BY <1>3, StrandOfDecide
<1>4. ASSUME NEW c \in calls, ReachQueue(c) \/ LoseCall(c) PROVE StrandInv'
  BY <1>4, StrandOfCall DEF LoseCall
<1>5. ASSUME NEW w \in Slots, Take(w) PROVE StrandInv'
  BY <1>5, StrandOfTake
<1>6. ASSUME NEW w \in Slots, Release(w) PROVE StrandInv'
  BY <1>6, StrandOfRelease
<1>7. ASSUME NEW w \in Slots, Throw(w) PROVE StrandInv'
  BY <1>7, StrandOfThrow
<1>8. ASSUME NEW w \in Slots, Work(w) PROVE StrandInv'
  BY <1>6, <1>8, WorkKinds, StrandOfStep
<1>9. CASE Crash BY <1>9, StrandOfCrash
<1> QED BY <1>1, <1>2, <1>3, <1>4, <1>5, <1>6, <1>7, <1>8, <1>9 DEF Next

\* A task that is neither settled nor waiting for a person is waiting for the platform,
\* where the runs of a task do not overlap, no call to the queue is lost, and the faults
\* are fewer than the queue's attempts and no more than its stalls: then every run that
\* ends leaves its task settled, asked about, or with a run to come.
THEOREM NotStrandedAlone ==
    ASSUME ~CallsLost, MaxFaults <= MaxStalls, MaxFaults < MaxAttempts
    PROVE  Spec /\ []Alone => []NotStranded
<1>1. Spec /\ []Alone => []StrandInv
  BY StrandInit, StrandNext, OneInvariant, PTL DEF Spec
<1>2. StrandInv => NotStranded
  BY DEF StrandInv, StrandTask, Left, Ahead, Open, Busy, NotStranded, UnderWay
<1> QED BY <1>1, <1>2, PTL
=============================================================================
