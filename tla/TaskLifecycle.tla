---------------------------- MODULE TaskLifecycle ----------------------------
(***************************************************************************)
(* One agent task from the API call that creates it to the status it       *)
(* settles at: the task row and its approvals in PostgreSQL, the BullMQ    *)
(* jobs in Redis, the worker process whose slots run AgentWorkflow.run,    *)
(* the workspace directory on disk and the remote repository.              *)
(*                                                                         *)
(* Every await that separates two effects of the workflow is a boundary    *)
(* between two actions here, so two runs of one task, a person deciding,   *)
(* a cancellation and a crash interleave as they do in the program.  What  *)
(* the model answers, how tools word their output, events and audit rows   *)
(* are left out; which status a step may reach from what it read is not.   *)
(*                                                                         *)
(* A repository task works in a clone of its own ("clone") or in a         *)
(* worktree of the clone kept for its project ("worktree"); a task against *)
(* a live instance ("odoo_online") or of a project with no repository      *)
(* ("none") has a directory with nothing in it.  Left out: on-premise      *)
(* tasks, which work in place, and WORKSPACE_RETAIN_ON_FAILURE, off here.  *)
(***************************************************************************)
EXTENDS Naturals, TaskStates

CONSTANTS Tasks,        \* agent task ids
          Slots,        \* the worker's concurrency: runs one process carries
          Profiles,     \* the kinds of task under study, see Profile
          PushEnabled,  \* GIT_PUSH_ENABLED
          AutoPush,     \* GIT_AUTO_PUSH_ON_TASK
          MaxAttempts,  \* defaultJobOptions.attempts
          MaxStalls,    \* BullMQ maxStalledCount (its default)
          MaxStops,     \* how often one loop may be stopped (AI_MAX_STEPS)
          MaxFaults,    \* bound: crashes, thrown steps and lost calls of a run
          CallsLost     \* whether a call to the queue may be among the faults

\* What is fixed when a task is created: kind and mode, the gates the tools its
\* model reaches for can meet, whether its target is a development or staging
\* environment (auto), whether a push of it needs a backup first (guarded), and
\* whether the branch already carries commits its remote does not have (ahead).
Profile == {p \in [kind: {"change", "chat"}, mode: Modes, gates: SUBSET ToolGates,
                   auto: BOOLEAN, guarded: BOOLEAN, ahead: BOOLEAN] :
               /\ p.gates \subseteq GatesOf(p.kind, p.mode)
               /\ p.ahead => p.mode = "worktree"}

ASSUME ConstantsAssumption ==
    /\ Profiles \subseteq Profile
    /\ PushEnabled \in BOOLEAN /\ AutoPush \in BOOLEAN /\ CallsLost \in BOOLEAN
    /\ MaxAttempts \in Nat /\ MaxStalls \in Nat
    /\ MaxStops \in Nat /\ MaxFaults \in Nat

VARIABLES profile,    \* what the task was created as
          row,        \* agent_tasks: status, saved plan, recorded commit
          approvals,  \* approvals: the rows of a task
          calls,      \* queue calls the API process still has to make
          queue,      \* waiting jobs of the agent queue
          run,        \* the worker's slots
          held,       \* AgentWorkflow.workspaces: the process's map
          tree,       \* the task's workspace directory
          remote,     \* commits of the task's branch on the remote
          effects,    \* what the task's tools have changed so far
          faults      \* faults so far

vars == <<profile, row, approvals, calls, queue, run, held, tree, remote, effects,
          faults>>
environment == <<profile, faults>>
disk == <<held, tree, remote, effects>>

-----------------------------------------------------------------------------
(* Types *)

Deliveries == {"commit", "push_existing"}
Row == [status: Statuses \cup {"absent"}, plan: Nat, deliver: Deliveries,
        hash: Nat, clock: Nat]
\* An approvals row; req and dec order requestedAt and decidedAt.
Approval == [action: Actions, status: {"pending", "approved", "rejected"},
             req: Nat, dec: Nat, plan: Nat]
\* A call to the queue, and the job it adds: id 0 is the execute job, id n the
\* resumption after the approval requested at n.
Call == [task: Tasks, id: Nat]
Job == [task: Tasks, id: Nat, tries: Nat, stalls: Nat]
Decision == [action: Actions, status: {"approved", "rejected"}]
Snapshot == [status: Statuses, plan: Nat, deliver: Deliveries, hash: Nat,
             grants: SUBSET Actions, pending: BOOLEAN, last: SUBSET Decision]
RunPCs == {"row", "approvals", "step", "select", "insert", "hash", "deliver",
           "settle", "release"}
Run == {r \in [pc: RunPCs, job: Job, snap: Snapshot, ws: BOOLEAN,
               ask: Actions \cup {"none"}, auto: BOOLEAN, plan: Nat,
               next: Statuses, threw: BOOLEAN, stops: Nat] :
           r.pc \in {"select", "insert"} => r.ask # "none"}
Idle == [pc |-> "idle"]
\* The directory a task's runs work in: whether it is there, has uncommitted changes,
\* and the commits its HEAD has beyond the remote tip the task started from; and
\* whether directories an earlier run of the task gave up are still there.
Tree == [dir: BOOLEAN, dirty: BOOLEAN, head: Nat, stale: BOOLEAN]

-----------------------------------------------------------------------------
(* What the rows say *)

\* (Variant: any decision grants.)
GrantedOnceDecided(t) ==
    {a.action : a \in {b \in approvals[t] : b.status # "pending"}}
Granted(t) == {a.action : a \in {b \in approvals[t] : b.status = "approved"}}
Pending(t) == {a \in approvals[t] : a.status = "pending"}
Decided(t) == {a \in approvals[t] : a.status # "pending"}
\* (Variant: an approved row is not found again.)
StandingIfPending(t, action) == {a \in Pending(t) : a.action = action}
\* The rows approvals.request and autoGrant look for before they insert.
Standing(t, action) == {a \in approvals[t] : a.action = action /\ a.status # "rejected"}
\* The decision made last: at most one, decidedAt being distinct.
LastDecision(t) ==
    {[action |-> a.action, status |-> a.status] :
        a \in {d \in Decided(t) : \A b \in Decided(t) : b.dec <= d.dec}}

\* A change a tool makes: past the gate it names, or one no gate is about (a file
\* of a change task, odoo_create_field).
Effects == ToolGates \cup {"write"}

TaskOf(w) == run[w].job.task
SnapOf(w) == run[w].snap
ModeOf(w) == profile[TaskOf(w)].mode
KindOf(w) == profile[TaskOf(w)].kind

\* (Variant: one grant opens every gate.)
NeedsApprovalOnce(w, action) == SnapOf(w).grants = {}
\* PermissionValidator: the gate a tool call of this run would be stopped at.
NeedsApproval(w, action) ==
    /\ action \notin SnapOf(w).grants
    /\ ~ /\ action \in CoveredByPlan
         /\ KindOf(w) = "change"
         /\ "implementation_plan" \in SnapOf(w).grants

-----------------------------------------------------------------------------
(* The API process *)

EmptySnap == [status |-> "created", plan |-> 0, deliver |-> "commit", hash |-> 0,
              grants |-> {}, pending |-> FALSE, last |-> {}]
Begin(job) == [pc |-> "row", job |-> job, snap |-> EmptySnap, ws |-> FALSE,
               ask |-> "none", auto |-> FALSE, plan |-> 0, next |-> "queued",
               threw |-> FALSE, stops |-> 0]

\* TasksService.create: the row is committed, the job not yet enqueued.
Create(t) ==
    /\ row[t].status = "absent"
    /\ row' = [row EXCEPT ![t].status = "created"]
    /\ calls' = calls \cup {[task |-> t, id |-> 0]}
    /\ UNCHANGED <<environment, approvals, queue, run, disk>>

\* (Variant: the decision is written, and the task resumed only if it was approved.)
DecideResumingApprovals(t, verdict) ==
    \E a \in Pending(t) :
        /\ \A b \in Pending(t) : b.req <= a.req
        /\ approvals' = [approvals EXCEPT ![t] =
               (@ \ {a}) \cup {[a EXCEPT !.status = verdict, !.dec = row[t].clock]}]
        /\ row' = [row EXCEPT ![t].clock = @ + 1]
        /\ calls' = calls \cup {[task |-> t, id |-> a.req] : v \in {verdict} \ {"rejected"}}
        /\ UNCHANGED <<environment, queue, run, disk>>

\* ApprovalService.decide: the latest pending row is decided, whatever the task's
\* status; the resumption is enqueued afterwards.
Decide(t, verdict) ==
    \E a \in Pending(t) :
        /\ \A b \in Pending(t) : b.req <= a.req
        /\ approvals' = [approvals EXCEPT ![t] =
               (@ \ {a}) \cup {[a EXCEPT !.status = verdict, !.dec = row[t].clock]}]
        /\ row' = [row EXCEPT ![t].clock = @ + 1]
        /\ calls' = calls \cup {[task |-> t, id |-> a.req]}
        /\ UNCHANGED <<environment, queue, run, disk>>

\* TasksService.cancel, and QueueAgentOrchestrator.cancel after it: the status, then
\* the execute job if it is still waiting.  A removal that comes late, is refused or
\* never happens leaves a job that finds the task settled, so the removal shares the
\* step of the status, or does not happen.
Cancel(t) ==
    /\ row[t].status \notin Terminal \cup {"absent"}
    /\ row' = [row EXCEPT ![t].status = "cancelled"]
    /\ \/ queue' = {j \in queue : ~(j.task = t /\ j.id = 0)}
       \/ UNCHANGED queue
    /\ UNCHANGED <<environment, approvals, calls, run, disk>>

\* QueueAgentOrchestrator.start and resume reach Redis.
ReachQueue(c) ==
    /\ c \in calls
    /\ calls' = calls \ {c}
    /\ queue' = queue \cup {[task |-> c.task, id |-> c.id, tries |-> 0, stalls |-> 0]}
    /\ UNCHANGED <<environment, row, approvals, run, disk>>

\* The API dies, or Redis refuses, between the row and the queue.
LoseCall(c) ==
    /\ c \in calls
    /\ CallsLost /\ faults < MaxFaults
    /\ faults' = faults + 1
    /\ calls' = calls \ {c}
    /\ UNCHANGED <<profile, row, approvals, queue, run, disk>>

-----------------------------------------------------------------------------
(* AgentWorkflow.run: the loop *)

At(w, pc) == run[w].pc = pc
AtStep(w, status) == At(w, "step") /\ SnapOf(w).status = status
Goto(w, pc) == run' = [run EXCEPT ![w].pc = pc]
SettleTo(w, status) ==
    run' = [run EXCEPT ![w].pc = "settle", ![w].next = status, ![w].ws = FALSE]
\* Around the loop again with a fresh snapshot, or out of it.
Again(w) == run' = [run EXCEPT ![w] = Begin(@.job)]
EndRun(w, threw) ==
    run' = [run EXCEPT ![w] = [Begin(@.job) EXCEPT !.pc = "release", !.threw = threw]]

\* A slot takes a waiting job.
Take(w) ==
    /\ At(w, "idle")
    /\ \E j \in queue : /\ queue' = queue \ {j}
                        /\ run' = [run EXCEPT ![w] = Begin(j)]
    /\ UNCHANGED <<environment, row, approvals, calls, disk>>

\* snapshot() reads the task row first ...
LoadRow(w) ==
    /\ At(w, "row")
    /\ LET r == row[TaskOf(w)] IN
       run' = [run EXCEPT ![w].pc = "approvals",
                  ![w].snap = [@ EXCEPT !.status = r.status, !.plan = r.plan,
                                        !.deliver = r.deliver, !.hash = r.hash]]
    /\ UNCHANGED <<environment, row, approvals, calls, queue, disk>>

\* ... and the approvals in a later query.  A settled task then ends the run, and
\* shouldStop yields when the status has moved since (its read has no effect and
\* tells nothing of the approvals, so it shares the step that reads those).
LoadApprovals(w) ==
    /\ At(w, "approvals")
    /\ LET t == TaskOf(w) IN
       IF SnapOf(w).status \in Terminal \/ row[t].status # SnapOf(w).status
       THEN EndRun(w, FALSE)
       ELSE run' = [run EXCEPT ![w].pc = "step", ![w].snap.grants = Granted(t),
                               ![w].snap.pending = (Pending(t) # {}),
                               ![w].snap.last = LastDecision(t)]
    /\ UNCHANGED <<environment, row, approvals, calls, queue, disk>>

\* (Variant: the UPDATE does not ask for the status that was read.)
AppliesAnyway(w) == TRUE
\* TaskRepository.transition: an illegal edge throws; otherwise one conditional
\* UPDATE, which tells the step whether the task was still where it was read.
Applies(w) == row[TaskOf(w)].status = SnapOf(w).status
Transition(w, to) ==
    IF CanTransition(SnapOf(w).status, to)
    THEN /\ row' = IF Applies(w) THEN [row EXCEPT ![TaskOf(w)].status = to] ELSE row
         /\ IF Applies(w) THEN Again(w) ELSE EndRun(w, FALSE)
    ELSE EndRun(w, TRUE) /\ UNCHANGED row

\* The transition a step that already touched something else ends with.
Settle(w) ==
    /\ At(w, "settle") /\ ~run[w].ws
    /\ Transition(w, run[w].next)
    /\ UNCHANGED <<environment, approvals, calls, queue, disk>>

\* The finally of run(): the status is read again, the map entry goes, and the
\* directory with it once the task has settled.  A job that threw is retried.
\* (A worktree's commits stay on its branch in the project's clone.)
Removed(t) == [tree[t] EXCEPT !.dir = FALSE, !.dirty = FALSE,
                              !.head = IF profile[t].mode = "worktree" THEN @ ELSE 0]
\* (Variant: the directory goes however the run ended.)
DiscardsAtOnce(t) == t \in held
Discards(t) == t \in held /\ row[t].status \in Terminal
\* (Variant: tries counted down.)
RetriesCountDown(j) == {[j EXCEPT !.tries = @ - 1]}
Retries(j) == IF j.tries + 1 < MaxAttempts THEN {[j EXCEPT !.tries = @ + 1]} ELSE {}
Release(w) ==
    /\ At(w, "release")
    /\ LET t == TaskOf(w) IN
       /\ held' = held \ {t}
       /\ tree' = IF Discards(t) THEN [tree EXCEPT ![t] = Removed(t)] ELSE tree
       /\ queue' = queue \cup (IF run[w].threw THEN Retries(run[w].job) ELSE {})
    /\ run' = [run EXCEPT ![w] = Idle]
    /\ UNCHANGED <<environment, row, approvals, calls, remote, effects>>

-----------------------------------------------------------------------------
(* AgentWorkflow.step: the steps that only move the task *)

MoveOn(w) ==
    /\ \/ AtStep(w, "created")  /\ Transition(w, "queued")
       \/ AtStep(w, "queued")   /\ Transition(w, "analyzing")
       \/ AtStep(w, "building") /\ Transition(w, "completed")
    /\ UNCHANGED <<environment, approvals, calls, queue, disk>>

\* (Variant: a resumption that does not ask which way the decision went.)
ResumeOnceDecided(w) ==
    /\ AtStep(w, "waiting_approval")
    /\ LET s == SnapOf(w) IN
       IF s.pending THEN EndRun(w, FALSE) /\ UNCHANGED row
       ELSE \E d \in s.last : Transition(w, Resumption(d.action))
    /\ UNCHANGED <<environment, approvals, calls, queue, disk>>
\* (Variant: a resumption that finds its decision and does nothing with it.)
ResumeWithoutDeciding(w) ==
    /\ AtStep(w, "waiting_approval")
    /\ EndRun(w, FALSE)
    /\ UNCHANGED <<environment, row, approvals, calls, queue, disk>>
ResumeFromApproval(w) ==
    /\ AtStep(w, "waiting_approval")
    /\ LET s == SnapOf(w) IN
       IF s.pending THEN EndRun(w, FALSE) /\ UNCHANGED row
       ELSE \/ \E d \in s.last : /\ d.status = "approved"
                                /\ Transition(w, Resumption(d.action))
            \/ /\ \A d \in s.last : d.status = "rejected"
               /\ Transition(w, "failed")
    /\ UNCHANGED <<environment, approvals, calls, queue, disk>>

-----------------------------------------------------------------------------
(* The steps that work in the task's workspace *)

Working == {"analyzing", "planning", "implementing", "testing", "committing", "pushing"}
AtWork(w, status) == AtStep(w, status) /\ run[w].ws
\* The model has its tools: a change task without its plan fails before it does.  One
\* turn of the model calls several tools at once, so a write may go on while another
\* tool is asking for approval; and what stops one tool does not stop the loop.
InLoop(w) == SnapOf(w).status = "implementing" /\ run[w].ws
AtTools(w) ==
    /\ run[w].pc \in {"step", "select", "insert", "settle"} /\ InLoop(w)
    /\ KindOf(w) = "change" => SnapOf(w).plan # 0

\* A directory may be taken up again while it holds the commit the task recorded
\* (WorkspaceManager.reattach); one with nothing cloned into it never is.
Reattachable(t, hash) ==
    tree[t].dir /\ profile[t].mode \in FileModes /\ hash \in {0, tree[t].head}
\* A second worktree of a branch is refused.
Refused(t) == profile[t].mode = "worktree" /\ tree[t].dir
\* A clone starts at the remote's tip, a worktree at its branch's.
Fresh(t) == [dir |-> TRUE, dirty |-> FALSE, stale |-> tree[t].stale \/ tree[t].dir,
             head |-> IF profile[t].mode = "worktree" THEN tree[t].head ELSE remote[t]]

\* acquireWorkspace: the one this process holds, the task's own directory, or a new one.
Acquire(w) ==
    /\ At(w, "step") /\ SnapOf(w).status \in Working /\ ~run[w].ws
    /\ LET t == TaskOf(w) IN
       /\ held' = held \cup {t}
       /\ IF t \in held \/ Reattachable(t, SnapOf(w).hash) THEN UNCHANGED tree
          ELSE ~Refused(t) /\ tree' = [tree EXCEPT ![t] = Fresh(t)]
    /\ run' = [run EXCEPT ![w].ws = TRUE]
    /\ UNCHANGED <<environment, row, approvals, calls, queue, remote, effects>>

\* The workspace cannot be prepared: analyze fails the task with the reason.
AnalyzeUnprepared(w) ==
    /\ AtStep(w, "analyzing") /\ ~run[w].ws /\ ModeOf(w) # "odoo_online"
    /\ Transition(w, "failed")
    /\ UNCHANGED <<environment, approvals, calls, queue, disk>>

\* analyze: only a chat skips the plan.
Analyze(w) ==
    /\ AtWork(w, "analyzing") /\ ModeOf(w) # "odoo_online"
    /\ Transition(w, IF KindOf(w) = "chat" THEN "implementing" ELSE "planning")
    /\ UNCHANGED <<environment, approvals, calls, queue, disk>>

\* analyzeOdooOnline: a chat gets a plan too, and the instance may not be readable.
AnalyzeOdooOnline(w) ==
    /\ AtWork(w, "analyzing") /\ ModeOf(w) = "odoo_online"
    /\ \E to \in {"planning", "failed"} : Transition(w, to)
    /\ UNCHANGED <<environment, approvals, calls, queue, disk>>

\* approvals.request, and approvals.autoGrant when auto: both look for a standing
\* row first and insert in a second statement.
AskFor(w, action, auto, next) ==
    run' = [run EXCEPT ![w].pc = "select", ![w].ask = action, ![w].auto = auto,
                       ![w].next = next]
Asked(w) == run' = [run EXCEPT ![w].pc = "settle", ![w].ws = InLoop(w),
                               ![w].ask = "none", ![w].auto = FALSE, ![w].plan = 0]

SelectStanding(w) ==
    /\ At(w, "select")
    /\ IF Standing(TaskOf(w), run[w].ask) # {} THEN Asked(w) ELSE Goto(w, "insert")
    /\ UNCHANGED <<environment, row, approvals, calls, queue, disk>>

\* onConflictDoNothing meets the unique index on pending rows only.
InsertApproval(w) ==
    /\ At(w, "insert")
    /\ LET t == TaskOf(w)  auto == run[w].auto
           new == [action |-> run[w].ask, status |-> IF auto THEN "approved" ELSE "pending",
                   req |-> row[t].clock, dec |-> row[t].clock, plan |-> run[w].plan]
           conflict == ~auto /\ \E a \in Pending(t) : a.action = run[w].ask IN
       IF conflict THEN UNCHANGED <<row, approvals>>
       ELSE /\ approvals' = [approvals EXCEPT ![t] = @ \cup {new}]
            /\ row' = [row EXCEPT ![t].clock = @ + 1]
    /\ Asked(w)
    /\ UNCHANGED <<environment, calls, queue, disk>>

\* The plan is saved over whatever the row held, and approval of it asked for.
PutForward(w, deliver) ==
    LET t == TaskOf(w) IN
    /\ row' = [row EXCEPT ![t].plan = @ + 1, ![t].deliver = deliver]
    /\ run' = [run EXCEPT ![w].pc = "select", ![w].ask = "implementation_plan",
                          ![w].next = "waiting_approval", ![w].plan = row[t].plan + 1]

\* plan: the model fails, or plans; it may find that the branch only needs pushing.
Plan(w) ==
    /\ AtWork(w, "planning") /\ ModeOf(w) # "odoo_online"
    /\ \/ Transition(w, "failed")
       \/ PutForward(w, "commit")
       \/ profile[TaskOf(w)].ahead /\ PutForward(w, "push_existing")
    /\ UNCHANGED <<environment, approvals, calls, queue, disk>>

PlanOdooOnline(w) ==
    /\ AtWork(w, "planning") /\ ModeOf(w) = "odoo_online"
    /\ Transition(w, "failed") \/ PutForward(w, "commit")
    /\ UNCHANGED <<environment, approvals, calls, queue, disk>>

\* A tool the model calls is stopped at a gate (callTool): approval is asked for ...
ToolStopped(w) ==
    /\ At(w, "step") /\ AtTools(w) /\ run[w].stops < MaxStops
    /\ \E g \in profile[TaskOf(w)].gates :
          NeedsApproval(w, g) /\ AskFor(w, g, FALSE, "waiting_approval")
    /\ UNCHANGED <<environment, row, approvals, calls, queue, disk>>

\* ... and the task moved to waiting_approval, without looking whether a decision has
\* come in.  The loop is told to halt; a hosted model's loop goes on to its own end.
SuspendTask(w) ==
    /\ At(w, "settle") /\ InLoop(w)
    /\ row' = IF Applies(w) THEN [row EXCEPT ![TaskOf(w)].status = "waiting_approval"]
                            ELSE row
    /\ run' = [run EXCEPT ![w].pc = "step", ![w].next = "queued", ![w].stops = @ + 1]
    /\ UNCHANGED <<environment, approvals, calls, queue, disk>>

\* The loop is over and a tool was stopped in it: the run ends (outcome.suspended).
LoopHalted(w) ==
    /\ At(w, "step") /\ InLoop(w) /\ run[w].stops > 0
    /\ EndRun(w, FALSE)
    /\ UNCHANGED <<environment, row, approvals, calls, queue, disk>>

\* failOnModelError: the provider failed, or refused, whatever the loop did before.
ModelFails(w) ==
    /\ AtWork(w, "implementing")
    /\ Transition(w, "failed")
    /\ UNCHANGED <<environment, approvals, calls, queue, disk>>

\* A tool changes a file of the clone, or the live instance.
Change(w, effect) ==
    LET t == TaskOf(w) IN
    /\ ModeOf(w) \in FileModes => tree[t].dir
    /\ tree' = [tree EXCEPT ![t].dirty = (ModeOf(w) \in FileModes)]
    /\ effects' = [effects EXCEPT ![t] = @ \cup {effect}]
    /\ UNCHANGED <<environment, row, approvals, calls, queue, run, held, remote>>

\* A tool past its gate: allowed by the grants this run read.
UseGatedTool(w) ==
    /\ AtTools(w)
    /\ \E g \in profile[TaskOf(w)].gates : ~NeedsApproval(w, g) /\ Change(w, g)

\* verifyOdooOnline runs the loop again over what was built, with every tool but those
\* that create fields, models and views.
Sample(w) ==
    /\ AtWork(w, "testing") /\ KindOf(w) = "change" /\ ModeOf(w) = "odoo_online"
    /\ \E g \in profile[TaskOf(w)].gates \ {"odoo_model_create"} :
          ~NeedsApproval(w, g) /\ Change(w, g)

\* A tool that meets no gate, as every write of a chat about files does.
UseTool(w) ==
    /\ AtTools(w) /\ ModeOf(w) # "none"
    /\ ~(KindOf(w) = "chat" /\ ModeOf(w) \in FileModes)
    /\ Change(w, "write")

\* The loop ended with no tool stopped.
LoopEnded(w) == AtWork(w, "implementing") /\ run[w].stops = 0

\* implement: a change with no plan or no repository has nowhere to go but failed, and
\* neither has one whose plan named files and whose loop left none changed.
Implement(w) ==
    /\ LoopEnded(w) /\ KindOf(w) = "change" /\ ModeOf(w) # "odoo_online"
    /\ \/ Transition(w, "failed")
       \/ /\ SnapOf(w).plan # 0 /\ ModeOf(w) \in FileModes /\ tree[TaskOf(w)].dir
          /\ Transition(w, "testing")
    /\ UNCHANGED <<environment, approvals, calls, queue, disk>>

\* implementChat, whatever the mode: no answer and nothing written fails it.
ImplementChat(w) ==
    /\ LoopEnded(w) /\ KindOf(w) = "chat"
    /\ ModeOf(w) \in FileModes => tree[TaskOf(w)].dir
    /\ \/ ~tree[TaskOf(w)].dirty /\ Transition(w, "failed")
       \/ Transition(w, "testing")
    /\ UNCHANGED <<environment, approvals, calls, queue, disk>>

\* implementOdooOnline: a plan of which no tool has applied anything failed.
ImplementOdooOnline(w) ==
    /\ LoopEnded(w) /\ KindOf(w) = "change" /\ ModeOf(w) = "odoo_online"
    /\ \/ Transition(w, "failed")
       \/ /\ SnapOf(w).plan # 0 /\ effects[TaskOf(w)] # {}
          /\ Transition(w, "testing")
    /\ UNCHANGED <<environment, approvals, calls, queue, disk>>

\* validate, of a change or of what a chat wrote: the repository's own tests lead to
\* the commit whatever there is to commit; without a runner for them a clean tree is
\* committed only for a plan whose work is to push what the branch already carries, and
\* only if the branch was fetched, so that there is something to count from.
Validate(w) ==
    /\ AtWork(w, "testing") /\ ModeOf(w) \in FileModes
    /\ LET t == TaskOf(w) IN
         /\ tree[t].dir /\ (KindOf(w) = "chat" => tree[t].dirty)
         /\ \/ SettleTo(w, "failed") \/ SettleTo(w, "committing")
            \/ ~tree[t].dirty /\ SettleTo(w, "completed")
    /\ UNCHANGED <<environment, row, approvals, calls, queue, disk>>

\* completeChat: a conversation that wrote nothing is answered.
CompleteChat(w) ==
    /\ AtWork(w, "testing") /\ KindOf(w) = "chat"
    /\ ModeOf(w) \in FileModes => tree[TaskOf(w)].dir /\ ~tree[TaskOf(w)].dirty
    /\ SettleTo(w, "completed")
    /\ UNCHANGED <<environment, row, approvals, calls, queue, disk>>

\* validateOdooOnline: only a verdict that what was built is wrong fails the task; a
\* project that grants no tool to check with needs no workspace for it.
ValidateOdooOnline(w) ==
    /\ AtStep(w, "testing") /\ KindOf(w) = "change" /\ ModeOf(w) = "odoo_online"
    /\ \/ run[w].ws /\ Transition(w, "failed")
       \/ (run[w].ws \/ profile[TaskOf(w)].gates = {}) /\ Transition(w, "completed")
    /\ UNCHANGED <<environment, approvals, calls, queue, disk>>

\* commit: nothing to author completes, unless the plan pushes what is there.
CommitNothing(w) ==
    /\ AtWork(w, "committing") /\ tree[TaskOf(w)].dir /\ ~tree[TaskOf(w)].dirty
    /\ IF SnapOf(w).deliver = "push_existing" THEN Goto(w, "hash")
                                              ELSE SettleTo(w, "completed")
    /\ UNCHANGED <<environment, row, approvals, calls, queue, disk>>

\* The git_commit tool, which may also fail the task.
CommitWork(w) ==
    /\ AtWork(w, "committing") /\ tree[TaskOf(w)].dir /\ tree[TaskOf(w)].dirty
    /\ \/ SettleTo(w, "failed") /\ UNCHANGED tree
       \/ /\ tree' = [tree EXCEPT ![TaskOf(w)].head = @ + 1, ![TaskOf(w)].dirty = FALSE]
          /\ Goto(w, "hash")
    /\ UNCHANGED <<environment, row, approvals, calls, queue, held, remote, effects>>

\* (Variant: the commit is not recorded.)
ForgetCommitHash(w) ==
    /\ At(w, "hash") /\ tree[TaskOf(w)].dir
    /\ Goto(w, "deliver")
    /\ UNCHANGED <<environment, row, approvals, calls, queue, disk>>
\* revParse HEAD and saveCommitHash, a write of its own after the commit.
SaveCommitHash(w) ==
    /\ At(w, "hash") /\ tree[TaskOf(w)].dir
    /\ row' = [row EXCEPT ![TaskOf(w)].hash = tree[TaskOf(w)].head]
    /\ Goto(w, "deliver")
    /\ UNCHANGED <<environment, approvals, calls, queue, disk>>

\* (Variant: configuration authorises the push and no grant of it is recorded.)
DeliverUnrecorded(w) ==
    /\ At(w, "deliver")
    /\ IF "git_push" \in SnapOf(w).grants \/ (AutoPush /\ profile[TaskOf(w)].auto)
       THEN Transition(w, "pushing")
       ELSE AskFor(w, "git_push", FALSE, "waiting_approval") /\ UNCHANGED row
    /\ UNCHANGED <<environment, approvals, calls, queue, disk>>
\* The rest of commit: pushed at once with a grant, authorised by configuration for
\* a development or staging target, kept here when pushing is off, or asked for.
Deliver(w) ==
    /\ At(w, "deliver")
    /\ LET auto == AutoPush /\ profile[TaskOf(w)].auto IN
       \/ /\ "git_push" \in SnapOf(w).grants
          /\ Transition(w, "pushing")
       \/ /\ "git_push" \notin SnapOf(w).grants /\ ~PushEnabled
          /\ Transition(w, "completed")
       \/ /\ "git_push" \notin SnapOf(w).grants /\ PushEnabled
          /\ AskFor(w, "git_push", auto, IF auto THEN "pushing" ELSE "waiting_approval")
          /\ UNCHANGED row
    /\ UNCHANGED <<environment, approvals, calls, queue, disk>>

\* backupBeforePush: a guarded push without its restore point fails the task.
BackupFails(w) ==
    /\ AtStep(w, "pushing") /\ ~run[w].ws /\ profile[TaskOf(w)].guarded
    /\ Transition(w, "failed")
    /\ UNCHANGED <<environment, approvals, calls, queue, disk>>

\* The git_push tool: the branch goes out, and success is reported only when the
\* remote, HEAD and the recorded commit are one.  It may fail before or after.  The
\* gate in front of it has nothing left to stop (PushIsCovered), so the return for a
\* stopped push has no step here.
Push(w) ==
    /\ AtWork(w, "pushing") /\ ~NeedsApproval(w, "git_push")
    /\ LET t == TaskOf(w) IN
       \/ SettleTo(w, "failed") /\ UNCHANGED remote
       \/ /\ PushEnabled /\ tree[t].dir
          /\ remote' = [remote EXCEPT ![t] = tree[t].head]
          /\ \/ SettleTo(w, "failed")
             \/ SnapOf(w).hash \in {0, tree[t].head} /\ SettleTo(w, "completed")
    /\ UNCHANGED <<environment, row, approvals, calls, queue, held, tree, effects>>

-----------------------------------------------------------------------------
(* Failure *)

\* git fails in a directory another run, or the reclaim, has removed.
DirectoryGone(w) ==
    /\ At(w, "hash") \/ \E s \in {"implementing", "testing", "committing"} : AtWork(w, s)
    /\ ModeOf(w) \in FileModes /\ ~tree[TaskOf(w)].dir
    /\ EndRun(w, TRUE)
    /\ UNCHANGED <<environment, row, approvals, calls, queue, disk>>

\* Any await of a run throws: the database, a clone, a model call's bookkeeping.  What
\* a tool throws is told to the model instead, and the loop goes on.
ToolThrew(w) == run' = [run EXCEPT ![w].pc = "step", ![w].ask = "none",
                                   ![w].next = "queued"]
Throw(w) ==
    /\ run[w].pc \in RunPCs \ {"release"}
    /\ faults < MaxFaults
    /\ faults' = faults + 1
    /\ IF run[w].pc \in {"select", "insert", "settle"} /\ InLoop(w) THEN ToolThrew(w)
                                                                    ELSE EndRun(w, TRUE)
    /\ UNCHANGED <<profile, row, approvals, calls, queue, disk>>

\* The worker process dies: every slot and the workspace map are gone, BullMQ puts
\* the active jobs back until one has stalled too often.
Recovered == {w \in Slots : ~At(w, "idle") /\ run[w].job.stalls < MaxStalls}
Crash ==
    /\ faults < MaxFaults
    /\ \E w \in Slots : ~At(w, "idle")
    /\ faults' = faults + 1
    /\ run' = [w \in Slots |-> Idle]
    /\ held' = {}
    /\ queue' = queue \cup {[run[w].job EXCEPT !.stalls = @ + 1] : w \in Recovered}
    /\ UNCHANGED <<profile, row, approvals, calls, tree, remote, effects>>

\* (Variant: only failed tasks are reclaimed.)
ReclaimFailures(t) ==
    /\ row[t].status = "failed" /\ (tree[t].dir \/ tree[t].stale)
    /\ tree' = [tree EXCEPT ![t] = [Removed(t) EXCEPT !.stale = FALSE]]
    /\ UNCHANGED <<environment, row, approvals, calls, queue, run, held, remote, effects>>
\* WorkspaceManager.reclaimOrphans, at boot and every five minutes: directories of
\* settled tasks, whoever may still be working in them.
Reclaim(t) ==
    /\ row[t].status \in Terminal /\ (tree[t].dir \/ tree[t].stale)
    /\ tree' = [tree EXCEPT ![t] = [Removed(t) EXCEPT !.stale = FALSE]]
    /\ UNCHANGED <<environment, row, approvals, calls, queue, run, held, remote, effects>>

-----------------------------------------------------------------------------
(* The specification *)

Init ==
    /\ profile \in [Tasks -> Profiles]
    /\ row = [t \in Tasks |-> [status |-> "absent", plan |-> 0, deliver |-> "commit",
                               hash |-> 0, clock |-> 1]]
    /\ approvals = [t \in Tasks |-> {}]
    /\ calls = {} /\ queue = {}
    /\ run = [w \in Slots |-> Idle]
    /\ held = {}
    /\ tree = [t \in Tasks |-> [dir |-> FALSE, dirty |-> FALSE, stale |-> FALSE,
                               head |-> IF profile[t].ahead THEN 1 ELSE 0]]
    /\ remote = [t \in Tasks |-> 0]
    /\ effects = [t \in Tasks |-> {}]
    /\ faults = 0

\* What a slot does without anything going wrong around it.
Work(w) ==
    \/ LoadRow(w) \/ LoadApprovals(w) \/ Settle(w) \/ Release(w)
    \/ MoveOn(w) \/ ResumeFromApproval(w)
    \/ Acquire(w) \/ AnalyzeUnprepared(w) \/ Analyze(w) \/ AnalyzeOdooOnline(w)
    \/ Plan(w) \/ PlanOdooOnline(w) \/ SelectStanding(w) \/ InsertApproval(w)
    \/ ToolStopped(w) \/ SuspendTask(w) \/ UseGatedTool(w) \/ UseTool(w) \/ Sample(w)
    \/ LoopHalted(w) \/ ModelFails(w)
    \/ Implement(w) \/ ImplementChat(w) \/ ImplementOdooOnline(w)
    \/ Validate(w) \/ CompleteChat(w) \/ ValidateOdooOnline(w)
    \/ CommitNothing(w) \/ CommitWork(w) \/ SaveCommitHash(w) \/ Deliver(w)
    \/ BackupFails(w) \/ Push(w) \/ DirectoryGone(w)

Next ==
    \/ \E t \in Tasks : \/ Create(t) \/ Cancel(t) \/ Reclaim(t)
                        \/ \E v \in {"approved", "rejected"} : Decide(t, v)
    \/ \E c \in calls : ReachQueue(c) \/ LoseCall(c)
    \/ \E w \in Slots : Take(w) \/ Work(w) \/ Throw(w)
    \/ Crash

Spec == Init /\ [][Next]_vars

\* The event loop of either process runs what it has started, the worker takes
\* what waits, the reclaim's timer fires, and a person decides what is asked.
Fairness ==
    /\ \A w \in Slots : WF_vars(Work(w)) /\ WF_vars(Take(w))
    /\ WF_vars(\E c \in calls : ReachQueue(c))
    /\ \A t \in Tasks : /\ WF_vars(Reclaim(t))
                        /\ WF_vars(\E v \in {"approved", "rejected"} : Decide(t, v))
LiveSpec == Spec /\ Fairness

-----------------------------------------------------------------------------
(* Type invariant *)

\* Every variable keeps its shape: above all the snapshot a run acts on, whose
\* statuses and grants are what the database held.
TypeOK ==
    /\ profile \in [Tasks -> Profiles]
    /\ row \in [Tasks -> Row]
    /\ approvals \in [Tasks -> SUBSET Approval]
    /\ calls \subseteq Call
    /\ queue \subseteq Job
    /\ run \in [Slots -> {Idle} \cup Run]
    /\ held \subseteq Tasks
    /\ tree \in [Tasks -> Tree]
    /\ remote \in [Tasks -> Nat]
    /\ effects \in [Tasks -> SUBSET Effects]
    /\ faults \in Nat

-----------------------------------------------------------------------------
(* What a run acts on *)

\* The statuses a task that works from a plan reaches only past its approval, and
\* the tasks that do: a chat about files or about nothing goes without.
AfterPlan == {"implementing", "testing", "committing", "pushing", "building"}
Planned(t) == profile[t].kind = "change" \/ profile[t].mode = "odoo_online"
PlanApproved(t) == "implementation_plan" \in Granted(t)

\* A row is past the plan, and anything but the plan asked for, only once the plan
\* was approved.
SoundTask(t) == Planned(t) => \/ PlanApproved(t)
                              \/ /\ row[t].status \notin AfterPlan
                                 /\ \A a \in approvals[t] : a.action = "implementation_plan"

\* What a push would send is not behind what was sent.
HeadAhead(t) ==
    tree[t].dir \/ profile[t].mode = "worktree" => tree[t].head >= remote[t]

\* A snapshot claims no approval the table does not hold.
SnapshotHolds(w) ==
    /\ SnapOf(w).grants \subseteq Granted(TaskOf(w))
    /\ \A d \in SnapOf(w).last : d.status = "approved" => d.action \in Granted(TaskOf(w))
\* A run past the plan, or on its way there.
RunPastPlan(w) == \/ SnapOf(w).status \in AfterPlan
                  \/ run[w].next \in AfterPlan
                  \/ run[w].ask \notin {"none", "implementation_plan"}
SoundRun(w) ==
    /\ SnapshotHolds(w)
    /\ Planned(TaskOf(w)) /\ RunPastPlan(w) => PlanApproved(TaskOf(w))
    /\ run[w].pc \in {"hash", "deliver"} => SnapOf(w).status = "committing"

\* A run acts on rows it read several awaits ago, while another run, a person or a
\* cancellation moved them: however old, what it holds says no more than the approvals
\* table does now, and a task past its plan is past an approval of it.
NoStaleConsent ==
    /\ \A t \in Tasks : SoundTask(t) /\ HeadAhead(t)
    /\ \A w \in Slots : At(w, "idle") \/ SoundRun(w)

-----------------------------------------------------------------------------
(* What the platform promises *)

Promise == INSTANCE ConsentGate WITH
    planned <- [t \in Tasks |-> profile[t].kind = "change"],
    consent <- [t \in Tasks |-> Granted(t)],
    done    <- effects,
    sent    <- remote,
    settled <- [t \in Tasks |-> IF row[t].status \in Terminal THEN row[t].status
                                                              ELSE "open"]

\* Whatever runs of a task overlap, decisions come late or steps are retried, no tool
\* changes a file or an instance before its kind of change was approved, no commit
\* leaves before git_push was, and nothing moves a settled task.
KeepsPromise == Promise!Spec

\* Two runs of one task, a cancellation and a retry never move its status other than
\* along an edge of task-state.ts: the conditional UPDATE of transition() is what
\* stands between a run's stale snapshot and the row.
StatusMovesAlongEdges == [][\A t \in Tasks : row'[t].status # row[t].status =>
    row[t].status = "absent" \/ CanTransition(row[t].status, row'[t].status)]_vars

\* What a task wrote leaves its directory only as a commit, and a commit only once the
\* task has settled: a release, a crash, a reclaim or a fresh clone in between would
\* push a branch without the work and report success (releaseWorkspace).
WorkKept == [][\A t \in Tasks : row[t].status \notin Terminal =>
    /\ tree'[t].head >= tree[t].head
    /\ tree[t].dirty /\ ~tree'[t].dirty => tree'[t].head = tree[t].head + 1]_vars

\* A push that completes a task left the remote at the very commit the task recorded:
\* "pushed" is never said of a branch that does not carry the work.
CompletedPushIsRecorded == [][\A t \in Tasks :
    row[t].status = "pushing" /\ row'[t].status = "completed"
        => remote[t] = row[t].hash]_vars

\* A run that comes to push holds the grant the gate looks for, whether a person or the
\* configuration authorised it: otherwise the gate refuses what the workflow has just
\* allowed, and a person is asked for a push that was authorised (commit, autoGrant).
PushIsCovered == \A w \in Slots : AtWork(w, "pushing") => ~NeedsApproval(w, "git_push")

\* "Asked once, and only once, for a given action on a given task": no retry, restart
\* or resumption asks a person again for what is pending or already approved.
AskedOnce == \A t \in Tasks : \A a, b \in approvals[t] :
    a.action = b.action /\ "rejected" \notin {a.status, b.status} => a = b

\* A commit leaves only while the latest decision anyone made about pushing it is an
\* approval: a rejection is not undone by a grant recorded before it.
RejectionHolds == [][\A t \in Tasks : remote'[t] # remote[t] =>
    LET about == {a \in Decided(t) : a.action = "git_push"} IN
    \E a \in about : a.status = "approved" /\ \A b \in about : b.dec <= a.dec]_vars

\* While a person is being asked, nothing changes: no tool works on after the loop was
\* stopped at a gate.
WaitingIsQuiet == [][\A t \in Tasks : row[t].status = "waiting_approval" =>
    effects'[t] = effects[t] /\ tree'[t].dirty = tree[t].dirty]_vars

\* A task that is neither settled nor waiting for a person is waiting for the platform:
\* a call, a job or a run that will move it exists ("the approval decision enqueues a
\* new job that re-enters here").
UnderWay(t) ==
    \/ \E c \in calls : c.task = t
    \/ \E j \in queue : j.task = t
    \/ \E w \in Slots : ~At(w, "idle") /\ TaskOf(w) = t
NotStranded == \A t \in Tasks :
    \/ row[t].status \in Terminal \cup {"absent"}
    \/ row[t].status = "waiting_approval" /\ Pending(t) # {}
    \/ UnderWay(t)

\* A change is implemented from the plan a person approved: the one the row holds.
ApprovedPlanIsImplemented == \A t \in Tasks :
    profile[t].kind = "change" /\ row[t].status \in {"implementing", "testing"}
        => \E a \in approvals[t] : /\ a.action = "implementation_plan"
                                   /\ a.status = "approved" /\ a.plan = row[t].plan

\* A task completes only once its commits need their directory no longer: with pushing
\* on, they are on the remote.
NothingLeftBehind == \A t \in Tasks :
    PushEnabled /\ profile[t].mode = "clone" /\ row[t].status = "completed" /\ tree[t].dir
        => tree[t].head <= remote[t]

\* Given people who decide, every task settles, through a crash or a thrown step the
\* queue's retries cover: no wait is left without what ends it.
Settles == \A t \in Tasks : row[t].status # "absent" ~> row[t].status \in Terminal

\* The customer's source does not stay behind: after a task has settled its directory
\* goes for good, whoever was using it then and whether or not the worker died.
CleanedUp == \A t \in Tasks : row[t].status \in Terminal ~> [](~tree[t].dir /\ ~tree[t].stale)
=============================================================================
