----------------------------- MODULE Workspaces -----------------------------
(***************************************************************************)
(* The workspaces of the tasks of one project (WorkspaceManager), beside   *)
(* the syncs of its clone: allocation of a worktree or of a clone, reuse   *)
(* by a later run, release, and the reclaiming of what dead runs left.     *)
(*                                                                         *)
(* A task is what the workspaces see of it: the runs that work on it, the  *)
(* commit recorded on its row, and how it ends.  A worker that dies loses  *)
(* its runs; their jobs are delivered again.                               *)
(***************************************************************************)
EXTENDS ProjectClone

CONSTANTS NoTask,
          Retain,  \* WORKSPACE_RETAIN_ON_FAILURE
          Studied  \* bound: the branches tasks are sent to, whether there is a clone in the
                   \* beginning, and what `left` is then

ASSUME WorkspacesAssumption ==
    /\ NoTask \notin Tasks /\ Retain \in BOOLEAN
    /\ \A x \in Studied : x.cloned \in BOOLEAN /\ x.left \in Budget

VARIABLES row,     \* agent_workspaces
          task,    \* the tasks and the run each has
          reclaim  \* rows the reclaimer has read and not yet dealt with

taskVars == <<row, task, reclaim>>
vars == <<cloneVars, taskVars>>

Outcomes == {"completed", "failed", "cancelled"}
Pcs == {"idle", "refresh", "attach", "measure", "clone", "work", "release", "unregister", "fallback"}

TypeOK ==
    /\ CloneType
    /\ row \in [Dirs -> [task: Tasks \cup {NoTask},
                         status: {"none", "allocated", "ready", "released", "failed", "retained"}]]
    /\ task \in [Tasks -> [st: {"active"} \cup Outcomes, branch: Branches, pc: Pcs,
                           dir: 0..MaxDirs, commit: History \cup {NoRef}, waits: BOOLEAN]]
    /\ reclaim \subseteq Dirs
    /\ \A t \in Tasks : task[t].pc \in {"work", "release"} => task[t].dir \in Dirs

\* A branch the remote does not have is one task's own, made from main.
Targets == {f \in [Tasks -> Branches] :
               \A t, u \in Tasks : (t # u /\ f[t] = f[u]) => remote[f[t]] # NoRef}

Init ==
    /\ CloneInit
    /\ row = [d \in Dirs |-> [task |-> NoTask, status |-> "none"]]
    /\ \E x \in Studied, f \in Targets :
       /\ cloned = x.cloned /\ left = x.left
       /\ \A t \in Tasks : f[t] \in x.on
       /\ \A b \in Branches \ (x.on \cup {Default}) : remote[b] = NoRef
       /\ task = [t \in Tasks |-> [st |-> "active", branch |-> f[t], pc |-> "idle", dir |-> 0,
                                   commit |-> NoRef, waits |-> FALSE]]
    /\ reclaim = {}

Go(t, pc) == task' = [task EXCEPT ![t].pc = pc]
GoTo(t, pc, d) == task' = [task EXCEPT ![t].pc = pc, ![t].dir = d]
Mark(d, status) == row' = [row EXCEPT ![d].status = status]
Terminal(t) == task[t].st \in Outcomes
Fails(t) == task' = [task EXCEPT ![t].st = IF @ = "active" THEN "failed" ELSE @, ![t].pc = "idle",
                                 ![t].dir = 0]
Unused == {d \in Dirs : row[d].status = "none"}

(* ------------------------------ allocation ------------------------------ *)

\* A job for a task that is not parked starts a run, which asks for its workspace.
Starts(t) == task[t].st = "active" /\ task[t].pc = "idle" /\ ~task[t].waits

\* The latest row that is ready, whose directory still holds the task's work.
ReadyRows(t) == {d \in Dirs : row[d].task = t /\ row[d].status = "ready"}
AtItsCommit(t, d) == task[t].commit = NoRef \/ HeadOf(d) = task[t].commit
Reusable(t) ==
    {d \in ReadyRows(t) : /\ \A e \in ReadyRows(t) : e <= d
                          /\ tree[d].kind # "none" /\ HeadOf(d) # NoRef
                          /\ AtItsCommit(t, d)}
Reattach(t) ==
    /\ Starts(t)
    /\ \E d \in Reusable(t) : GoTo(t, "work", d)
    /\ UNCHANGED <<cloneVars, row, reclaim>>

\* A new row: for a worktree of the project's clone where there is one, else a clone.
AlwaysReuses == TRUE
HasClone == cloned
NewRow(t) ==
    /\ Starts(t) /\ Reusable(t) = {}
    /\ \E d \in Unused :
        /\ \A e \in Unused : d <= e
        /\ row' = [row EXCEPT ![d] = [task |-> t, status |-> "allocated"]]
        /\ GoTo(t, IF HasClone THEN "refresh" ELSE "clone", d)
    /\ UNCHANGED <<cloneVars, reclaim>>

Refresh(t) ==
    /\ task[t].pc = "refresh"
    /\ FetchAll
    /\ Go(t, "attach")
    /\ UNCHANGED <<row, reclaim>>

\* A branch the clone has never seen: the row is released, ...
Unseen(t) ==
    /\ task[t].pc = "attach" /\ local[task[t].branch] = NoRef /\ tracking[task[t].branch] = NoRef
    /\ Mark(task[t].dir, "released")
    /\ Go(t, "fallback")
    /\ UNCHANGED <<cloneVars, reclaim>>

\* ... and allocate goes on to insert the row of a clone under the same reference, which
\* agent_workspaces_ref_unique refuses: the task fails.
Fallback(t) ==
    /\ task[t].pc = "fallback"
    /\ row[task[t].dir].status # "none"
    /\ Fails(t)
    /\ UNCHANGED <<cloneVars, row, reclaim>>

Attached(t) ==
    /\ task[t].pc = "attach"
    /\ local[task[t].branch] # NoRef \/ tracking[task[t].branch] # NoRef
    /\ Attachable(task[t].branch)
    /\ Attach(task[t].dir, task[t].branch)
    /\ Go(t, "measure")
    /\ UNCHANGED <<row, reclaim>>

\* git refuses a branch it has checked out: the task fails.
Refused(t) ==
    /\ task[t].pc = "attach" /\ ~Attachable(task[t].branch)
    /\ local[task[t].branch] # NoRef \/ tracking[task[t].branch] # NoRef
    /\ Mark(task[t].dir, "failed")
    /\ Fails(t)
    /\ UNCHANGED <<cloneVars, reclaim>>

Clone(t) ==
    /\ task[t].pc = "clone"
    /\ CloneInto(task[t].dir, task[t].branch)
    /\ Go(t, "measure")
    /\ UNCHANGED <<row, reclaim>>

\* Within the quota the workspace is ready; above it, and when a clone fails, the
\* directory is removed and the row marked.
Measure(t) ==
    /\ task[t].pc = "measure"
    /\ \/ /\ Mark(task[t].dir, "ready") /\ Go(t, "work")
          /\ UNCHANGED cloneVars
       \/ /\ left["faults"] > 0 /\ Spend("faults")
          /\ NoFiles(task[t].dir) /\ Mark(task[t].dir, "failed") /\ Fails(t)
          /\ UNCHANGED <<remote, cloned, local, tracking, registered, sync>>
    /\ UNCHANGED reclaim

(* ------------------------- what a run does there ------------------------ *)

Works(t) == task[t].pc = "work" /\ task[t].st = "active"

PullBranch(t) ==
    /\ Works(t) /\ task[t].commit = NoRef /\ Pull(task[t].dir)
    /\ UNCHANGED taskVars

\* The files are changed and committed, and HEAD is saved as the task's commit.
MakeCommit(t) ==
    /\ Works(t) /\ task[t].commit = NoRef
    /\ Commit(task[t].dir, t)
    /\ task' = [task EXCEPT ![t].commit = Append(HeadOf(task[t].dir), t)]
    /\ UNCHANGED <<row, reclaim>>

\* The run ends at an approval, in the plan or for the push: the workspace is kept.
KeepsNothing(t) == FALSE
Keeps(t) == ~Terminal(t)
Park(t) ==
    /\ Works(t) /\ ~task[t].waits
    /\ task' = [task EXCEPT ![t].waits = TRUE,
                            ![t].pc = IF Keeps(t) THEN "idle" ELSE "release",
                            ![t].dir = IF Keeps(t) THEN 0 ELSE @]
    /\ UNCHANGED <<cloneVars, row, reclaim>>

\* Somebody approves.
Approve(t) ==
    /\ task[t].st = "active" /\ task[t].waits
    /\ task' = [task EXCEPT ![t].waits = FALSE]
    /\ UNCHANGED <<cloneVars, row, reclaim>>

\* git_push of the commit, read back from the remote, settles the task.
Deliver(t) ==
    /\ Works(t) /\ task[t].commit # NoRef
    /\ IF Pushable(task[t].dir) THEN Push(task[t].dir) ELSE UNCHANGED cloneVars
    /\ task' = [task EXCEPT ![t].st = IF Pushable(task[t].dir) THEN "completed" ELSE "failed",
                            ![t].pc = "release"]
    /\ UNCHANGED <<row, reclaim>>

\* A task with nothing to commit, or that fails, ends.
End(t) ==
    /\ Works(t) /\ task[t].commit = NoRef
    /\ \/ /\ task' = [task EXCEPT ![t].st = "completed", ![t].pc = "release"]
          /\ UNCHANGED left
       \/ /\ left["faults"] > 0 /\ Spend("faults")
          /\ task' = [task EXCEPT ![t].st = "failed", ![t].pc = "release"]
    /\ UNCHANGED <<remote, cloned, local, tracking, tree, registered, sync, row, reclaim>>

\* A person cancels, or rejects what a parked task asks.
Cancel(t) ==
    /\ task[t].st = "active" /\ left["cancels"] > 0 /\ Spend("cancels")
    /\ task' = [task EXCEPT ![t].st = "cancelled", ![t].waits = FALSE]
    /\ UNCHANGED <<remote, cloned, local, tracking, tree, registered, sync, row, reclaim>>

\* The run sees it at its next step.
SeeCancelled(t) ==
    /\ Terminal(t) /\ task[t].pc = "work"
    /\ Go(t, "release")
    /\ UNCHANGED <<cloneVars, row, reclaim>>

(* --------------------------- release, reclaim --------------------------- *)

\* A failed workspace may be retained; another has its files removed, ...
Release(t) ==
    /\ task[t].pc = "release"
    /\ IF Retain /\ task[t].st = "failed"
       THEN /\ Mark(task[t].dir, "retained") /\ GoTo(t, "idle", 0)
            /\ UNCHANGED cloneVars
       ELSE /\ RemoveFiles(task[t].dir) /\ Go(t, "unregister")
            /\ UNCHANGED row
    /\ UNCHANGED reclaim

\* ... then its record in the clone, and its row is marked.
Forget(t) ==
    /\ task[t].pc = "unregister"
    /\ IF task[t].dir \in registered THEN Unregister ELSE UNCHANGED cloneVars
    /\ Mark(task[t].dir, "released") /\ GoTo(t, "idle", 0)
    /\ UNCHANGED reclaim

\* The reclaimer reads the rows that a settled task left, ...
OnlyAllocated == {"allocated"}
Unreleased == {"allocated", "ready"}
SettledOnly(d) == row[d].task \in Tasks /\ Terminal(row[d].task)
Reclaim ==
    /\ reclaim = {}
    /\ reclaim' = {d \in Dirs : row[d].status \in Unreleased /\ SettledOnly(d)}
    /\ reclaim' # {}
    /\ UNCHANGED <<cloneVars, row, task>>

\* ... and releases each.  Which clone has a record of it is read from the directory:
\* one whose files are gone already leaves its record.
ReclaimOne(d) ==
    /\ d \in reclaim
    /\ NoFiles(d)
    /\ registered' = IF tree[d].kind = "tree"
                     THEN {e \in registered \ {d} : tree[e].kind = "tree"} ELSE registered
    /\ Mark(d, "released")
    /\ reclaim' = reclaim \ {d}
    /\ UNCHANGED <<remote, cloned, local, tracking, sync, left, task>>

\* The worker dies.
Crash ==
    /\ left["crashes"] > 0 /\ Spend("crashes")
    /\ task' = [t \in Tasks |-> [task[t] EXCEPT !.pc = "idle", !.dir = 0]]
    /\ reclaim' = {}
    /\ UNCHANGED <<remote, cloned, local, tracking, tree, registered, sync, row>>

Run(t) ==
    \/ Reattach(t) \/ NewRow(t) \/ Refresh(t) \/ Unseen(t) \/ Fallback(t)
    \/ Attached(t) \/ Refused(t) \/ Clone(t) \/ Measure(t)
    \/ PullBranch(t) \/ MakeCommit(t) \/ Park(t)
    \/ Deliver(t) \/ End(t) \/ SeeCancelled(t) \/ Release(t) \/ Forget(t)

Next ==
    \/ \E t \in Tasks : Run(t) \/ Approve(t) \/ Cancel(t)
    \/ Reclaim \/ \E d \in Dirs : ReclaimOne(d)
    \/ Crash
    \/ (Sync \/ \E b \in Branches : Outside(b)) /\ UNCHANGED taskVars

Spec == Init /\ [][Next]_vars

(* ------------------------------ properties ------------------------------ *)

\* The commit a task has recorded is never lost before it settles: a branch of the clone,
\* the task's own clone or the remote still has it, whatever syncs, other tasks, crashes
\* and the reclaimer did meanwhile (agent-workflow.ts:2242-2256; ADR-063, "a branch that
\* moved in between is not overwritten").
WorkKept ==
    \A t \in Tasks : (task[t].st = "active" /\ task[t].commit # NoRef) =>
        \/ Ancestor(task[t].commit, local[task[t].branch])
        \/ Ancestor(task[t].commit, remote[task[t].branch])
        \/ \E d \in Dirs : row[d].task = t /\ tree[d].kind = "clone"
                           /\ Ancestor(task[t].commit, tree[d].head)

\* A run works where its task's work is: in a directory that exists, no other task is in,
\* and whose HEAD has the commit the task has recorded (workspace-manager.ts:533-541).
WorksOnItsOwn ==
    \A t \in Tasks : Works(t) =>
        /\ tree[task[t].dir].kind # "none" /\ row[task[t].dir].task = t
        /\ task[t].commit # NoRef => Ancestor(task[t].commit, HeadOf(task[t].dir))
        /\ \A u \in Tasks \ {t} : Works(u) => task[u].dir # task[t].dir

\* Two tasks that work from the project's clone never work on one branch
\* (workspace-manager.ts:393-397, project-checkout.service.ts:115).
OneTaskPerBranch ==
    \A d, e \in Dirs : (d # e /\ tree[d].kind = "tree" /\ tree[e].kind = "tree") =>
                           tree[d].branch # tree[e].branch

\* No branch, of the clone or of the remote, loses a commit: a sync that decided on what it read
\* does not move back a branch that a task's attach, pull or commit moved since, and a task does
\* not push over what others pushed (git.service.ts:1070-1076, project-checkout.service.ts:545-548).
Forward == \A b \in Branches : /\ local[b] # NoRef => Ancestor(local[b], local'[b])
                               /\ remote[b] # NoRef => Ancestor(remote[b], remote'[b])
OnlyForward == [][Forward]_vars

\* A directory of a settled task does not stay on disk while its row says it is in use: the
\* release of its run removes it, or the reclaimer (workspace-manager.ts:1096-1112).  One
\* whose row the reclaimer released under a cancelled run that was still allocating may.
Leftover(t) == \E d \in Dirs : /\ row[d].task = t /\ tree[d].kind # "none"
                              /\ row[d].status \in {"allocated", "ready"}
NothingLeft == \A t \in Tasks : (Terminal(t) /\ task[t].pc = "idle") ~> ~Leftover(t)

\* The reclaimer runs every few minutes and runs go on; what people do is not fair.
LiveSpec ==
    /\ Spec
    /\ WF_vars(Reclaim) /\ \A d \in Dirs : WF_vars(ReclaimOne(d))
=============================================================================
