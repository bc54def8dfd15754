# Cartenz: specifications, model checking and proofs

Cartenz lets people ask an AI agent for changes to Odoo projects. A task reads a
repository (or a live Odoo Online instance), has a model plan a change, asks a
person, lets the model make the change through mediated tools, runs tests, commits,
asks again, and pushes. Around that the platform keeps clones and workspaces, follows
tasks live in the browser, signs people in, and runs Odoo instances and previews on its
host. This directory holds TLA+ specifications of these parts, the TLC configurations
that check them on small instances, and TLAPS proofs of the properties that matter
most. Paths below are under `src/backend/src/` unless they begin with `frontend/`.

## 1. Inventory

| Component | State it keeps | Operations | Talks to | Must be correct about |
|---|---|---|---|---|
| Agent workflow (`agent/orchestration/agent-workflow.ts`, `agent/task-repository.ts`, `agent/task-state.ts`) | `agent_tasks` row: status, plan, commit hash; in memory: workspaces by task | `run` loop, one step per status, `resumeFromApproval`, `callTool`, release | everything below | statuses move along edges; consent before change; every task settles |
| Approvals (`modules/approvals`) | `approvals` rows | `request`, `autoGrant`, `decide` | queue (resume) | asked once; a decision stands; a decision reaches its task |
| Task API (`modules/tasks`) | task, session rows | `create`, `cancel`, reads | queue | a created task starts; a cancelled one stays cancelled |
| Queue and worker (`queue-agent-orchestrator.ts`, `worker.ts`) | BullMQ jobs in Redis; slots; reclaim timer | `start`, `resume`, `cancel`, retry, stall, reclaim, shutdown | workflow, workspaces | no job lost; retries repeat nothing harmful |
| Tool gate (`agent/tools`) | none of its own; action rows | `validate`, `execute`, the tools | git, files, instance | no gated tool without its approval |
| Model loops and providers (`agent/model`, `model-implementation-loop.ts`, `model-chat-loop.ts`) | budgets, halt flags of one call | tool loop, failover, structured output retries | boundary, tools | a halted loop stops; refusals do not fail over |
| Workspaces (`agent/workspace`) | `agent_workspaces` rows, directories, worktrees | `allocate`, `reattach`, `release`, `reclaimOrphans`, `discardForProject` | git, checkouts | work survives waiting; directories do not survive the task; one task per branch |
| Project checkouts and git (`project-checkout.service.ts`, `agent/git`, `project-merge.service.ts`) | a clone per project, its refs, a chain of operations in flight | `sync`, `refreshForTask`, `merge`, push, pull | GitHub | a branch never loses commits |
| Projects and provisioning (`modules/projects`) | project rows with status columns, ports, a second queue with concurrency 1 | create, provision, restart, restore, connect an instance, destroy | host scripts | nothing stays pending for nobody; a row that says ready is right |
| Previews (`project-preview.service.ts`) and backups | `project_previews`, `project_backups` | start, stop, expire; run | host scripts | one preview per project; none outlives its record |
| Events and realtime (`core/events`, `modules/realtime`, `frontend/lib/use-task-stream.ts`) | `agent_task_events` with a sequence per task; sockets; the page's list | publish, replay, subscribe, fan-out, merge | Redis pub/sub | a client misses nothing, and sees no other task's events |
| AI office (`modules/ai-office`, `frontend/lib/use-office.ts`, `frontend/lib/office/store.ts`) | a board derived from rows; the browser's copy | snapshot, feed, reduce, resync | events | a quiet office is current |
| Sessions and sign-in (`modules/auth`, `frontend/lib/api.ts`) | refresh tokens, single-use links, codes, trusted devices; tokens in the browser | rotate, revoke, redeem, completeLogin; the shared refresh | mail | a token or link is used once; old sessions end |
| Authorization, project access | memberships, requests | grant, revoke, request, decide | all controllers | who may decide |
| Settings (`modules/settings`) | provider chain with priorities, credentials | add, reorder, resolve | providers | priorities are an order |
| AI boundary (`core/ai-boundary`) | none | filter, refuse | providers | customer data does not leave |
| Process runner, secrets, audit, browser sessions, instance clients, validation runtime, analysis, documents, notifications, health, configuration | see `PROJECT.json` | | | |

**How they interact.** An HTTP request creates a task (a row, then a job). The worker
takes the job and runs the workflow: a loop that reads a *snapshot* (the task row,
then its approvals), performs the step of the status it read, moves the task with a
conditional `UPDATE ... WHERE status = <the one read>`, and reads again. Where a person
has to consent, an approval row is inserted, the task moved to `waiting_approval` and
the job ends; `decide` records the decision and enqueues a *second* job, which enters
the same loop. The workflow asks WorkspaceManager for a directory: a worktree of the
project's clone, which syncs (served by the API) move at the same time. Whatever a
run does is written as an event row and then published through Redis to the gateways,
which fan it out to browsers that read the rows over HTTP as well. Provisioning has the
same shape as tasks: the API writes `pending` on the project's row and queues a job; one
worker runs scripts on the host and writes the outcome. Previews have no queue: the
request itself runs the script.

**What is hard here.** Two jobs of a task in two slots of one worker; a decision between
two statements of the step that asks for it; rows read several awaits before they are
used; a crash or a thrown statement between an effect and its recording; a provider's
tool loop that does not stop when told; directories removed by whoever settles the
task first; a branch that is fetched, moved, attached and committed to by different
processes; `max + 1` under concurrent inserts; a browser that puts together answers and
frames of two channels; statements of several sign-in requests under read committed;
jobs whose id is still known to the queue; scripts that outlive the request that ran
them. `PROJECT.json` lists each at its line, with the properties that cover it.

## 2. The modules

| Module | What it is | Composes |
|---|---|---|
| `TaskStates` | statuses, edges, approval actions, gates, execution modes: the enumerations of the code | |
| `TaskLifecycle` | API process, queue, worker slots, workflow steps, one directory per task, remote | TaskStates |
| `ConsentGate` | what the platform promises: consent, changes, pushes, settled tasks, nothing else | |
| `ProjectClone` | a project's clone: branches, tracking refs, worktrees and their records, syncs | |
| `Workspaces` | the tasks of one project over that clone: rows, allocation, reuse, release, reclaim | ProjectClone |
| `EventLog` | the event rows and their publishers | |
| `TaskStream`, `OfficeFeed` | the page of a task, the office; each with the gateway's part | EventLog |
| `TaskEvents` | both over one log | TaskStream, OfficeFeed |
| `Sessions` | the sign-in service and a browser with tabs | |
| `ProjectInstances` | the provisioning queue, its worker, requests, the instances on the host | |
| `Previews` | previews of the same projects | ProjectInstances |
| `Hosting` | both, with the death of the API | Previews |
| `MC...` | the instances TLC checks | the module of the name |
| `..._proofs` | theorems: `TaskLifecycle_proofs`, `Consent_proofs`, `Runs_proofs`, `Sessions_proofs`, `Events_proofs`, `Office_proofs`, `Workspaces_proofs`, `Hosting_proofs` | |

`TaskLifecycle` and `Workspaces` overlap on purpose: the first has every step of the workflow
and a directory that only its task touches, the second reduces a task to what its
workspace sees (runs, a commit, an end) and has the directories, the branches and the
other tasks. `Park`, `MakeCommit`, `Deliver`, `End` and `Cancel` of the second are what the
first's many steps do to a workspace.

## 3. The task lifecycle

**State.** `row` is the `agent_tasks` row; `approvals` the approval rows, ordered by a
logical clock (`row[t].clock`) for `requestedAt` and `decidedAt`; `calls` what the API
still has to send to Redis; `queue` the waiting jobs; `run[w]` a slot of the worker:
where its workflow stands (`pc`), the snapshot it acts on (`snap`), whether it has its
workspace (`ws`), what it is asking for. `held` is `AgentWorkflow.workspaces`; `tree`
the task's directory: whether it is there, dirty, and how many commits its HEAD has
beyond the tip the task started from; `remote` how many of them the remote has;
`effects` what the tools have changed.

**Steps.** `pc` names the awaits of the workflow that separate effects another process
can see: `row` and `approvals` (the two queries of `snapshot()`), `step` (acting on the
snapshot), `select` and `insert` (the two statements of `approvals.request` and
`autoGrant`), `hash` (`saveCommitHash`), `deliver` (the rest of `commit`), `settle` (the
transition a step ends with), `release` (the `finally`). `AtStep(w, status)` is a case
of `AgentWorkflow.step`; each handler is an action of its name (`Analyze`, `Plan`,
`Implement`, `ImplementChat`, `ImplementOdooOnline`, `Validate`, ...; the second half of
`commit` is `CommitNothing`/`CommitWork`, `SaveCommitHash`, `Deliver`). `Transition` is
`TaskRepository.transition`: an illegal edge throws, a moved status leaves the row
alone. Inside a tool loop (`InLoop`) the model may call any tool it has: `UseTool`,
`UseGatedTool`, or be stopped at a gate (`ToolStopped`, the two statements of the
request, `SuspendTask`). A stopped tool sets a halt flag; the AI SDK's loop ends only
at its step budget, so in the model the loop may go on, up to `MaxStops` times.

**A task** is one of `Profiles`: change or chat; a clone of its own, a worktree, a live
instance or no repository; the gates its tools can meet; an automatic or a guarded
push; a branch already ahead of its remote. What models answer, whether tests pass,
whether the analysis fails are choices.

**Failure.** `Throw`: any await of a run throws, the job is retried until `MaxAttempts`
(inside a loop, what a tool throws is told to the model instead). `Crash`: the worker
process dies, the map and every run are lost, BullMQ returns active jobs up to
`MaxStalls` times. `LoseCall`: a queue call is never made. `DirectoryGone`: git fails in
a directory somebody removed.

**External.** Only BullMQ's recovery of stalled jobs is modelled without its source, from
how `worker.ts` configures the worker (defaults: one stall).

**Abstractions.** Commits are counted, not named: a branch is a prefix of commits, which
is sound as only the task's own commits move it here. What a plan says is its number.
Parallel tool calls of one turn: writes may run while an approval is being asked for, two
requests of one run are sequential. Repeating a write to an instance is not told apart
from doing it once. `shouldStop`'s query shares a step with the approvals query, which
follows the row query. A removal of a waiting job at cancellation shares the step of the
status or does not happen: a job that stays finds the task settled.

**Not modelled.** On-premise tasks (they work in a directory a person chose, which is
never reclaimed; the completion of an automatic push for lack of a remote is theirs too);
`WORKSPACE_RETAIN_ON_FAILURE` (refused in production); graceful shutdown; events, audit
rows, reports and reasoning, on which no status depends; several tasks on one branch,
which `Workspaces` has.
`verifyOdooOnline` could in principle be stopped at a gate from `testing`, an illegal
edge; for a change task the plan covers every gate it can meet, so it is not reachable.
The gate in front of `git_push` likewise has no step: `PushIsCovered` checks that no run
comes to push without the grant, which is what the edge from `pushing` back to
`waiting_approval` in task-state.ts is a backstop for.

## 4. Events, the task page and the office

**EventLog.** `publish` computes `max(sequence) + 1` in the insert's subquery; the statement
does not serialise with its rivals, so two of them compute one number and the unique
index refuses the second, which runs the statement again (`Number`, `Insert`, `Retry`,
`GiveUp`; core/database/task-sequence.ts). The row is durable before it is published,
and a publication that fails is let go. A status is its place on the way from 0 to `Last`;
an event carries the status its publisher knew, which may be an older one.

**TaskStream.** `sel` is the argument of `useTaskStream`, `loads` its `loadHistory` calls,
each with whether its effect still stands, `link` the socket. Select, read, land, connect,
authorise, confirm, refill, drop and reconnect are actions; what is under way takes as
long as it likes. `current` says that the subscription was confirmed and its refill has
not failed: only then does the code promise completeness.

**OfficeFeed.** `fetch` are snapshots under way, `checking` the events that wait at the gateway
for an access decision that is not cached (two queries, so they may be overtaken),
`seqs`, `connection`, `needsResync` the reducer's state. `blind` is a history variable: it
records that something changed while nothing was listening (no subscription yet, a
dropped socket, a publication that failed), that a snapshot failed, or that an older
snapshot landed after a newer one. It is written so that the property says exactly when
a quiet office may be out of date, rather than never.

A tab shows either a page or the office; a user may read every project. The office's
attention, queue and activity lists are replaced with its board and have no state of
their own.

## 5. Sessions

The rows of one account, in the statements the code makes and the interleavings READ
COMMITTED allows: a statement sees what is committed when it starts; an UPDATE waits
for a row another transaction has locked (`locks`) and looks again. `pc` names the
statement a request is before. A request is answered with `done`, `refused` or `replay`.
The browser is `lib/api.ts`: tabs share `stored` (localStorage), each has one refresh in
flight at most, calls that got a 401 wait for it.

`version` counts password changes. A credential carries the version its *origin* proved, not
the one there is when its row is inserted: a sign-in takes it when it verifies the password,
a mailed code carries it, a rotation copies it from the token it presents, and a trusted
browser from the code it typed. `swept` is the last change that has been answered. What
`revokeAllForUser` cannot reach, because a request has read it or a mail has carried it away,
is marked `outlived` at the moment of the sweep; `OldSessionsEnd` asks that whatever is live
goes back to the new password, or is so marked. Nothing else escapes: not a token issued
between the change and the sweep, not one rotated out of another's sight, not the browser.

`rotate` runs in a transaction that it leaves by throwing when a token was replayed: what it
revoked is rolled back, and the model's `RotateLook` revokes nothing.

Not in it: registration, invitations, expiry of links and tokens by time, audit rows, and the
guard that keeps an active administrator (a property of several accounts).

## 6. Workspaces and the project's clone

**ProjectClone.** A commit is the sequence of the authors of its history, so an ancestor is a
prefix and a fast-forward an extension; a branch without a ref is at `NoRef`. `tree` are the
working directories (a worktree's HEAD is the branch in the clone, a clone of its own has
its own), `registered` the records in `.git/worktrees`, which outlive a directory that is
removed by other means and pin its branch. `sync` is the chain of `syncNow`: fetch (the
first clones), prune and list, then branch by branch: create, skip or move, where moving
reads first and updates the ref later with the value it read.
Clone or fetch, and the checkout that follows (project-checkout.service.ts:357-376), are one
step: a fetch moves no branch of the clone, and until a first clone is detached git refuses its
branch to a task, and no more.

**Workspaces.** `row` is `agent_workspaces`; a task is its run (`pc`), its commit and its
outcome. Allocation is in its steps: insert the row, refresh the clone, attach (or be
refused by git because the branch has a worktree, or find the branch unseen), measure
the quota. A later run finds the latest ready row whose directory still has the task's
commit, or makes a new one. Release removes the files, then the record, then marks the
row; the reclaimer does it for the rows of settled tasks it has read, while others run.
A worker that dies loses its runs; what is on disk stays.

One project, with a URL. Left out: on-premise directories, Odoo Online workspaces (no
files), `discardForProject`, merging to `main`, and what a failed `rm` does.

## 7. Instances and previews

**ProjectInstances.** A project's row has a status and a port per kind of instance: its own, a
connected one, a restored one, and restarts. A request writes the row and adds a job
whose id is derived from what it is about; BullMQ drops an `add` whose id it still
knows, so the code removes a finished one first (`Forgets`). The worker takes one job
at a time through allocation, build, start, grant, mark, secure, record; the row is written
before the queue has marked the job finished, and a job whose worker died is
delivered once more. Each allocator looks at its own columns and at what listens.

The scripts are the deployed ones (`provisioning/host/create_project`,
`restore-existing-instance.sh`, `restart-project.sh`), in the steps at which they can be found
or left. A build refuses what is there under the name in any state and a port something
listens at (`Refuses`), makes the directory (`half`), then starts the unit and looks whether it
is active (`Starts`), or cleans up behind itself (`Thwarted`, `CleansUp`). A restart stops the
unit (`Restart`, `down`), then pulls, upgrades and starts it, or ends with it active or not
(`Upgrade`). The runner's timeout kills `sudo` and not the script, and so does the death of the
worker or the API: from there the script stops where it is, or goes on by itself and finishes or
cleans up (`GoesOn`). `up` means that the unit is started: it is `Restart=always`, `RestartSec=5`
(host/create_project:619-620), so that only a stop takes it away, and two units at one port take turns
at it. That case is reachable (section 9) and the properties do not deny it.

**Previews.** One action per statement of start, stop, status and the boot's reclaim; the
script on the host is a state of the preview (`site`), not of the request: it goes on when
the API has died, was given up by a timeout, or the preview has been stopped meanwhile.

**Hosting** composes them with the death of the API: its requests are gone, and at its next
start it stops the previews of projects that have an expired one.

Four sets say what the code is known to let go, so that the properties can say that it
lets go of nothing else: `overlooked` (requests that put no job in the queue: dropped
because the job of the same id had not been marked finished, refused by Redis, cut off by
the API's death, or carried out by two workers that died), `overtaken` (a request for what another
request or a job was already about), `letGo` (previews whose stop failed or came in the middle of the build,
or whose start was given up), `crossed` (projects with two preview requests at once). Each
is a flaw of its own, in section 9. The parts hold no other state: which modules, database
set-up, GitHub, certificates renewed later, backups.

## 8. Runs

| Run | Distinct states | Instance | Shows |
|---|---|---|---|
| `races` | 0.8 M | 2 slots, no faults, three kinds of task, six requests and decisions | `NoStaleConsent`, `KeepsPromise` (the refinement of `ConsentGate`), `StatusMovesAlongEdges` |
| `faults` | 2.0 M | 1 slot, 1 fault of any kind, 2 attempts, nine kinds of task | `TypeOK`, `AskedOnce`, `PushIsCovered`, `WorkKept`, `CompletedPushIsRecorded`, `RejectionHolds` |
| `settles` | 0.1 M | 1 slot, 1 crash or throw, fairness | `NotStranded`, `Settles`, `CleanedUp` |
| `events` | 0.9 M | 2 publishers, 2 tasks, 3 events; a page with two selections, or an office with two looks; a failure | `GivesUpOnlyUnderLoad`, `OnlyTheSelectedTask`, `NothingFallsBetween`, `QuietOfficeIsCurrent`, `CatchesUp` |
| `sessions` | 2.1 M | 2 requests served at a time, 4 in all, 4 tokens, 2 links, one tab with two calls | `UsedOnce`, `DeactivationWins`, `OldSessionsEnd`, `NeverReplaysItself` |
| `workspaces` | 0.6 M | 2 tasks, 2 branches, 2 directories, 2 commits a branch; a sync and a push by others, a first sync, or a crash, a cancellation and a fault | `WorkKept`, `WorksOnItsOwn`, `OneTaskPerBranch`, `OnlyForward`, `NothingLeft` |
| `hosting` | 1.6 M | 2 projects, 2 ports, 2 requests and 2 preview requests at a time, 3 previews; four cases of names, types, requests, faults and crashes | `PendingIsUnderWay`, `RowsTellTheTruth`, `FoundAgain`, `OnePreview` |
| `stranded` | | 2 slots, a chat | violates `NotStranded` |
| `unapproved_plan` | | 2 slots, a change | violates `ApprovedPlanIsImplemented` |
| `lost_commit` | | 1 slot, 1 fault | violates `NothingLeftBehind` |
| `works_on` | | 1 slot, no faults, a change that deletes files | violates `WaitingIsQuiet` |
| `replay` | | two tabs | violates `ReplaySignsOut` |

Every passing run but `races` checks the type invariant of its module as well. All runs have
`CHECK_DEADLOCK FALSE`: when all tasks have settled, all requests are answered and the
bounds are used up, the system really stops.

**Bounds of the lifecycle.** One task: tasks share nothing there but slots. Two slots are the
least at which two runs of one task overlap; a task has an execute job and one resumption
per decision, so three slots add a third bystander to races between two. `MaxFaults = 1`
with `MaxAttempts = 2` and `MaxStalls = 1` lets each fault hit every step, and be retried;
the code has three attempts. `MaxStops` of 1 or 2: whether a loop goes on after it was
stopped, and asks for something else. `FewDecisions` ends the races run's traces at six
requests and decisions: the run's tasks need four at most when their runs do not overlap,
so two more leave room for a request made twice and decided twice. The races run has no
faults: faults and two slots together are covered by the proofs, which bound nothing.

**Bounds of the others.** Each of their modules has a budget of what people do and what fails
(`Budgets`, `Studied`, `left`), and its run starts from a few of them, because their sum
would be far larger and the cases interact only where they are studied together.
Two publishers, two syncing parties, two requests at a time are the least that race; a
third would be a bystander to a collision of two, and the theorems of section 10
hold for any number. Two directories: one per task; a task that needs a second one (its
first was lost) finds none left in the other task's cases, and is covered when the other
has not allocated. `Attempts = 2` of eight: one collision is survived, two are not.
`MaxTries = 2` of five: one wrong code leaves the challenge open, two do not. Three
previews: two of one project and one of another. Two instance ports for two projects that
may want three instances: running out happens.

**Symmetry** is used in runs of safety properties only, of slots, of requests served at once,
of calls; two of the runs that find a violation, `stranded` and `unapproved_plan`, have that of
slots too. It is not used in `settles`, `events`, `workspaces`, which have liveness properties.

**Fairness.** `LiveSpec` of TaskLifecycle: weak fairness of a slot's work and of taking jobs
(the event loop continues what it has started and the worker polls its queue); of calls to
Redis (an HTTP handler that has written its row goes on; no calls are lost in this run);
of the reclaim, whose timer fires every five minutes; of deciding (people answer: without
that no task has to settle). The model ends its loops: `maxSteps` and the request timeout
do. Creating, cancelling, crashing and throwing are not fair. `LiveSpec` of TaskEvents:
a publisher that has begun goes on, and the browser and the gateway do what they have
started, backoff timers included; clicking, failing and beginning an event are not fair,
so `CatchesUp` is about the time after the last of them. `LiveSpec` of Workspaces: the
reclaimer alone (its timer, and the loop over the rows it read); runs need not go on, and
`NothingLeft` still holds, for tasks whose run has ended. A cancelled run that is still
allocating when the reclaimer releases its row (below) leaves its directory with a row that says
so; `Leftover` looks at rows that say they are in use, which is what the reclaimer promises.

**One slot or two.** `AskedOnce`, `WorkKept`, `CompletedPushIsRecorded`, `RejectionHolds` and
`NotStranded` of TaskLifecycle are properties of runs that do not overlap: with two slots
(`AGENT_WORKER_CONCURRENCY` is 4 by default, 1 at least) TLC violates each, because an
execute job and a resumption of one task run at once: the look for a standing approval
and the insert are two statements; the workspace map has one entry per task, so the
first run to end removes it, and its directory once the task has settled, under the
other. They are checked for the deployment in which they hold, and proved for every
behaviour in which no two runs of one task overlap (`Alone` of `Runs_proofs`), of which one slot is
a case (`OneSlotAlone`). `NoStaleConsent`, `KeepsPromise`, `StatusMovesAlongEdges` and
`PushIsCovered` hold however many runs overlap, and are proved so.

## 9. What the code does otherwise than it says

1. **A decision can come too early** (`stranded`). `callTool` inserts the approval, then
   moves the task to `waiting_approval` (agent-workflow.ts:2361, 2370). If a person decides
   in between and another slot runs the resumption at once, it finds the task still
   `implementing`, works there and ends; the first run's transition then leaves the task
   waiting with nothing pending and no job. "The approval decision enqueues a new job that
   re-enters here" (lines 64-66) has already happened; nothing else calls `resume`.
2. **A plan nobody approved** (`unapproved_plan`). The same window in `plan()`
   (lines 1055-1076): the resumption still sees `planning`, plans again, saves over the plan
   that was approved, finds an approved row and asks nobody.
3. **A commit left behind** (`lost_commit`). After a crash between `git_commit` and the
   task's transition, the retry sees a clean tree and completes with "There was nothing to
   commit" (lines 1760-1764); the directory with the unpushed commit is removed as "nothing
   further needs it".
4. **A halted loop goes on** (`works_on`). `halt` "stops the loop"
   (model-provider.interface.ts:81), and the scripted provider does; the AI SDK provider
   notes the reason and lets `generateText` run to `maxSteps`: its tools go on writing while the
   task is `waiting_approval`. What they write is within earlier approvals (`KeepsPromise`).

5. **A replay signs nobody out** (`replay`). Two tabs present one refresh token; the second is
   told "All sessions have been signed out" (modules/auth/token.service.ts:131). The
   revocation at line 126 is inside the transaction the next statement leaves by throwing.

These five are runs. Modelling the rest met more, which no run states because no text of the
repository promises the contrary, because a property leaves them out by name, or because they
lie outside the model; each is worth a look.

*The workflow.*
- Two faults lose a commit even with one slot. The first falls between the insert of a tool's
  request and `SuspendTask`: the retry asks nobody again, goes on and commits, saves the
  hash and asks for `git_push`, with the tool's request still pending. If the push is decided
  first and the tool's request last, that decision's resumption takes the task back to
  `implementing`, where it commits again; a crash before `saveCommitHash` then leaves a head
  the row does not know, the directory is not reattached, and a fresh clone replaces it. The `faults` run has
  one fault and does not reach it; the proof of `WorkKept` found it, and names it:
  `SettledFirst` says that of a task that has recorded its commit only the push is to be decided.

*Workspaces and the clone.*
- A branch the clone has never seen: `allocate` says it falls back to a clone of the task's own, but
  inserts a second row with the same reference, which the unique index on
  `agent_workspaces` refuses: the task fails (workspace-manager.ts:446-451, schema.ts:1352;
  `Fallback`).
- A record in `.git/worktrees` whose directory went first (quota failure, a death between `rm` and
  `prune`) pins its branch: the next tasks on it are refused until a sync prunes
  (workspace-manager.ts:510-521, git.service.ts:1126; `TakenBranches`, `Refused`).
- `updateBranchRef` promises that a task which took the branch into a worktree in between is not moved
  under (git.service.ts:1070-1076). The old value is compared, but an attach does not change it:
  the branch then moves under files of the old commit.
- The commits of a rejected or cancelled task stay on the clone's local branch; the next task on it
  starts from them, and its push sends them (workspace-manager.ts:877).
- The reclaimer may release the row of a cancelled run that is still allocating (worker.ts:179-183),
  which leaves a directory whose row says it is released.
- Tasks of an on-premise project share one directory (workspace-manager.ts:757-779).
- API and worker each have their own map of operations in flight: a sync in one is not serialised
  with a refresh in the other. `OnlyForward` shows that no commit is lost by it.

*Events and the office.*
- An event whose publisher gave up after eight collisions fails the step that published it.
- The office ignores the gateway's `subscribed` frame: what happens between its snapshot and its
  subscription is not shown until the next event (`blind`). Overlapping snapshots may land in the
  wrong order, and a failed one is not tried again. `onopen` decides by a state that is one render old
  (frontend/lib/use-office.ts:91).
- A socket still connecting when the page turns to another task is closed by neither effect
  (frontend/lib/use-task-stream.ts:166). The agent page's `loadThread` and `loadTask` have no
  cancellation, unlike `loadHistory`.

*Sign-in.*
- Two rotations of one token that both look before either commits both succeed
  (token.service.ts:118).
- "Every session of the account is revoked: whoever held the old password is out"
  (user-links.service.ts:156) is not so for three: a sign-in that had verified the old password
  (auth.service.ts:180-236) and a rotation that had read its token (token.service.ts:118) issue theirs
  after the sweep, and a sign-in code mailed before it (good for ten minutes, together with the browser it
  makes trusted) is spent by no password change. Without `outlived` in `OldSessionsEnd` TLC finds
  the first in nine states: verify, change, sweep, issue.
- `changePassword` says that every other session is revoked and that "the caller keeps their own
  tokens" (auth.service.ts:314-318), and revokes them all (357); the caller's screen goes on until
  its access token expires, and is then signed out. The model does what the code does: `RevokeAll`
  spares nothing.
- Two `store`s at once leave two live links (user-links.service.ts:84).
- Two administrators who deactivate or demote each other at once leave none: each counts the other
  (me.controller.ts:239, 366). Two first registrations both become administrators
  (auth.service.ts:130-132).
- With two tabs, the second's failed refresh clears the tokens the first has just stored
  (frontend/lib/api.ts:283); a refresh whose answer is lost signs the browser out.

*Instances and previews.*
- A request whose job's id is still active is dropped by the queue; its row stays pending and later
  requests are refused (`overlooked`). So it is when the enqueue fails for create, restart and
  connected instances, and after a job's second worker death. A restart request onto a waiting
  job loses its newer branch.
- Two requests for a connected instance at once overwrite the port of the one being built
  (`overtaken`). A build that is cut off before `hostReady` leaves a half-built directory under a name
  that is derived from the project, which every retry is refused for
  (project-connected-instance.service.ts:180-182); the reference `create_project` leaves one after any
  failure, the deployed one only when it is killed.
- The allocators for restored and own instances do not look at connected ports, but at what listens: while
  a connected instance is stopped, by a restart under way or one that failed, its port is given to
  another, and both units are then started for it. No index forbids it (schema.ts:283, 419), and
  the comment at project-connected-instance.service.ts:536-545 says that it cannot happen.
- A restart stops the unit before anything that may fail (restart-project.sh:210). When the pull, the
  upgrade or the rollback leaves it inactive (240-243, 273-277, 298-302), or the runner's timeout
  kills `sudo` in the middle (command-runner.service.ts:416), the instance's own row goes on
  saying `ready`; only the status of the restart says that something went wrong, and not even that
  when the worker dies of it twice (`Undone`).
- Two projects of one name share a directory name: the second's job fails on it, and deleting the
  second tears down the first's instance (projects.service.ts:1332, 1398). Deleting a project stops
  neither its previews nor its restored or connected instances, and a waiting job of it still builds.
- A preview stopped while it is being built goes on to come up, with its row `stopped`; so does one
  whose start was killed by the timeout. The comment at project-preview.service.ts:412 says that the
  reaper finds it (`letGo`). Two starts at once leave two (`crossed`), and those of two projects may take
  one port.

## 10. Proofs

For every set of tasks and slots, every set of profiles, all settings and bounds of
`ConstantsAssumption` (which TLC evaluates on every run):

- `TypeCorrect` (`TaskLifecycle_proofs`): `Spec => []TypeOK`. Inductive as `TypeInv`,
  which adds that a busy slot's record is a `Run`. One lemma per operator that
  builds a run record; `TypeOfWork` has one step per action.
- `ConsentHolds` (`Consent_proofs`): `Spec => []NoStaleConsent`. A statement like "no tool
  changes a file without approval" is not inductive: the tool acts on a snapshot, so what
  is needed is that snapshots never claim more than the table holds (`SnapshotHolds`),
  which is kept because approvals are never taken back (`Kept`); that a status past the
  plan implies the plan's approval (`SoundTask`), also for statuses a run has read or is
  about to write (`RunPastPlan`); and that a directory is not behind its remote (`HeadAhead`).
  `IInv == TypeInv /\ NoStaleConsent` is the inductive invariant. The argument needs no
  bound on overlap: two runs disturb each other only through `approvals`, which grow.
- `StatusEdges`: `Spec => StatusMovesAlongEdges`, from `TypeInv` alone: every action moves
  at most one task's status (`OneMoves`), a slot's only through the conditional update.
- `PromiseKept`: `Spec => KeepsPromise`, the refinement: `Init` maps to `Init`, and under
  `IInv` each step to a step of `ConsentGate` or a stutter (`NextPromised`).
- `Runs_proofs` (over the consent invariant). What a step of a run does is stated once: each is
  one of a few kinds of step (`WorkKinds`, `StepFacts`: it reads, it moves the task, it asks, it
  writes, it ends ...), and every invariant of the module is kept by kind.
  - `PushCovered`, whatever overlaps: a run on its way to the push has a grant recorded that
    its gate accepts (`PushInv`); grants are never taken back.
  - `AskedOnceAlone`, `RejectionHoldsAlone`, `PushRecordedAlone`, under `[]Alone`. None is inductive:
    each is about what a run is going to do with what it read. `OneInv` adds, of every task
    (`TaskInv`) and of its one run (`RunInv`), that requests are ordered by the clock and at most one
    per action stands; that the snapshot of the run is still what the table holds while the
    task is open; that the head a push compares is the hash of the row.
  - `WorkKeptAlone`, under `[]Alone` and `[]SettledFirst`: `WorkInv` says of each status and
    place of a run where the task's changes are: in a directory that will be reattached, in a
    commit whose hash is recorded or about to be, or pushed. `SettledFirst` is needed (section 9).
    `UngatedWorkKeptAlone` needs no such condition, and bounds no fault: where the profiles have no gate on
    file tools (`PlanInv`) nothing but plan and push is ever asked.
  - `NotStrandedAlone`, under `[]Alone`, for instances that lose no call and whose faults are
    covered by the queue's stalls and attempts (`MaxFaults <= MaxStalls`,
    `MaxFaults < MaxAttempts`): beyond them BullMQ gives a job up, which is no error of the
    workflow, and which the faults run's instance allows. `StrandInv` counts: every attempt after the first and every
    stall is one of the faults; a run that has ended left its task settled, asked about,
    or with something to come (`Left`, `Answerable`, `Heard`); nothing ends a run but what it reads (`Equipped`).
- `Sessions_proofs`: `TypeCorrect`, `LinksUsedOnce`, `DeactivationFinal` and `PasswordEndsSessions`, for
  any number of requests. The inductive invariant relates each request to the rows at every
  statement: rows locked by a `store` are live and locked by it alone, so that a spent link stays
  spent (`Links`); a request that came after the deactivation is before the statement that
  refuses it (`Requests`); tokens, codes, browsers and what requests hold all outlast `swept`, and
  outlast a change that has revoked but not yet answered (`Account`).
  `OneTabNeverReplays`, for a browser with one tab and any calls: the stored token is the newest
  the browser has been given, and whatever it presented before is in the one refresh in flight
  (`InOrder`, `Shared`, under `OneTab`).
- `Events_proofs`: `GivesUpUnderLoad` counts: a publisher's collisions are at most the rows
  written since it was called (`LogInv`). `SelectedTaskOnly` and `NothingLost`: for every row of
  the selected task it is shown, or in a frame or a load under way, or unannounced, or the
  page is not `current` (`NoGap`); loads and frames that are live are on topic (`OnTopic`).
- `Office_proofs` (over the events invariant): `TypeCorrect`, `OfficeCurrent`. Where the board differs
  from the database, unless `blind`, something is on its way that will put it right
  (`Heading`, `Asking`, `Knows`): a frame, a check, a timer, a snapshot that is fresh.
- `Workspaces_proofs`: `TypeCorrect`, `KeepsWork`, `OwnWork`, `OneBranchEach` and
  `NothingOverwritten`, for any tasks, branches, directories and commits. `WorkKept` alone is not
  inductive: that the commit is somewhere does not say that the next run finds it. The invariant
  says where: in the branch of the clone, which only grows (`InClone`), or at the head of the
  task's own clone in its *latest* ready row (`InOwn`), which is the row a run reuses; and a run
  that makes a new directory has its commit in the clone, or none (`CommitInv`). `RunInv` says
  which row a run is in and that nothing but a settled task's is released, `DirInv` that a worktree has a
  record, and is on the branch of its row's task; `Shared` that no two records are of one branch,
  and that a move under way is forward. Every action touches one directory, of its task, or none
  (`OneDirectoryMoves`, `TaskAlone`, `CloneMoves`), so its proof is about that task and directory
  alone.
- `Hosting_proofs`: `TypeCorrect`, `NothingForgotten`, `PreviewsAreFound`, `OneEach` and `RowsAreTrue`, for any
  projects, ports, names, requests and previews. A pending row has a request about to queue its job,
  a job that waits, or the active job before it has written its outcome (`Attended`), which needs that
  the active job never waits as well (`NotTwice`): the death of the worker and a request that forgets
  a finished job both move jobs. A preview has a live row or is `Down`: let go, deleted, or with
  nothing on the host and no start under way that could still put it there; and a request marks as stopped or failed
  only what is down (`ActInv`). For one preview per project, a start's list holds all that is live of
  its project until it inserts its own row (`Clears`), if no other request of the project ran meanwhile.
  - `RowsAreTrue` follows ports through requests, rows, jobs and retries (`TruthInv`, beside the
    invariant above), on a host where scripts stop, go on or clean up at any moment. What a job or a request is
    about to record is already there at its port (`OwnJob`, `RestoredJob`), and stays there (`Stands`):
    a script builds only where there is nothing and cleans up only what it has built, so only a
    deletion or a namesake takes it away. It may be down, but only where the last restart of
    it has stopped it and not brought it back (`StandInv`); until a build has started its unit nothing
    else can. A restored instance needs no condition at all. For a connected one (`ConnTrue`) the row has
    its port before the job does: while nothing is built every job is for the row's port, once
    something is, a job that would build again is refused; `hostReady` means there at the row's
    port; and a request resumes with that port. A request that overtakes another, or a job,
    breaks exactly this, hence `overtaken`.

**Assumptions.** Those the modules name (`ConstantsAssumption`, `SessionsAssumption`,
`LogAssumption`, `CloneAssumption`, `WorkspacesAssumption`,
`NoJobAssumption`, ...): the sets are disjoint from the
values that stand for nothing, bounds are natural numbers, initial budgets are budgets. TLC
evaluates them in every run.

**Only model-checked.** The liveness properties `Settles`, `CleanedUp`, `CatchesUp` and
`NothingLeft`: fairness and ENABLED are outside what these proofs use. And what a violation run
refutes. Every invariant and every other action property of a passing run is a theorem, some under
the conditions given above.

## 11. Not modelled, and why

- *Model providers and failover, the data boundary*: a sequence of calls within one step of the
  workflow, with no state between steps. That a loop may repeat what its tools did (the next
  provider starts it again, failover-model-provider.ts:87) is a choice of TaskLifecycle's
  loops; no text says what may be repeated, so there is no property to check.
- *Tool gate*: which gate a tool meets is in TaskLifecycle; permissions and argument checks are
  functions of one call.
- *Authorization, project access, settings, configuration rows*: single statements, or
  read-then-write on rows nobody else depends on. The one exception, the last administrator, is in
  section 9.
- *Merging to main, GitHub, credentials, host keys*: one call after another in one request.
- *On-premise and Odoo Online workspaces*: the first has no exclusion to check (section 9), the
  second no files.
- *Process runner, secrets, audit, browser sessions, Odoo clients, validation runtime, analysis
  texts, documents, notifications, health*: pure functions, single inserts, or calls out.
- *Frontend pages* beyond the streams and `lib/api.ts`, *the connector, migrations,
  `infrastructure/`'s scripts*: forms and layout; the scripts are steps of Hosting by what they leave on
  the host.
