---------------------------- MODULE ProjectClone ----------------------------
(***************************************************************************)
(* The local clone kept of a project (ProjectCheckoutService over          *)
(* GitService): its branches, what it last fetched of the remote, and the  *)
(* working directories made from it.                                       *)
(*                                                                         *)
(* A commit is the sequence of the authors of its history, so an ancestor  *)
(* is a prefix; a branch without a ref is at NoRef.  Syncs are queued one  *)
(* behind another in the process that serves them, and run beside the      *)
(* worker's tasks.  Cloning, fetching and each git command are single      *)
(* steps.                                                                  *)
(***************************************************************************)
EXTENDS Naturals, Sequences, SequencesExt, FiniteSets

CONSTANTS Branches,   \* the branches the project works on
          Default,    \* the repository's default branch
          Tasks,
          Somebody,   \* who pushes to the remote besides the platform
          NoRef,
          MaxCommits, \* bound: commits of a branch
          MaxDirs     \* bound: working directories

ASSUME CloneAssumption ==
    /\ Default \in Branches
    /\ Somebody \notin Tasks /\ NoRef \notin Seq(Tasks \cup {Somebody})
    /\ MaxCommits \in Nat /\ MaxDirs \in Nat

VARIABLES remote,     \* the branches of the remote
          cloned,     \* whether the project's clone exists
          local,      \* refs/heads of the clone
          tracking,   \* refs/remotes/origin of the clone
          tree,       \* the working directories
          registered, \* .git/worktrees: directories the clone has a record of
          sync,       \* the sync being run
          left        \* bound: syncs, pushes by others, crashes, cancels and faults left

cloneVars == <<remote, cloned, local, tracking, tree, registered, sync, left>>

Dirs == 1..MaxDirs
Authors == Tasks \cup {Somebody}
History == Seq(Authors)
Refs == [Branches -> History \cup {NoRef}]
SyncPcs == {"idle", "list", "branch", "move"}
Budget == [{"syncs", "pushes", "crashes", "cancels", "faults"} -> Nat]

CloneType ==
    /\ remote \in Refs /\ local \in Refs /\ tracking \in Refs
    /\ cloned \in BOOLEAN
    /\ tree \in [Dirs -> [kind: {"none", "clone", "tree"}, branch: Branches,
                          head: History \cup {NoRef},
                          base: History]]
    /\ registered \subseteq Dirs
    /\ sync \in [pc: SyncPcs, todo: SUBSET Branches, held: SUBSET Branches, branch: Branches,
                 from: History \cup {NoRef}, to: History \cup {NoRef}]
    /\ left \in Budget
    /\ ~cloned => local = [b \in Branches |-> NoRef] /\ registered = {}

NoDir == [kind |-> "none", branch |-> Default, head |-> NoRef, base |-> <<>>]
NoSync == [pc |-> "idle", todo |-> {}, held |-> {}, branch |-> Default,
           from |-> NoRef, to |-> NoRef]
Spend(what) == left' = [left EXCEPT ![what] = @ - 1]

CloneInit ==
    /\ remote \in [Branches -> {<<>>, NoRef}] /\ remote[Default] = <<>>
    /\ cloned \in BOOLEAN
    /\ tracking = IF cloned THEN remote ELSE [b \in Branches |-> NoRef]
    /\ local = [b \in Branches |-> IF cloned /\ b = Default THEN remote[b] ELSE NoRef]
    /\ tree = [d \in Dirs |-> NoDir] /\ registered = {}
    /\ sync = NoSync

\* The branches checked out by working directories the clone knows: git looks at its
\* records, whether the directory is there or not.
TakenBranches == {tree[d].branch : d \in registered}

\* `git worktree prune`: records whose directory is gone are dropped.
Pruned == {d \in registered : tree[d].kind = "tree"}

\* The commit a working directory is at: a worktree's HEAD is a branch of the clone.
HeadOf(d) == IF tree[d].kind = "tree" THEN local[tree[d].branch] ELSE tree[d].head

\* git status of files nobody edited: HEAD is where they came from.
Clean(d) == tree[d].base = HeadOf(d)

Ancestor(x, y) == x # NoRef /\ y # NoRef /\ IsPrefix(x, y)

\* A person, or another clone, pushes to the remote.
Outside(b) ==
    /\ left["pushes"] > 0 /\ Spend("pushes")
    /\ remote[b] # NoRef /\ Len(remote[b]) < MaxCommits
    /\ remote' = [remote EXCEPT ![b] = Append(@, Somebody)]
    /\ UNCHANGED <<cloned, local, tracking, tree, registered, sync>>

(* --------------------------------- sync --------------------------------- *)

\* syncNow: the first one clones, the others fetch; then the clone's own checkout is
\* detached, so that it holds no branch.  The clone has the default branch alone.  One
\* step: until a first clone is detached git refuses its branch to a task, and no more.
SyncFetch ==
    /\ sync.pc = "idle" /\ left["syncs"] > 0
    /\ \/ /\ Spend("syncs")
          /\ /\ tracking' = remote /\ cloned' = TRUE
          /\ local' = IF cloned THEN local ELSE [local EXCEPT ![Default] = remote[Default]]
          /\ sync' = [NoSync EXCEPT !.pc = "list"]
       \/ /\ left["faults"] > 0 /\ Spend("faults")
          /\ UNCHANGED <<tracking, cloned, local, sync>>
    /\ UNCHANGED <<remote, tree, registered>>

\* taskWorktrees: prune, then list.
SyncList ==
    /\ sync.pc = "list"
    /\ registered' = Pruned
    /\ sync' = [sync EXCEPT !.pc = "branch", !.todo = Branches,
                            !.held = {tree[d].branch : d \in Pruned}]
    /\ UNCHANGED <<remote, cloned, local, tracking, tree, left>>

\* A declared branch: one the remote does not have, and one a task holds, is left; a new
\* one is created; one behind the remote, without commits of its own, is to be moved.
\* After the last, the branch asked for is analysed and the sync recorded.
Ended(s) == IF s.todo = {} THEN NoSync ELSE s
Done(b) == Ended([sync EXCEPT !.todo = @ \ {b}])
Behind(b) == /\ local[b] # tracking[b]
             /\ Ancestor(local[b], tracking[b])
SyncBranch(b) ==
    /\ sync.pc = "branch" /\ b \in sync.todo
    /\ IF tracking[b] # NoRef /\ local[b] = NoRef
       THEN local' = [local EXCEPT ![b] = tracking[b]] /\ sync' = Done(b)
       ELSE /\ UNCHANGED local
            /\ sync' = IF b \notin sync.held /\ Behind(b)
                       THEN [sync EXCEPT !.pc = "move", !.todo = @ \ {b}, !.branch = b,
                                         !.from = local[b], !.to = tracking[b]]
                       ELSE Done(b)
    /\ UNCHANGED <<remote, cloned, tracking, tree, registered, left>>

\* updateBranchRef: `git update-ref` with the value read; a failure ends the sync.
HoweverItMoved(b) == TRUE
Unmoved(b) == local[b] = sync.from
SyncMove ==
    /\ sync.pc = "move"
    /\ IF Unmoved(sync.branch)
       THEN /\ local' = [local EXCEPT ![sync.branch] = sync.to]
            /\ sync' = Ended([sync EXCEPT !.pc = "branch", !.from = NoRef, !.to = NoRef])
       ELSE sync' = NoSync /\ UNCHANGED local
    /\ UNCHANGED <<remote, cloned, tracking, tree, registered, left>>

Sync == SyncFetch \/ SyncList \/ SyncMove \/ \E b \in Branches : SyncBranch(b)

(* ------------------- what a task does to the clone ---------------------- *)

\* refreshForTask: every branch is fetched; a failure is only narrated.
FetchAll ==
    /\ \/ tracking' = remote /\ UNCHANGED left
       \/ left["faults"] > 0 /\ Spend("faults") /\ UNCHANGED tracking
    /\ UNCHANGED <<remote, cloned, local, tree, registered, sync>>

\* worktreeAttach: git refuses a branch that is checked out; --force is not passed.
Forced(b) == TRUE
Attachable(b) == b \notin TakenBranches
Attach(d, b) ==
    LET tip == IF local[b] = NoRef THEN tracking[b] ELSE local[b] IN
      /\ local' = [local EXCEPT ![b] = tip]
      /\ tree' = [tree EXCEPT ![d] = [NoDir EXCEPT !.kind = "tree", !.branch = b, !.base = tip]]
      /\ registered' = registered \cup {d}
      /\ UNCHANGED <<remote, cloned, tracking, sync, left>>

\* A clone of the task's own, on the branch, or on one made from main.
CloneInto(d, b) ==
    LET tip == IF remote[b] = NoRef THEN <<>> ELSE remote[b] IN
      /\ tree' = [tree EXCEPT ![d] = [NoDir EXCEPT !.kind = "clone", !.branch = b, !.head = tip,
                                                   !.base = tip]]
      /\ UNCHANGED <<remote, cloned, local, tracking, registered, sync, left>>

\* HEAD moves to h, and the files with it.
MoveHead(d, h) ==
    /\ local' = IF tree[d].kind = "tree" THEN [local EXCEPT ![tree[d].branch] = h] ELSE local
    /\ tree' = [tree EXCEPT ![d].base = h,
                            ![d].head = IF tree[d].kind = "tree" THEN NoRef ELSE h]

\* pullFastForward of a clean tree: fetch, then merge --ff-only.
Pull(d) ==
    /\ Clean(d) /\ remote[tree[d].branch] # NoRef
    /\ LET b == tree[d].branch IN
         IF Ancestor(HeadOf(d), remote[b])
         THEN MoveHead(d, remote[b])
         ELSE UNCHANGED <<local, tree>>
    /\ tracking' = IF tree[d].kind = "tree"
                   THEN [tracking EXCEPT ![tree[d].branch] = remote[tree[d].branch]] ELSE tracking
    /\ UNCHANGED <<remote, cloned, registered, sync, left>>

\* git add -A; git commit.
Commit(d, t) ==
    /\ Len(HeadOf(d)) < MaxCommits
    /\ MoveHead(d, Append(HeadOf(d), t))
    /\ UNCHANGED <<remote, cloned, tracking, registered, sync, left>>

\* git push: refused unless it is a fast-forward.
PushableAnyway(d) == TRUE
Pushable(d) == remote[tree[d].branch] = NoRef \/ Ancestor(remote[tree[d].branch], HeadOf(d))
Push(d) ==
    /\ remote' = [remote EXCEPT ![tree[d].branch] = HeadOf(d)]
    /\ UNCHANGED <<cloned, local, tracking, tree, registered, sync, left>>

\* rm -rf of a working directory; the clone's record of it stays.
NoFiles(d) == tree' = [tree EXCEPT ![d] = [NoDir EXCEPT !.branch = tree[d].branch]]
RemoveFiles(d) ==
    /\ NoFiles(d)
    /\ UNCHANGED <<remote, cloned, local, tracking, registered, sync, left>>

\* worktreeRemove: the record goes, and every record whose directory is gone.
Unregister ==
    /\ registered' = Pruned
    /\ UNCHANGED <<remote, cloned, local, tracking, tree, sync, left>>
=============================================================================
