-------------------------- MODULE Workspaces_proofs --------------------------
(***************************************************************************)
(* Theorems about Workspaces, for any project, tasks, directories and      *)
(* bounds: where a run works, that tasks do not share a branch of the      *)
(* clone, and that a recorded commit is kept.                              *)
(***************************************************************************)
EXTENDS Workspaces, TLAPS

-----------------------------------------------------------------------------
(* Commits.                                                                 *)

LEMMA Known == \A s \in History : s # NoRef
BY CloneAssumption DEF History, Authors

LEMMA AncestorOfItself == \A s \in History : Ancestor(s, s)
BY Known DEF Ancestor, IsPrefix, History

LEMMA AncestorOfAncestor ==
    ASSUME NEW x \in History \cup {NoRef}, NEW y \in History \cup {NoRef},
           NEW z \in History \cup {NoRef}, Ancestor(x, y), Ancestor(y, z)
    PROVE  Ancestor(x, z)
<1>1. x \in Seq(Authors) /\ y \in Seq(Authors) /\ z \in Seq(Authors) BY DEF Ancestor, History
<1>2. IsPrefix(x, z) BY <1>1 DEF Ancestor, IsPrefix
<1> QED BY <1>2 DEF Ancestor

LEMMA AncestorOfCommit ==
    ASSUME NEW s \in History, NEW a \in Authors
    PROVE  Append(s, a) \in History /\ Append(s, a) # NoRef /\ Ancestor(s, Append(s, a))
<1>1. Append(s, a) \in History /\ IsPrefix(s, Append(s, a)) BY DEF IsPrefix, History
<1> QED BY <1>1, Known DEF Ancestor

-----------------------------------------------------------------------------
(* Types.                                                                   *)

Ref == History \cup {NoRef}
RowRecord == [task: Tasks \cup {NoTask},
              status: {"none", "allocated", "ready", "released", "failed", "retained"}]
TaskRecord == [st: {"active"} \cup Outcomes, branch: Branches, pc: Pcs, dir: 0..MaxDirs,
               commit: History \cup {NoRef}, waits: BOOLEAN]
TreeRecord == [kind: {"none", "clone", "tree"}, branch: Branches, head: History \cup {NoRef},
               base: History]
SyncRecord == [pc: SyncPcs, todo: SUBSET Branches, held: SUBSET Branches, branch: Branches,
               from: History \cup {NoRef}, to: History \cup {NoRef}]

\* The types, without what they say of values together.
Typed ==
    /\ remote \in [Branches -> Ref] /\ local \in [Branches -> Ref] /\ tracking \in [Branches -> Ref]
    /\ cloned \in BOOLEAN /\ tree \in [Dirs -> TreeRecord] /\ registered \subseteq Dirs
    /\ sync \in SyncRecord /\ left \in Budget
    /\ row \in [Dirs -> RowRecord] /\ task \in [Tasks -> TaskRecord] /\ reclaim \subseteq Dirs

-----------------------------------------------------------------------------
(* What holds always.                                                       *)

Named(t) == task[t].st = "active" /\ task[t].commit # NoRef
Latest(t, d) == \A e \in ReadyRows(t) : e <= d
InClone(t) == Ancestor(task[t].commit, local[task[t].branch])
InOwn(t) == \E d \in Dirs : /\ row[d].task = t /\ row[d].status = "ready" /\ Latest(t, d)
                            /\ tree[d].kind = "clone" /\ tree[d].head = task[t].commit

\* A run's directory is one of its task's rows, and not there before it is made; nothing is
\* released but a settled task's.  A run of a task that has not settled is in the latest of
\* its ready directories, at or after its commit.
RunInv(t) ==
    LET x == task[t]
        d == x.dir IN
    /\ x.pc # "idle" => d \in Dirs /\ row[d].task = t
    /\ x.pc \in {"refresh", "attach"} => cloned
    /\ x.pc \in {"refresh", "attach", "clone"} => tree[d].kind = "none" /\ d \notin registered
    /\ x.pc \in {"release", "unregister"} => Terminal(t)
    /\ x.st = "active" =>
           /\ x.pc \in {"refresh", "attach", "clone", "measure", "work"} => Latest(t, d)
           /\ x.pc = "work" => row[d].status = "ready"
           /\ x.pc \in {"work", "measure"} =>
                  tree[d].kind # "none" /\ (x.commit # NoRef => Ancestor(x.commit, HeadOf(d)))

\* A recorded commit is in a branch of the clone, or the head of the task's own clone,
\* which the next run will find; a run that makes another directory has it in the clone.
CommitInv(t) ==
    Named(t) => /\ InClone(t) \/ InOwn(t)
                /\ task[t].pc \in {"refresh", "attach", "measure"} => InClone(t)
                /\ task[t].pc # "clone"

\* A row is of a task unless it was never used; a worktree is recorded in the clone, whose
\* branch it is on; a directory is on its task's branch; only a settled task's is reclaimed.
DirInv(d) ==
    /\ IF row[d].status = "none"
       THEN row[d].task = NoTask /\ tree[d].kind = "none" /\ d \notin registered
       ELSE row[d].task \in Tasks
    /\ tree[d].kind = "tree" => d \in registered /\ local[tree[d].branch] # NoRef
    /\ tree[d].kind = "clone" => tree[d].head # NoRef
    /\ tree[d].kind # "none" => tree[d].branch = task[row[d].task].branch
    /\ d \in reclaim => row[d].task \in Tasks /\ Terminal(row[d].task)

\* Rows are used in their order; no two records of the clone are of one branch; without a
\* clone there is neither; a sync moves a branch forward.
Shared ==
    /\ \A d, e \in Dirs : d < e /\ row[e].status # "none" => row[d].status # "none"
    /\ \A d, e \in registered : d # e => tree[d].branch # tree[e].branch
    /\ ~cloned => registered = {} /\ \A b \in Branches : local[b] = NoRef
    /\ sync.pc # "idle" => cloned
    /\ sync.pc = "move" => Ancestor(sync.from, sync.to)

IInv ==
    /\ Typed /\ Shared
    /\ \A t \in Tasks : RunInv(t) /\ CommitInv(t)
    /\ \A d \in Dirs : DirInv(d)

-----------------------------------------------------------------------------
(* What the helpers of the actions do, field by field.                      *)

LEMMA Went ==
    ASSUME Typed, NEW t \in Tasks, NEW pc \in Pcs, Go(t, pc)
    PROVE  /\ task' \in [Tasks -> TaskRecord] /\ \A u \in Tasks \ {t} : task'[u] = task[u]
           /\ task'[t].pc = pc /\ task'[t].dir = task[t].dir /\ task'[t].st = task[t].st
           /\ task'[t].branch = task[t].branch /\ task'[t].commit = task[t].commit
BY DEF Typed, TaskRecord, Go

LEMMA WentTo ==
    ASSUME Typed, NEW t \in Tasks, NEW pc \in Pcs, NEW d \in Dirs \cup {0}, GoTo(t, pc, d)
    PROVE  /\ task' \in [Tasks -> TaskRecord] /\ \A u \in Tasks \ {t} : task'[u] = task[u]
           /\ task'[t].pc = pc /\ task'[t].dir = d /\ task'[t].st = task[t].st
           /\ task'[t].branch = task[t].branch /\ task'[t].commit = task[t].commit
<1> DEFINE x == [task[t] EXCEPT !.pc = pc, !.dir = d]
<1>1. task[t] \in TaskRecord /\ d \in 0..MaxDirs BY CloneAssumption DEF Typed, Dirs
<1>2. task' = [task EXCEPT ![t] = x] BY DEF Typed, GoTo
<1>3. x \in TaskRecord /\ x.pc = pc /\ x.dir = d /\ x.st = task[t].st
      /\ x.branch = task[t].branch /\ x.commit = task[t].commit
  BY <1>1 DEF TaskRecord
<1> HIDE DEF x
<1> QED BY <1>2, <1>3 DEF Typed

LEMMA Failed ==
    ASSUME Typed, NEW t \in Tasks, Fails(t)
    PROVE  /\ task' \in [Tasks -> TaskRecord] /\ \A u \in Tasks \ {t} : task'[u] = task[u]
           /\ task'[t].pc = "idle" /\ task'[t].st \in Outcomes
           /\ task'[t].branch = task[t].branch /\ task'[t].commit = task[t].commit
<1> DEFINE s == IF task[t].st = "active" THEN "failed" ELSE task[t].st
           x == [task[t] EXCEPT !.st = s, !.pc = "idle", !.dir = 0]
<1>1. task[t] \in TaskRecord /\ 0 \in 0..MaxDirs BY CloneAssumption DEF Typed
<1>2. task' = [task EXCEPT ![t] = x] BY DEF Typed, Fails
<1>3. s \in Outcomes BY <1>1 DEF TaskRecord, Outcomes
<1> HIDE DEF s
<1>4. x \in TaskRecord /\ x.pc = "idle" /\ x.st = s
      /\ x.branch = task[t].branch /\ x.commit = task[t].commit
  BY <1>1, <1>3 DEF TaskRecord, Pcs
<1> HIDE DEF x
<1> QED BY <1>2, <1>3, <1>4 DEF Typed

LEMMA Marked ==
    ASSUME Typed, NEW d \in Dirs, NEW s \in {"ready", "released", "failed", "retained"}, Mark(d, s)
    PROVE  /\ row' \in [Dirs -> RowRecord] /\ \A e \in Dirs \ {d} : row'[e] = row[e]
           /\ row'[d].status = s /\ row'[d].task = row[d].task
BY DEF Typed, RowRecord, Mark

LEMMA Spent ==
    ASSUME Typed, NEW w \in {"syncs", "pushes", "crashes", "cancels", "faults"},
           left[w] > 0, Spend(w)
    PROVE  left' \in Budget
BY DEF Typed, Budget, Spend

LEMMA Emptied ==
    ASSUME Typed, NEW d \in Dirs, NoFiles(d)
    PROVE  /\ tree' \in [Dirs -> TreeRecord] /\ \A e \in Dirs \ {d} : tree'[e] = tree[e]
           /\ tree'[d].kind = "none" /\ tree'[d].branch = tree[d].branch
<1>1. <<>> \in History /\ Default \in Branches BY CloneAssumption DEF History
<1> QED BY <1>1 DEF Typed, TreeRecord, NoFiles, NoDir

LEMMA HeadMoved ==
    ASSUME Typed, NEW d \in Dirs, NEW h \in History, MoveHead(d, h)
    PROVE  /\ tree' \in [Dirs -> TreeRecord] /\ \A e \in Dirs \ {d} : tree'[e] = tree[e]
           /\ tree'[d].kind = tree[d].kind /\ tree'[d].branch = tree[d].branch
           /\ local' \in [Branches -> Ref]
           /\ tree[d].kind = "tree" => local' = [local EXCEPT ![tree[d].branch] = h]
           /\ tree[d].kind # "tree" => local' = local /\ tree'[d].head = h
<1> DEFINE g == IF tree[d].kind = "tree" THEN NoRef ELSE h
           x == [tree[d] EXCEPT !.base = h, !.head = g]
<1>1. tree[d] \in TreeRecord /\ g \in Ref BY DEF Typed, Ref
<1>2. tree' = [tree EXCEPT ![d] = x] BY DEF Typed, MoveHead
<1>3. x \in TreeRecord /\ x.kind = tree[d].kind /\ x.branch = tree[d].branch /\ x.head = g
  <2> HIDE DEF g
  <2> QED BY <1>1 DEF TreeRecord, Ref
<1>4. local' \in [Branches -> Ref] BY DEF Typed, MoveHead, Ref
<1> HIDE DEF x
<1> QED BY <1>1, <1>2, <1>3, <1>4 DEF Typed, MoveHead

-----------------------------------------------------------------------------
(* What a step leaves alone.                                                *)

\* Branches of the clone only grow; records of it go, but for directories that are there.
Grows == \A b \in Branches : local[b] # NoRef => Ancestor(local[b], local'[b])
Prunes(e) == /\ e \in registered' => e \in registered
             /\ e \in registered /\ tree[e].kind = "tree" => e \in registered'

LEMMA DirFacts ==
    ASSUME IInv, NEW d \in Dirs, tree[d].kind # "none"
    PROVE  /\ HeadOf(d) \in History /\ tree[d].branch \in Branches
           /\ row[d].task \in Tasks /\ tree[d].branch = task[row[d].task].branch
           /\ tree[d].kind = "tree" => HeadOf(d) = local[tree[d].branch]
           /\ tree[d].kind # "tree" => HeadOf(d) = tree[d].head
<1>1. tree[d] \in TreeRecord /\ row[d] \in RowRecord BY DEF IInv, Typed
<1>2. tree[d].branch \in Branches /\ tree[d].head \in Ref BY <1>1 DEF TreeRecord, Ref
<1>3. local[tree[d].branch] \in Ref BY <1>2 DEF IInv, Typed
<1>4. DirInv(d) BY DEF IInv
<1> QED BY <1>1, <1>2, <1>3, <1>4 DEF DirInv, HeadOf, Ref, TreeRecord, RowRecord

\* What a task has in the clone stays there.
LEMMA StillInClone ==
    ASSUME IInv, Typed', Grows, NEW t \in Tasks, task'[t].commit = task[t].commit,
           task'[t].branch = task[t].branch, InClone(t)
    PROVE  InClone(t)'
<1>1. task[t] \in TaskRecord BY DEF IInv, Typed
<1>2. task[t].commit \in Ref /\ task[t].branch \in Branches BY <1>1 DEF TaskRecord, Ref
<1>3. local[task[t].branch] \in Ref /\ local'[task[t].branch] \in Ref BY <1>2 DEF IInv, Typed
<1>4. Ancestor(local[task[t].branch], local'[task[t].branch])
  BY <1>2 DEF Grows, InClone, Ancestor
<1>5. Ancestor(task[t].commit, local'[task[t].branch])
  BY <1>2, <1>3, <1>4, AncestorOfAncestor DEF InClone, Ref
<1> QED BY <1>5 DEF InClone

\* A directory that is not touched has the same head or a later one.
LEMMA HeadGrows ==
    ASSUME IInv, Typed', Grows, NEW d \in Dirs, tree'[d] = tree[d], tree[d].kind # "none"
    PROVE  Ancestor(HeadOf(d), HeadOf(d)')
<1>1. tree[d].branch \in Branches /\ HeadOf(d) \in History /\ HeadOf(d) # NoRef
  BY DirFacts, Known
<1>2. CASE tree[d].kind = "tree"
  BY <1>1, <1>2, DirFacts DEF Grows, HeadOf
<1>3. CASE tree[d].kind # "tree"
  BY <1>1, <1>3, AncestorOfItself DEF HeadOf
<1> QED BY <1>2, <1>3

\* A task whose run does nothing, and whose directories are left alone.
LEMMA TaskRests ==
    ASSUME IInv, Typed', Grows, cloned => cloned', NEW t \in Tasks,
           task'[t] = task[t],
           \A e \in Dirs : row[e].task = t =>
               row'[e] = row[e] /\ tree'[e] = tree[e] /\ (e \in registered' => e \in registered),
           \A e \in Dirs : row'[e].task = t => row[e].task = t
    PROVE  RunInv(t)' /\ CommitInv(t)'
<1>1. RunInv(t) /\ CommitInv(t) BY DEF IInv
<1>2. task[t] \in TaskRecord /\ task[t].commit \in Ref
  <2>1. task[t] \in TaskRecord BY DEF IInv, Typed
  <2> QED BY <2>1 DEF TaskRecord, Ref
<1>3. \A e \in Dirs : e \in ReadyRows(t)' <=> e \in ReadyRows(t) BY DEF ReadyRows
<1>4. ASSUME NEW d, Latest(t, d) PROVE Latest(t, d)'
  BY <1>3, <1>4 DEF Latest, ReadyRows
<1>5. ASSUME task[t].pc \in {"work", "measure"}, task[t].st = "active", task[t].commit # NoRef
      PROVE  Ancestor(task[t].commit, HeadOf(task[t].dir)')
  <2> DEFINE d == task[t].dir
  <2>1. d \in Dirs /\ tree'[d] = tree[d] /\ tree[d].kind # "none" /\ Ancestor(task[t].commit, HeadOf(d))
    BY <1>1, <1>5 DEF RunInv
  <2>2. Ancestor(HeadOf(d), HeadOf(d)') BY <2>1, HeadGrows
  <2>3. HeadOf(d) \in Ref BY <2>1, DirFacts DEF Ref
  <2>4. HeadOf(d)' \in Ref
    <3>1. tree'[d] \in TreeRecord /\ tree'[d].branch \in Branches BY <2>1 DEF Typed, TreeRecord
    <3>2. local'[tree'[d].branch] \in Ref /\ tree'[d].head \in Ref BY <3>1 DEF Typed, TreeRecord, Ref
    <3> QED BY <3>2 DEF HeadOf
  <2> QED BY <1>2, <2>1, <2>2, <2>3, <2>4, AncestorOfAncestor DEF Ref
<1>6. RunInv(t)'
  <2>1. ASSUME task[t].pc # "idle"
        PROVE  /\ task[t].dir \in Dirs /\ row'[task[t].dir] = row[task[t].dir]
               /\ tree'[task[t].dir] = tree[task[t].dir]
               /\ task[t].dir \in registered' => task[t].dir \in registered
    BY <1>1, <2>1 DEF RunInv
  <2>2. Terminal(t)' <=> Terminal(t) BY DEF Terminal
  <2> QED BY <1>1, <1>4, <1>5, <2>1, <2>2 DEF RunInv
<1>7. CommitInv(t)'
  <2>1. InClone(t) => InClone(t)' BY StillInClone
  <2>2. InOwn(t) => InOwn(t)' BY <1>4 DEF InOwn
  <2> QED BY <1>1, <2>1, <2>2 DEF CommitInv, Named
<1> QED BY <1>6, <1>7

\* A directory nobody touches.
LEMMA DirRests ==
    ASSUME IInv, Typed', Grows, NEW d \in Dirs, row'[d] = row[d], tree'[d] = tree[d], Prunes(d),
           d \in reclaim' => d \in reclaim,
           \A t \in Tasks : task'[t].branch = task[t].branch /\ (Terminal(t) => Terminal(t)')
    PROVE  DirInv(d)'
<1>1. DirInv(d) BY DEF IInv
<1>2. tree[d] \in TreeRecord /\ tree[d].branch \in Branches BY DEF IInv, Typed, TreeRecord
<1>3. local[tree[d].branch] # NoRef => local'[tree[d].branch] # NoRef
  BY <1>2 DEF Grows, Ancestor
<1> QED BY <1>1, <1>2, <1>3 DEF DirInv, Prunes

\* What a step of task t's keeps, if it touches at most one directory (D), of t's or unused, and
\* the invariant holds of t and D afterwards.
LEMMA OneTaskMoves ==
    ASSUME IInv, Typed', Grows, NEW t \in Tasks, NEW D \in SUBSET Dirs,
           \A d, e \in D : d = e, RunInv(t)', CommitInv(t)', \A d \in D : DirInv(d)',
           \A u \in Tasks \ {t} : task'[u] = task[u],
           task'[t].branch = task[t].branch, Terminal(t) => Terminal(t)',
           \A e \in Dirs \ D : row'[e] = row[e] /\ tree'[e] = tree[e] /\ Prunes(e),
           \A d \in D : /\ row[d].task \in {t, NoTask} /\ row'[d].task = t /\ row'[d].status # "none"
                        /\ \A e \in Dirs : e < d => row[e].status # "none"
                        /\ \A e \in registered : e # d /\ d \in registered' =>
                               tree'[d].branch # tree[e].branch,
           UNCHANGED <<cloned, sync>>, reclaim' \subseteq reclaim,
           ~cloned => registered' = {} /\ \A b \in Branches : local'[b] = NoRef
    PROVE  IInv'
<1>1. ASSUME NEW u \in Tasks \ {t} PROVE RunInv(u)' /\ CommitInv(u)'
  <2>1. u # NoTask BY WorkspacesAssumption
  <2>2. \A e \in Dirs : row[e].task = u => e \notin D BY <2>1
  <2>3. \A e \in Dirs : row'[e].task = u => e \notin D OBVIOUS
  <2>4. \A e \in Dirs : row[e].task = u =>
            row'[e] = row[e] /\ tree'[e] = tree[e] /\ (e \in registered' => e \in registered)
    BY <2>2 DEF Prunes
  <2>5. \A e \in Dirs : row'[e].task = u => row[e].task = u BY <2>3
  <2> QED BY <2>4, <2>5, TaskRests
<1>2. ASSUME NEW e \in Dirs \ D PROVE DirInv(e)'
  <2>1. \A u \in Tasks : task'[u].branch = task[u].branch /\ (Terminal(u) => Terminal(u)')
    BY DEF Terminal
  <2> QED BY <2>1, DirRests
<1>3. Shared'
  <2>1. Shared /\ registered \subseteq Dirs /\ registered' \subseteq Dirs BY DEF IInv, Typed
  <2>2. \A d, e \in Dirs : d < e /\ row'[e].status # "none" => row'[d].status # "none"
    BY <2>1 DEF Shared
  <2>3. ASSUME NEW d \in registered', NEW e \in registered', d # e
        PROVE  tree'[d].branch # tree'[e].branch
    <3>1. CASE d \notin D /\ e \notin D BY <2>1, <2>3, <3>1 DEF Shared, Prunes
    <3>2. CASE d \in D /\ e \notin D BY <2>1, <2>3, <3>2 DEF Prunes
    <3>3. CASE d \notin D /\ e \in D BY <2>1, <2>3, <3>3 DEF Prunes
    <3>4. CASE d \in D /\ e \in D BY <2>3, <3>4
    <3> QED BY <3>1, <3>2, <3>3, <3>4
  <2>4. ~cloned' => registered' = {} /\ \A b \in Branches : local'[b] = NoRef OBVIOUS
  <2>5. (sync'.pc # "idle" => cloned') /\ (sync'.pc = "move" => Ancestor(sync'.from, sync'.to))
    BY <2>1 DEF Shared
  <2> QED BY <2>2, <2>3, <2>4, <2>5 DEF Shared
<1> QED BY <1>1, <1>2, <1>3 DEF IInv

\* The same for one directory.
LEMMA OneDirectoryMoves ==
    ASSUME IInv, Typed', Grows, NEW t \in Tasks, NEW d \in Dirs,
           RunInv(t)', CommitInv(t)', DirInv(d)',
           \A u \in Tasks \ {t} : task'[u] = task[u],
           task'[t].branch = task[t].branch, Terminal(t) => Terminal(t)',
           \A e \in Dirs \ {d} : row'[e] = row[e] /\ tree'[e] = tree[e] /\ Prunes(e),
           row[d].task \in {t, NoTask}, row'[d].task = t, row'[d].status # "none",
           \A e \in Dirs : e < d => row[e].status # "none",
           d \in registered' => \A e \in registered : e # d => tree'[d].branch # tree[e].branch,
           UNCHANGED <<cloned, sync>>, reclaim' \subseteq reclaim,
           ~cloned => registered' = {} /\ \A b \in Branches : local'[b] = NoRef
    PROVE  IInv'
<1> DEFINE D == {d}
<1>1. D \in SUBSET Dirs /\ \A c, e \in D : c = e OBVIOUS
<1>2. \A c \in D : DirInv(c)' OBVIOUS
<1>3. \A e \in Dirs \ D : row'[e] = row[e] /\ tree'[e] = tree[e] /\ Prunes(e) OBVIOUS
<1>4. \A c \in D : /\ row[c].task \in {t, NoTask} /\ row'[c].task = t /\ row'[c].status # "none"
                   /\ \A e \in Dirs : e < c => row[e].status # "none"
                   /\ \A e \in registered : e # c /\ c \in registered' =>
                          tree'[c].branch # tree[e].branch
  OBVIOUS
<1> HIDE DEF D
<1> QED BY <1>1, <1>2, <1>3, <1>4, OneTaskMoves

\* Branches that do not move.
LEMMA SameGrows ==
    ASSUME IInv, UNCHANGED local
    PROVE  Grows
<1> SUFFICES ASSUME NEW b \in Branches, local[b] # NoRef PROVE Ancestor(local[b], local'[b])
  BY DEF Grows
<1>1. local[b] \in History BY DEF IInv, Typed, Ref
<1> QED BY <1>1, AncestorOfItself

\* A step that touches no directory.
LEMMA TaskAlone ==
    ASSUME IInv, Typed', NEW t \in Tasks, RunInv(t)', CommitInv(t)',
           UNCHANGED <<cloned, local, tree, registered, sync, row>>, reclaim' \subseteq reclaim,
           \A u \in Tasks \ {t} : task'[u] = task[u],
           task'[t].branch = task[t].branch, Terminal(t) => Terminal(t)'
    PROVE  IInv'
<1>1. Grows BY SameGrows
<1>2. ~cloned => registered' = {} /\ \A b \in Branches : local'[b] = NoRef BY DEF IInv, Shared
<1>3. \A e \in Dirs \ {} : row'[e] = row[e] /\ tree'[e] = tree[e] /\ Prunes(e) BY DEF Prunes
<1> QED BY <1>1, <1>2, <1>3, OneTaskMoves

\* Where the rows, the directories and the branches stay, so does what they hold of a task.
LEMMA NothingMoved ==
    ASSUME IInv, Typed', NEW t \in Tasks, UNCHANGED <<local, tree, row>>,
           task'[t].branch = task[t].branch, task'[t].commit = task[t].commit
    PROVE  /\ InClone(t) => InClone(t)'
           /\ InOwn(t) => InOwn(t)'
           /\ \A d \in Dirs : Latest(t, d) => Latest(t, d)'
           /\ \A d \in Dirs : HeadOf(d)' = HeadOf(d)
<1>1. \A d \in Dirs : Latest(t, d) => Latest(t, d)' BY DEF Latest, ReadyRows
<1> QED BY <1>1 DEF InClone, InOwn, HeadOf

LEMMA CommitStays ==
    ASSUME IInv, Typed', NEW t \in Tasks, UNCHANGED <<local, tree, row>>,
           task'[t].branch = task[t].branch, task'[t].commit = task[t].commit,
           task'[t].st = "active" =>
               /\ task[t].st = "active" /\ task'[t].pc # "clone"
               /\ task'[t].pc \in {"refresh", "attach", "measure"} =>
                      task[t].pc \in {"refresh", "attach", "measure"}
    PROVE  CommitInv(t)'
<1>1. CommitInv(t) BY DEF IInv
<1>2. InClone(t) => InClone(t)' BY NothingMoved
<1>3. InOwn(t) => InOwn(t)' BY NothingMoved
<1> QED BY <1>1, <1>2, <1>3 DEF CommitInv, Named

\* The next run of a task finds its directory with its commit in it.
LEMMA ReattachKeeps ==
    ASSUME IInv, NEW t \in Tasks, Reattach(t)
    PROVE  IInv'
<1>1. PICK d \in Reusable(t) : GoTo(t, "work", d) BY DEF Reattach
<1>2. /\ d \in Dirs /\ row[d].task = t /\ row[d].status = "ready" /\ Latest(t, d)
      /\ tree[d].kind # "none" /\ AtItsCommit(t, d)
  BY DEF Reusable, ReadyRows, Latest
<1>3. UNCHANGED <<remote, cloned, local, tracking, tree, registered, sync, left, row, reclaim>>
  BY DEF Reattach, cloneVars
<1>4. /\ task' \in [Tasks -> TaskRecord] /\ \A u \in Tasks \ {t} : task'[u] = task[u]
      /\ task'[t].pc = "work" /\ task'[t].dir = d /\ task'[t].st = task[t].st
      /\ task'[t].branch = task[t].branch /\ task'[t].commit = task[t].commit
  BY <1>1, <1>2, WentTo DEF IInv, Pcs
<1>5. Typed' BY <1>3, <1>4 DEF IInv, Typed
<1>6. task[t].commit # NoRef => Ancestor(task[t].commit, HeadOf(d))
  BY <1>2, DirFacts, AncestorOfItself DEF AtItsCommit
<1>7. RunInv(t)'
  <2>1. Latest(t, d)' /\ HeadOf(d)' = HeadOf(d) BY <1>2, <1>3, <1>4, <1>5, NothingMoved
  <2> QED BY <1>2, <1>3, <1>4, <1>6, <2>1 DEF RunInv, Latest, HeadOf
<1>8. CommitInv(t)' BY <1>3, <1>4, <1>5, CommitStays
<1> QED BY <1>3, <1>4, <1>5, <1>7, <1>8, TaskAlone DEF Terminal

\* A task without a directory to find gets a new row.
LEMMA NewRowKeeps ==
    ASSUME IInv, NEW t \in Tasks, NewRow(t)
    PROVE  IInv'
<1>1. PICK d \in Unused : /\ \A e \in Unused : d <= e
                          /\ row' = [row EXCEPT ![d] = [task |-> t, status |-> "allocated"]]
                          /\ GoTo(t, IF cloned THEN "refresh" ELSE "clone", d)
  BY DEF NewRow, HasClone
<1>2. UNCHANGED <<remote, cloned, local, tracking, tree, registered, sync, left, reclaim>>
  BY DEF NewRow, cloneVars
<1>3. d \in Dirs /\ row[d].status = "none" /\ Typed /\ DirInv(d) BY <1>1 DEF Unused, IInv
<1>4. row[d].task = NoTask /\ tree[d].kind = "none" /\ d \notin registered /\ d \notin reclaim
  BY <1>3, WorkspacesAssumption DEF DirInv
<1>5. /\ task' \in [Tasks -> TaskRecord] /\ \A u \in Tasks \ {t} : task'[u] = task[u]
      /\ task'[t].pc = (IF cloned THEN "refresh" ELSE "clone") /\ task'[t].dir = d
      /\ task'[t].st = task[t].st
      /\ task'[t].branch = task[t].branch /\ task'[t].commit = task[t].commit
  BY <1>1, <1>3, WentTo DEF Pcs
<1>6. /\ row' \in [Dirs -> RowRecord] /\ \A e \in Dirs \ {d} : row'[e] = row[e]
      /\ row'[d].task = t /\ row'[d].status = "allocated"
  BY <1>1, <1>3 DEF Typed, RowRecord
<1>7. Typed' BY <1>2, <1>3, <1>5, <1>6 DEF Typed
<1>8. \A e \in Dirs : e < d => row[e].status # "none"
  <2> SUFFICES ASSUME NEW e \in Dirs, e < d, row[e].status = "none" PROVE FALSE
    OBVIOUS
  <2>1. d <= e BY <1>1 DEF Unused
  <2> QED BY <1>3, <2>1, CloneAssumption DEF Dirs
<1>9. \A e \in Dirs : e \in ReadyRows(t)' => e \in ReadyRows(t) /\ e <= d
  <2> SUFFICES ASSUME NEW e \in Dirs, e \in ReadyRows(t)' PROVE e \in ReadyRows(t) /\ e <= d
    OBVIOUS
  <2>1. e # d /\ row[e].task = t /\ row[e].status = "ready" BY <1>6 DEF ReadyRows
  <2>2. ~(d < e) BY <1>3, <2>1 DEF IInv, Shared
  <2> QED BY <1>3, <2>1, <2>2, CloneAssumption DEF ReadyRows, Dirs
<1>10. ~InOwn(t) \/ ~Named(t)
  <2> SUFFICES ASSUME InOwn(t), Named(t) PROVE FALSE
    OBVIOUS
  <2>1. PICK e \in Dirs : /\ row[e].task = t /\ row[e].status = "ready" /\ Latest(t, e)
                          /\ tree[e].kind = "clone" /\ tree[e].head = task[t].commit
    BY DEF InOwn
  <2>2. HeadOf(e) = task[t].commit /\ HeadOf(e) # NoRef BY <2>1 DEF HeadOf, Named
  <2>3. e \in Reusable(t) BY <2>1, <2>2 DEF Reusable, ReadyRows, Latest, AtItsCommit
  <2> QED BY <2>3 DEF NewRow
<1>11. RunInv(t)'
  <2>1. Latest(t, d)' BY <1>9 DEF Latest, ReadyRows
  <2> QED BY <1>2, <1>3, <1>4, <1>5, <1>6, <2>1 DEF RunInv, Latest
<1>12. CommitInv(t)'
  <2> SUFFICES ASSUME Named(t)' PROVE InClone(t)' /\ task'[t].pc # "clone"
    BY DEF CommitInv
  <2>1. Named(t) /\ CommitInv(t) BY <1>5 DEF Named, IInv
  <2>2. InClone(t) BY <1>10, <2>1 DEF CommitInv
  <2>3. InClone(t)' BY <1>2, <1>5, <2>2 DEF InClone
  <2>4. task[t].branch \in Branches /\ local[task[t].branch] # NoRef
    BY <1>3, <2>2 DEF Typed, TaskRecord, InClone, Ancestor
  <2>5. cloned BY <2>4 DEF IInv, Shared
  <2> QED BY <1>5, <2>3, <2>5
<1>13. DirInv(d)' BY <1>2, <1>4, <1>6 DEF DirInv
<1>14. Grows BY <1>2, SameGrows
<1>15. ~cloned => registered' = {} /\ \A b \in Branches : local'[b] = NoRef BY <1>2 DEF IInv, Shared
<1>16. \A e \in Dirs \ {d} : row'[e] = row[e] /\ tree'[e] = tree[e] /\ Prunes(e)
  BY <1>2, <1>6 DEF Prunes
<1> QED BY <1>2, <1>3, <1>4, <1>5, <1>6, <1>7, <1>8, <1>11, <1>12, <1>13, <1>14, <1>15, <1>16,
           OneDirectoryMoves DEF Terminal

\* What a run says of its directory.
LEMMA RunFacts ==
    ASSUME IInv, NEW t \in Tasks, task[t].pc # "idle"
    PROVE  LET d == task[t].dir IN
           /\ d \in Dirs /\ row[d].task = t /\ row[d].status # "none"
           /\ \A e \in Dirs : e < d => row[e].status # "none"
           /\ task[t] \in TaskRecord /\ row[d] \in RowRecord /\ tree[d] \in TreeRecord
           /\ DirInv(d) /\ RunInv(t) /\ CommitInv(t) /\ Typed /\ Shared
<1> DEFINE d == task[t].dir
<1>1. RunInv(t) /\ CommitInv(t) /\ Typed /\ Shared BY DEF IInv
<1>2. d \in Dirs /\ row[d].task = t BY <1>1 DEF RunInv
<1>3. DirInv(d) /\ row[d].status # "none" BY <1>2, WorkspacesAssumption DEF IInv, DirInv
<1>4. \A e \in Dirs : e < d => row[e].status # "none" BY <1>1, <1>2, <1>3 DEF Shared
<1> QED BY <1>1, <1>2, <1>3, <1>4 DEF Typed

\* A run that touches nothing but its own directory, and not the branches.
LEMMA OwnDirectory ==
    ASSUME IInv, Typed', NEW t \in Tasks, task[t].pc # "idle", NEW d \in Dirs, d = task[t].dir,
           RunInv(t)', CommitInv(t)', DirInv(d)',
           \A u \in Tasks \ {t} : task'[u] = task[u],
           task'[t].branch = task[t].branch, Terminal(t) => Terminal(t)',
           \A e \in Dirs \ {d} : row'[e] = row[e] /\ tree'[e] = tree[e] /\ Prunes(e),
           row'[d].task = t, row'[d].status # "none", tree'[d].branch = tree[d].branch \/ d \notin registered,
           UNCHANGED <<cloned, sync, local>>, reclaim' \subseteq reclaim, registered' \subseteq registered
    PROVE  IInv'
<1>1. Grows BY SameGrows
<1>2. ~cloned => registered' = {} /\ \A b \in Branches : local'[b] = NoRef BY DEF IInv, Shared
<1>3. d \in registered' => \A e \in registered : e # d => tree'[d].branch # tree[e].branch
  BY DEF IInv, Shared
<1>4. row[d].task = t /\ \A e \in Dirs : e < d => row[e].status # "none" BY RunFacts
<1> QED BY <1>1, <1>2, <1>3, <1>4, OneDirectoryMoves

\* The clone is fetched for a task, or that fails.
LEMMA RefreshKeeps ==
    ASSUME IInv, NEW t \in Tasks, Refresh(t)
    PROVE  IInv'
<1>1. task[t].pc = "refresh" /\ FetchAll /\ Go(t, "attach") /\ UNCHANGED <<row, reclaim>>
  BY DEF Refresh
<1>2. /\ task' \in [Tasks -> TaskRecord] /\ \A u \in Tasks \ {t} : task'[u] = task[u]
      /\ task'[t].pc = "attach" /\ task'[t].dir = task[t].dir /\ task'[t].st = task[t].st
      /\ task'[t].branch = task[t].branch /\ task'[t].commit = task[t].commit
  BY <1>1, Went DEF IInv, Pcs
<1>3. UNCHANGED <<remote, cloned, local, tree, registered, sync>> /\ tracking' \in [Branches -> Ref]
      /\ left' \in Budget
  BY <1>1, Spent DEF FetchAll, IInv, Typed
<1>4. Typed' BY <1>1, <1>2, <1>3 DEF IInv, Typed
<1>5. task[t].dir \in Dirs /\ RunInv(t) BY <1>1, RunFacts
<1>6. RunInv(t)'
  <2>1. Latest(t, task[t].dir) => Latest(t, task[t].dir)' BY <1>1, <1>2 DEF Latest, ReadyRows
  <2> QED BY <1>1, <1>2, <1>3, <1>5, <2>1 DEF RunInv, Terminal, Latest
<1>7. CommitInv(t)' BY <1>1, <1>2, <1>3, <1>4, CommitStays
<1> QED BY <1>1, <1>2, <1>3, <1>4, <1>6, <1>7, TaskAlone DEF Terminal

\* A task that is refused a second row fails.
LEMMA FallbackKeeps ==
    ASSUME IInv, NEW t \in Tasks, Fallback(t)
    PROVE  IInv'
<1>1. UNCHANGED <<remote, cloned, local, tracking, tree, registered, sync, left, row, reclaim>>
      /\ Fails(t)
  BY DEF Fallback, cloneVars
<1>2. /\ task' \in [Tasks -> TaskRecord] /\ \A u \in Tasks \ {t} : task'[u] = task[u]
      /\ task'[t].pc = "idle" /\ task'[t].st \in Outcomes
      /\ task'[t].branch = task[t].branch /\ task'[t].commit = task[t].commit
  BY <1>1, Failed DEF IInv
<1>3. Typed' BY <1>1, <1>2 DEF IInv, Typed
<1>4. RunInv(t)' /\ CommitInv(t)' BY <1>2 DEF RunInv, CommitInv, Named, Outcomes
<1> QED BY <1>1, <1>2, <1>3, <1>4, TaskAlone DEF Terminal

\* The row of a branch the clone has never seen is released; that of a branch git refuses
\* fails, and the task.
LEMMA NotAttachedKeeps ==
    ASSUME IInv, NEW t \in Tasks, Unseen(t) \/ Refused(t)
    PROVE  IInv'
<1>0. PICK d \in Dirs : d = task[t].dir BY RunFacts DEF Unseen, Refused
<1>1. task[t].pc = "attach" /\ d \in Dirs /\ row[d].task = t /\ DirInv(d) /\ RunInv(t) /\ Typed
  BY <1>0, RunFacts DEF Unseen, Refused
<1>2. UNCHANGED <<remote, cloned, local, tracking, tree, registered, sync, left, reclaim>>
  BY DEF Unseen, Refused, cloneVars
<1>3. PICK s \in {"released", "failed"} : Mark(d, s) BY <1>0 DEF Unseen, Refused
<1>4. /\ row' \in [Dirs -> RowRecord] /\ \A e \in Dirs \ {d} : row'[e] = row[e]
      /\ row'[d].status = s /\ row'[d].task = t
  BY <1>1, <1>3, Marked
<1>5. /\ task' \in [Tasks -> TaskRecord] /\ \A u \in Tasks \ {t} : task'[u] = task[u]
      /\ task'[t].branch = task[t].branch /\ task'[t].commit = task[t].commit
      /\ \/ task'[t].pc = "idle" /\ task'[t].st \in Outcomes
         \/ task'[t].pc = "fallback" /\ task'[t].dir = d /\ task'[t].st = task[t].st
  <2>1. CASE Unseen(t) BY <1>0, <1>1, <2>1, Went DEF Unseen, Pcs
  <2>2. CASE Refused(t) BY <1>1, <2>2, Failed DEF Refused
  <2> QED BY <2>1, <2>2
<1>6. Typed' BY <1>1, <1>2, <1>4, <1>5 DEF Typed
<1>7. RunInv(t)' BY <1>0, <1>1, <1>4, <1>5 DEF RunInv, Outcomes
<1>8. CommitInv(t)'
  <2> SUFFICES ASSUME Named(t)' PROVE InClone(t)' /\ task'[t].pc = "fallback"
    BY DEF CommitInv
  <2>1. Named(t) /\ CommitInv(t) /\ task'[t].pc = "fallback"
    BY <1>5 DEF Named, IInv, Outcomes
  <2>2. InClone(t) BY <1>1, <2>1 DEF CommitInv
  <2> QED BY <1>2, <1>5, <2>1, <2>2 DEF InClone
<1>9. DirInv(d)' BY <1>0, <1>1, <1>2, <1>4, <1>5 DEF DirInv, RunInv, Terminal, Outcomes
<1>10. \A e \in Dirs \ {d} : row'[e] = row[e] /\ tree'[e] = tree[e] /\ Prunes(e)
  BY <1>2, <1>4 DEF Prunes
<1>11. Terminal(t) => Terminal(t)' BY <1>5 DEF Terminal, Outcomes
<1> QED BY <1>0, <1>1, <1>2, <1>4, <1>5, <1>6, <1>7, <1>8, <1>9, <1>10, <1>11, OwnDirectory

\* A worktree of the task's branch, which no other has.
LEMMA AttachedKeeps ==
    ASSUME IInv, NEW t \in Tasks, Attached(t)
    PROVE  IInv' /\ Grows
<1>0. PICK d \in Dirs : d = task[t].dir BY RunFacts DEF Attached
<1>1. task[t].pc = "attach" /\ d \in Dirs /\ row[d].task = t /\ row[d].status # "none"
      /\ DirInv(d) /\ RunInv(t) /\ Typed /\ task[t] \in TaskRecord
      /\ \A e \in Dirs : e < d => row[e].status # "none"
  BY <1>0, RunFacts DEF Attached
<1>2. PICK b \in Branches : b = task[t].branch BY <1>1 DEF TaskRecord
<1>3. /\ local[b] # NoRef \/ tracking[b] # NoRef
      /\ Attachable(b) /\ Attach(d, b) /\ Go(t, "measure") /\ UNCHANGED <<row, reclaim>>
  BY <1>0, <1>2 DEF Attached
<1>4. PICK tip \in History : tip = IF local[b] = NoRef THEN tracking[b] ELSE local[b]
  BY <1>1, <1>2, <1>3 DEF Typed, Ref
<1>5. /\ local' = [local EXCEPT ![b] = tip]
      /\ tree' = [tree EXCEPT ![d] = [NoDir EXCEPT !.kind = "tree", !.branch = b, !.base = tip]]
      /\ registered' = registered \cup {d}
      /\ UNCHANGED <<remote, cloned, tracking, sync, left>>
  BY <1>3, <1>4 DEF Attach
<1>6. local[b] # NoRef => tip = local[b] BY <1>4
<1>7. /\ tree' \in [Dirs -> TreeRecord] /\ \A e \in Dirs \ {d} : tree'[e] = tree[e]
      /\ tree'[d].kind = "tree" /\ tree'[d].branch = b
  BY <1>1, <1>2, <1>4, <1>5 DEF Typed, TreeRecord, NoDir
<1>8. /\ task' \in [Tasks -> TaskRecord] /\ \A u \in Tasks \ {t} : task'[u] = task[u]
      /\ task'[t].pc = "measure" /\ task'[t].dir = d /\ task'[t].st = task[t].st
      /\ task'[t].branch = task[t].branch /\ task'[t].commit = task[t].commit
  BY <1>0, <1>1, <1>3, Went DEF Pcs
<1>9. /\ local' \in [Branches -> Ref] /\ local'[b] = tip
      /\ \A c \in Branches \ {b} : local'[c] = local[c]
  BY <1>1, <1>2, <1>4, <1>5 DEF Typed, Ref
<1>10. Typed' BY <1>1, <1>3, <1>5, <1>7, <1>8, <1>9 DEF Typed
<1>11. Grows
  <2> SUFFICES ASSUME NEW c \in Branches, local[c] # NoRef PROVE Ancestor(local[c], local'[c])
    BY DEF Grows
  <2>1. local'[c] = local[c] /\ local[c] \in History BY <1>1, <1>6, <1>9 DEF Typed, Ref
  <2> QED BY <2>1, AncestorOfItself
<1>12. cloned BY <1>1 DEF RunInv
<1>13. \A e \in registered : b # tree[e].branch BY <1>3 DEF Attachable, TakenBranches
<1>14. InClone(t) => InClone(t)' BY <1>8, <1>10, <1>11, StillInClone
<1>15. CommitInv(t)'
  <2>1. CommitInv(t) BY DEF IInv
  <2> QED BY <1>1, <1>8, <1>14, <2>1 DEF CommitInv, Named
<1>16. RunInv(t)'
  <2>1. Latest(t, d) => Latest(t, d)' BY <1>3 DEF Latest, ReadyRows
  <2>2. ASSUME Named(t) PROVE Ancestor(task[t].commit, HeadOf(d)')
    <3>1. CommitInv(t) BY DEF IInv
    <3>2. InClone(t)' BY <1>1, <1>14, <2>2, <3>1 DEF CommitInv
    <3>3. HeadOf(d)' = local'[b] BY <1>7 DEF HeadOf
    <3> QED BY <1>2, <1>8, <3>2, <3>3 DEF InClone
  <2> QED BY <1>0, <1>1, <1>3, <1>7, <1>8, <2>1, <2>2 DEF RunInv, Terminal, Named, Latest, HeadOf
<1>17. DirInv(d)'
  BY <1>1, <1>2, <1>3, <1>4, <1>5, <1>7, <1>8, <1>9, Known DEF DirInv, Terminal
<1>18. \A e \in Dirs \ {d} : row'[e] = row[e] /\ tree'[e] = tree[e] /\ Prunes(e)
  BY <1>3, <1>5, <1>7 DEF Prunes
<1> QED BY <1>1, <1>3, <1>5, <1>7, <1>8, <1>10, <1>11, <1>12, <1>13, <1>15, <1>16, <1>17, <1>18,
           OneDirectoryMoves DEF Terminal

\* A clone of the task's own: a task with a commit does not come here.
LEMMA CloneKeeps ==
    ASSUME IInv, NEW t \in Tasks, Clone(t)
    PROVE  IInv'
<1>0. PICK d \in Dirs : d = task[t].dir BY RunFacts DEF Clone
<1>1. task[t].pc = "clone" /\ d \in Dirs /\ row[d].task = t /\ row[d].status # "none"
      /\ DirInv(d) /\ RunInv(t) /\ CommitInv(t) /\ Typed /\ task[t] \in TaskRecord
  BY <1>0, RunFacts DEF Clone
<1>2. PICK b \in Branches : b = task[t].branch BY <1>1 DEF TaskRecord
<1>3. <<>> \in History BY DEF History
<1>4. PICK tip \in History : tip = IF remote[b] = NoRef THEN <<>> ELSE remote[b]
  BY <1>1, <1>2, <1>3 DEF Typed, Ref
<1>5. /\ tree' = [tree EXCEPT ![d] = [NoDir EXCEPT !.kind = "clone", !.branch = b, !.head = tip,
                                                   !.base = tip]]
      /\ Go(t, "measure")
      /\ UNCHANGED <<remote, cloned, local, tracking, registered, sync, left, row, reclaim>>
  BY <1>0, <1>2, <1>4 DEF Clone, CloneInto
<1>6. /\ tree' \in [Dirs -> TreeRecord] /\ \A e \in Dirs \ {d} : tree'[e] = tree[e]
      /\ tree'[d].kind = "clone" /\ tree'[d].branch = b /\ tree'[d].head = tip
  BY <1>1, <1>2, <1>4, <1>5 DEF Typed, TreeRecord, NoDir
<1>7. /\ task' \in [Tasks -> TaskRecord] /\ \A u \in Tasks \ {t} : task'[u] = task[u]
      /\ task'[t].pc = "measure" /\ task'[t].dir = d /\ task'[t].st = task[t].st
      /\ task'[t].branch = task[t].branch /\ task'[t].commit = task[t].commit
  BY <1>0, <1>1, <1>5, Went DEF Pcs
<1>8. Typed' BY <1>1, <1>5, <1>6, <1>7 DEF Typed
<1>9. CommitInv(t)' BY <1>1, <1>7 DEF CommitInv, Named
<1>10. RunInv(t)'
  <2>1. Latest(t, d) => Latest(t, d)' BY <1>5 DEF Latest, ReadyRows
  <2>2. ~Named(t) BY <1>1 DEF CommitInv
  <2> QED BY <1>0, <1>1, <1>5, <1>6, <1>7, <2>1, <2>2 DEF RunInv, Terminal, Named, Latest
<1>11. DirInv(d)' BY <1>1, <1>2, <1>4, <1>5, <1>6, <1>7, Known DEF DirInv, Terminal
<1>12. \A e \in Dirs \ {d} : row'[e] = row[e] /\ tree'[e] = tree[e] /\ Prunes(e)
  BY <1>5, <1>6 DEF Prunes
<1>13. d \notin registered BY <1>0, <1>1 DEF RunInv
<1> QED BY <1>0, <1>1, <1>5, <1>6, <1>7, <1>8, <1>9, <1>10, <1>11, <1>12, <1>13, OwnDirectory DEF Terminal

\* A workspace within the quota is ready; another is removed and its task fails.
LEMMA MeasureKeeps ==
    ASSUME IInv, NEW t \in Tasks, Measure(t)
    PROVE  IInv'
<1>0. PICK d \in Dirs : d = task[t].dir BY RunFacts DEF Measure
<1>1. task[t].pc = "measure" /\ row[d].task = t /\ row[d].status # "none"
      /\ DirInv(d) /\ RunInv(t) /\ CommitInv(t) /\ Typed /\ Shared
  BY <1>0, RunFacts DEF Measure
<1>2. UNCHANGED <<remote, cloned, local, tracking, registered, sync, reclaim>>
  BY DEF Measure, cloneVars
<1>3. CASE Mark(d, "ready") /\ Go(t, "work") /\ UNCHANGED cloneVars
  <2>1. /\ row' \in [Dirs -> RowRecord] /\ \A e \in Dirs \ {d} : row'[e] = row[e]
        /\ row'[d].status = "ready" /\ row'[d].task = t
    BY <1>1, <1>3, Marked
  <2>2. /\ task' \in [Tasks -> TaskRecord] /\ \A u \in Tasks \ {t} : task'[u] = task[u]
        /\ task'[t].pc = "work" /\ task'[t].dir = d /\ task'[t].st = task[t].st
        /\ task'[t].branch = task[t].branch /\ task'[t].commit = task[t].commit
    BY <1>0, <1>1, <1>3, Went DEF Pcs
  <2>3. tree' = tree /\ left' = left BY <1>3 DEF cloneVars
  <2>4. Typed' BY <1>1, <1>2, <2>1, <2>2, <2>3 DEF Typed
  <2>5. RunInv(t)'
    <3>1. Latest(t, d) => Latest(t, d)'
      <4>1. \A e \in Dirs : e \in ReadyRows(t)' => e \in ReadyRows(t) \/ e = d
        BY <2>1 DEF ReadyRows
      <4> QED BY <4>1, CloneAssumption DEF Latest, ReadyRows, Dirs
    <3>2. HeadOf(d)' = HeadOf(d) BY <1>2, <2>3 DEF HeadOf
    <3> QED BY <1>0, <1>1, <2>1, <2>2, <2>3, <3>1, <3>2 DEF RunInv, Latest, HeadOf
  <2>6. CommitInv(t)' BY <1>1, <1>2, <2>2 DEF CommitInv, Named, InClone
  <2>7. DirInv(d)' BY <1>1, <1>2, <2>1, <2>2, <2>3 DEF DirInv, Terminal
  <2>8. \A e \in Dirs \ {d} : row'[e] = row[e] /\ tree'[e] = tree[e] /\ Prunes(e)
    BY <1>2, <2>1, <2>3 DEF Prunes
  <2> QED BY <1>0, <1>1, <1>2, <2>1, <2>2, <2>3, <2>4, <2>5, <2>6, <2>7, <2>8, OwnDirectory DEF Terminal
<1>4. CASE left["faults"] > 0 /\ Spend("faults") /\ NoFiles(d) /\ Mark(d, "failed") /\ Fails(t)
  <2>1. /\ row' \in [Dirs -> RowRecord] /\ \A e \in Dirs \ {d} : row'[e] = row[e]
        /\ row'[d].status = "failed" /\ row'[d].task = t
    BY <1>1, <1>4, Marked
  <2>2. /\ task' \in [Tasks -> TaskRecord] /\ \A u \in Tasks \ {t} : task'[u] = task[u]
        /\ task'[t].pc = "idle" /\ task'[t].st \in Outcomes
        /\ task'[t].branch = task[t].branch /\ task'[t].commit = task[t].commit
    BY <1>1, <1>4, Failed
  <2>3. /\ tree' \in [Dirs -> TreeRecord] /\ \A e \in Dirs \ {d} : tree'[e] = tree[e]
        /\ tree'[d].kind = "none" /\ tree'[d].branch = tree[d].branch
    BY <1>1, <1>4, Emptied
  <2>4. left' \in Budget BY <1>1, <1>4, Spent
  <2>5. Typed' BY <1>1, <1>2, <2>1, <2>2, <2>3, <2>4 DEF Typed
  <2>6. RunInv(t)' /\ CommitInv(t)' BY <2>2 DEF RunInv, CommitInv, Named, Outcomes
  <2>7. DirInv(d)' BY <1>1, <1>2, <2>1, <2>2, <2>3 DEF DirInv, Terminal
  <2>8. \A e \in Dirs \ {d} : row'[e] = row[e] /\ tree'[e] = tree[e] /\ Prunes(e)
    BY <1>2, <2>1, <2>3 DEF Prunes
  <2>9. Terminal(t)' BY <2>2 DEF Terminal
  <2> QED BY <1>0, <1>1, <1>2, <2>1, <2>2, <2>3, <2>5, <2>6, <2>7, <2>8, <2>9, OwnDirectory
<1> QED BY <1>0, <1>3, <1>4 DEF Measure

\* A pull moves the branch forward, or nothing.
LEMMA PullKeeps ==
    ASSUME IInv, NEW t \in Tasks, PullBranch(t)
    PROVE  IInv' /\ Grows
<1>0. PICK d \in Dirs : d = task[t].dir BY RunFacts DEF PullBranch, Works
<1>1. task[t].pc = "work" /\ task[t].st = "active" /\ task[t].commit = NoRef
      /\ row[d].task = t /\ row[d].status # "none" /\ \A e \in Dirs : e < d => row[e].status # "none"
  BY <1>0, RunFacts DEF PullBranch, Works
<1>2. DirInv(d) /\ RunInv(t) /\ Typed /\ Shared /\ tree[d].kind # "none"
  BY <1>0, <1>1, RunFacts DEF RunInv
<1>3. PICK b \in Branches : b = tree[d].branch BY <1>2, DirFacts
<1>4. /\ remote[b] # NoRef /\ UNCHANGED <<row, task, reclaim, remote, cloned, registered, sync, left>>
      /\ IF Ancestor(HeadOf(d), remote[b]) THEN MoveHead(d, remote[b]) ELSE UNCHANGED <<local, tree>>
      /\ tracking' = IF tree[d].kind = "tree" THEN [tracking EXCEPT ![b] = remote[b]] ELSE tracking
  BY <1>0, <1>3 DEF PullBranch, Pull, taskVars
<1>5. remote[b] \in History /\ tracking' \in [Branches -> Ref] BY <1>2, <1>4 DEF Typed, Ref
<1>6. /\ tree' \in [Dirs -> TreeRecord] /\ \A e \in Dirs \ {d} : tree'[e] = tree[e]
      /\ tree'[d].kind = tree[d].kind /\ tree'[d].branch = b
      /\ local' \in [Branches -> Ref]
      /\ tree[d].kind = "clone" => local' = local /\ tree'[d].head # NoRef
      /\ tree[d].kind = "tree" =>
             \/ local' = local
             \/ local' = [local EXCEPT ![b] = remote[b]] /\ Ancestor(local[b], remote[b])
  <2>1. CASE Ancestor(HeadOf(d), remote[b])
    <3>1. MoveHead(d, remote[b]) BY <1>4, <2>1
    <3>2. tree[d].kind = "tree" => Ancestor(local[b], remote[b]) BY <1>3, <2>1 DEF HeadOf
    <3>3. /\ tree' \in [Dirs -> TreeRecord] /\ \A e \in Dirs \ {d} : tree'[e] = tree[e]
          /\ tree'[d].kind = tree[d].kind /\ tree'[d].branch = b
          /\ local' \in [Branches -> Ref]
          /\ tree[d].kind = "tree" => local' = [local EXCEPT ![b] = remote[b]]
          /\ tree[d].kind # "tree" => local' = local /\ tree'[d].head = remote[b]
      BY <1>2, <1>3, <1>5, <3>1, HeadMoved
    <3> QED BY <1>4, <3>2, <3>3
  <2>2. CASE ~Ancestor(HeadOf(d), remote[b])
    <3>1. tree' = tree /\ local' = local BY <1>4, <2>2
    <3>2. tree[d].kind = "clone" => tree[d].head # NoRef BY <1>2 DEF DirInv
    <3> QED BY <1>2, <1>3, <3>1, <3>2 DEF Typed
  <2> QED BY <2>1, <2>2
<1>7. Typed' BY <1>2, <1>4, <1>5, <1>6 DEF Typed
<1>8. tree[d].kind \in {"clone", "tree"}
  <2>1. tree[d] \in TreeRecord BY <1>2 DEF Typed
  <2> QED BY <1>2, <2>1 DEF TreeRecord
<1>9. Grows
  <2> SUFFICES ASSUME NEW c \in Branches, local[c] # NoRef PROVE Ancestor(local[c], local'[c])
    BY DEF Grows
  <2>1. local[c] \in History BY <1>2 DEF Typed, Ref
  <2>2. Ancestor(local[c], local[c]) BY <2>1, AncestorOfItself
  <2>3. CASE local' = local BY <2>2, <2>3
  <2>4. CASE local' = [local EXCEPT ![b] = remote[b]] /\ Ancestor(local[b], remote[b])
    BY <1>2, <2>2, <2>4 DEF Typed
  <2> QED BY <1>6, <1>8, <2>3, <2>4
<1>10. RunInv(t)'
  <2>1. Latest(t, d) => Latest(t, d)' BY <1>4 DEF Latest, ReadyRows
  <2> QED BY <1>0, <1>1, <1>2, <1>4, <1>6, <2>1 DEF RunInv, Latest
<1>11. CommitInv(t)' BY <1>1, <1>4 DEF CommitInv, Named
<1>12. DirInv(d)'
  <2>1. tree[d].kind = "tree" => local'[b] # NoRef
    BY <1>2, <1>3, <1>4, <1>6 DEF DirInv, Typed
  <2> QED BY <1>1, <1>2, <1>3, <1>4, <1>6, <1>8, <2>1 DEF DirInv, Terminal
<1>13. \A e \in Dirs \ {d} : row'[e] = row[e] /\ tree'[e] = tree[e] /\ Prunes(e)
  BY <1>4, <1>6 DEF Prunes
<1>14. d \in registered' => \A e \in registered : e # d => tree'[d].branch # tree[e].branch
  BY <1>2, <1>3, <1>4, <1>6 DEF Shared
<1>15. ~cloned => registered' = {} /\ \A c \in Branches : local'[c] = NoRef
  BY <1>2, <1>4, <1>6, <1>8 DEF Shared, DirInv
<1> QED BY <1>1, <1>2, <1>4, <1>6, <1>7, <1>9, <1>10, <1>11, <1>12, <1>13, <1>14, <1>15,
           OneDirectoryMoves DEF Terminal

\* A commit is in the branch of the clone, or in the task's own clone, from the start.
LEMMA CommitKeeps ==
    ASSUME IInv, NEW t \in Tasks, MakeCommit(t)
    PROVE  IInv' /\ Grows
<1>0. PICK d \in Dirs : d = task[t].dir BY RunFacts DEF MakeCommit, Works
<1>1. task[t].pc = "work" /\ task[t].st = "active" /\ task[t].commit = NoRef
      /\ row[d].task = t /\ row[d].status # "none" /\ \A e \in Dirs : e < d => row[e].status # "none"
  BY <1>0, RunFacts DEF MakeCommit, Works
<1>2. /\ DirInv(d) /\ RunInv(t) /\ Typed /\ Shared /\ tree[d].kind # "none"
      /\ row[d].status = "ready" /\ Latest(t, d) /\ task[t] \in TaskRecord
  BY <1>0, <1>1, RunFacts DEF RunInv
<1>3. PICK b \in Branches : b = tree[d].branch /\ b = task[t].branch BY <1>1, <1>2, DirFacts
<1>4. HeadOf(d) \in History BY <1>2, DirFacts
<1>5. PICK h \in History : h = Append(HeadOf(d), t) /\ h # NoRef /\ Ancestor(HeadOf(d), h)
  BY <1>4, AncestorOfCommit DEF Authors
<1>6. /\ MoveHead(d, h) /\ task' = [task EXCEPT ![t].commit = h]
      /\ UNCHANGED <<row, reclaim, remote, cloned, tracking, registered, sync, left>>
  BY <1>0, <1>5 DEF MakeCommit, Commit
<1>7. /\ tree' \in [Dirs -> TreeRecord] /\ \A e \in Dirs \ {d} : tree'[e] = tree[e]
      /\ tree'[d].kind = tree[d].kind /\ tree'[d].branch = b /\ local' \in [Branches -> Ref]
      /\ tree[d].kind = "tree" => local' = [local EXCEPT ![b] = h] /\ Ancestor(local[b], h)
      /\ tree[d].kind # "tree" => local' = local /\ tree'[d].head = h
  <2>1. Typed /\ MoveHead(d, h) /\ tree[d].branch = b BY <1>2, <1>3, <1>6
  <2>2. tree[d].kind = "tree" => Ancestor(local[b], h) BY <1>5, <2>1 DEF HeadOf
  <2>3. /\ tree' \in [Dirs -> TreeRecord] /\ \A e \in Dirs \ {d} : tree'[e] = tree[e]
        /\ tree'[d].kind = tree[d].kind /\ tree'[d].branch = b /\ local' \in [Branches -> Ref]
        /\ tree[d].kind = "tree" => local' = [local EXCEPT ![b] = h]
        /\ tree[d].kind # "tree" => local' = local /\ tree'[d].head = h
    BY <2>1, HeadMoved
  <2> QED BY <2>2, <2>3
<1>8. /\ task' \in [Tasks -> TaskRecord] /\ \A u \in Tasks \ {t} : task'[u] = task[u]
      /\ task'[t].pc = "work" /\ task'[t].dir = d /\ task'[t].st = "active"
      /\ task'[t].branch = b /\ task'[t].commit = h
  BY <1>0, <1>1, <1>2, <1>3, <1>6 DEF Typed, TaskRecord
<1>9. Typed' BY <1>2, <1>6, <1>7, <1>8 DEF Typed
<1>10. tree[d].kind \in {"clone", "tree"}
  <2>1. tree[d] \in TreeRecord BY <1>2 DEF Typed
  <2> QED BY <1>2, <2>1 DEF TreeRecord
<1>11. Grows
  <2> SUFFICES ASSUME NEW c \in Branches, local[c] # NoRef PROVE Ancestor(local[c], local'[c])
    BY DEF Grows
  <2>1. local[c] \in History BY <1>2 DEF Typed, Ref
  <2>2. Ancestor(local[c], local[c]) BY <2>1, AncestorOfItself
  <2> QED BY <1>2, <1>7, <2>2 DEF Typed
<1>12. /\ tree[d].kind = "tree" => local'[b] = h
       /\ HeadOf(d)' = h
  <2>1. tree[d].kind = "tree" => local'[b] = h BY <1>2, <1>7 DEF Typed
  <2> QED BY <1>7, <2>1 DEF HeadOf
<1>13. Latest(t, d)' BY <1>2, <1>6 DEF Latest, ReadyRows
<1>14. RunInv(t)'
  <2>1. Ancestor(h, h) BY AncestorOfItself
  <2> QED BY <1>1, <1>2, <1>6, <1>7, <1>8, <1>12, <1>13, <2>1 DEF RunInv, Latest, HeadOf
<1>15. CommitInv(t)'
  <2>1. CASE tree[d].kind = "tree"
    <3>1. Ancestor(h, h) BY AncestorOfItself
    <3> QED BY <1>8, <1>12, <2>1, <3>1 DEF CommitInv, InClone
  <2>2. CASE tree[d].kind = "clone"
    <3>1. InOwn(t)' BY <1>1, <1>2, <1>6, <1>7, <1>8, <1>13, <2>2 DEF InOwn
    <3> QED BY <1>8, <3>1 DEF CommitInv
  <2> QED BY <1>10, <2>1, <2>2
<1>16. DirInv(d)' BY <1>1, <1>2, <1>3, <1>5, <1>6, <1>7, <1>8, <1>12 DEF DirInv, Terminal
<1>17. \A e \in Dirs \ {d} : row'[e] = row[e] /\ tree'[e] = tree[e] /\ Prunes(e)
  BY <1>6, <1>7 DEF Prunes
<1>18. d \in registered' => \A e \in registered : e # d => tree'[d].branch # tree[e].branch
  BY <1>2, <1>3, <1>6, <1>7 DEF Shared
<1>19. ~cloned => registered' = {} /\ \A c \in Branches : local'[c] = NoRef
  BY <1>2, <1>6, <1>7, <1>10 DEF Shared, DirInv
<1>20. ~Terminal(t) BY <1>1 DEF Terminal, Outcomes
<1> QED BY <1>1, <1>3, <1>6, <1>8, <1>9, <1>11, <1>14, <1>15, <1>16, <1>17, <1>18, <1>19, <1>20,
           OneDirectoryMoves

\* A step of a run or a person that touches no directory and no branch of the clone, and by
\* which the run goes on where it is, ends, or comes to release what a settled task has.
LEMMA NoDirectoryMoves ==
    ASSUME IInv, Typed', NEW t \in Tasks,
           UNCHANGED <<cloned, local, tree, registered, sync, row, reclaim>>,
           \A u \in Tasks \ {t} : task'[u] = task[u],
           task'[t].branch = task[t].branch, task'[t].commit = task[t].commit,
           Terminal(t) => Terminal(t)', task'[t].st = "active" => task[t].st = "active",
           \/ task'[t].pc = "idle"
           \/ task'[t].pc = "release" /\ task[t].pc = "work" /\ Terminal(t)' /\ task'[t].dir = task[t].dir
           \/ task'[t].pc = task[t].pc /\ task'[t].dir = task[t].dir
    PROVE  IInv'
<1>1. RunInv(t) /\ CommitInv(t) BY DEF IInv
<1>2. CommitInv(t)'
  <2>1. (InClone(t) => InClone(t)') /\ (InOwn(t) => InOwn(t)') BY NothingMoved
  <2>2. Terminal(t)' => ~Named(t)' BY DEF Terminal, Named, Outcomes
  <2> QED BY <1>1, <2>1, <2>2 DEF CommitInv, Named
<1>3. RunInv(t)'
  <2>1. \A d \in Dirs : Latest(t, d) => Latest(t, d)' BY NothingMoved
  <2>2. \A d \in Dirs : HeadOf(d)' = HeadOf(d) BY NothingMoved
  <2>3. CASE task'[t].pc = "idle" BY <2>3 DEF RunInv
  <2>4. CASE task'[t].pc = "release" /\ task[t].pc = "work" /\ Terminal(t)' /\ task'[t].dir = task[t].dir
    BY <1>1, <2>4 DEF RunInv
  <2>5. CASE task'[t].pc = task[t].pc /\ task'[t].dir = task[t].dir
    <3>1. task[t].pc # "idle" => task[t].dir \in Dirs BY <1>1 DEF RunInv
    <3> QED BY <1>1, <2>1, <2>2, <2>5, <3>1 DEF RunInv, Latest, HeadOf
  <2> QED BY <2>3, <2>4, <2>5
<1> QED BY <1>2, <1>3, TaskAlone

\* A run that stops for an approval.
LEMMA ParkKeeps ==
    ASSUME IInv, NEW t \in Tasks, Park(t)
    PROVE  IInv'
<1>1. task[t].st = "active" /\ Keeps(t) BY DEF Park, Works, Keeps, Terminal, Outcomes
<1>2. task[t] \in TaskRecord /\ 0 \in 0..MaxDirs BY CloneAssumption DEF IInv, Typed
<1> DEFINE x == [task[t] EXCEPT !.waits = TRUE, !.pc = "idle", !.dir = 0]
<1>3. task' = [task EXCEPT ![t] = x] BY <1>1 DEF Park, IInv, Typed
<1>4. x \in TaskRecord /\ x.pc = "idle" /\ x.st = task[t].st /\ x.branch = task[t].branch
      /\ x.commit = task[t].commit
  BY <1>2 DEF TaskRecord, Pcs
<1> HIDE DEF x
<1>5. UNCHANGED <<remote, cloned, local, tracking, tree, registered, sync, left, row, reclaim>>
  BY DEF Park, cloneVars
<1>6. task' \in [Tasks -> TaskRecord] /\ task'[t] = x /\ \A u \in Tasks \ {t} : task'[u] = task[u]
  BY <1>3, <1>4 DEF IInv, Typed
<1>7. Typed' BY <1>5, <1>6 DEF IInv, Typed
<1> QED BY <1>4, <1>5, <1>6, <1>7, NoDirectoryMoves DEF Terminal

LEMMA ApproveKeeps ==
    ASSUME IInv, NEW t \in Tasks, Approve(t)
    PROVE  IInv'
<1>1. UNCHANGED <<remote, cloned, local, tracking, tree, registered, sync, left, row, reclaim>>
  BY DEF Approve, cloneVars
<1>2. /\ task' \in [Tasks -> TaskRecord] /\ \A u \in Tasks \ {t} : task'[u] = task[u]
      /\ task'[t].pc = task[t].pc /\ task'[t].dir = task[t].dir /\ task'[t].st = task[t].st
      /\ task'[t].branch = task[t].branch /\ task'[t].commit = task[t].commit
  BY DEF Approve, IInv, Typed, TaskRecord
<1>3. Typed' BY <1>1, <1>2 DEF IInv, Typed
<1> QED BY <1>1, <1>2, <1>3, NoDirectoryMoves DEF Terminal

\* The task settles, and its run comes to release its workspace.
LEMMA SettlesKeeps ==
    ASSUME IInv, NEW t \in Tasks, Deliver(t) \/ End(t)
    PROVE  IInv'
<1>0. PICK d \in Dirs : d = task[t].dir BY RunFacts DEF Deliver, End, Works
<1>1. task[t].pc = "work" /\ task[t].st = "active" /\ Typed /\ RunInv(t) /\ task[t] \in TaskRecord
  BY RunFacts DEF Deliver, End, Works
<1>2. tree[d].kind # "none" BY <1>0, <1>1 DEF RunInv
<1>3. UNCHANGED <<cloned, local, tracking, tree, registered, sync, row, reclaim>>
  BY DEF Deliver, End, Push, cloneVars
<1>4. PICK s \in Outcomes : task' = [task EXCEPT ![t].st = s, ![t].pc = "release"]
  BY DEF Deliver, End, Outcomes
<1>5. /\ task' \in [Tasks -> TaskRecord] /\ \A u \in Tasks \ {t} : task'[u] = task[u]
      /\ task'[t].pc = "release" /\ task'[t].dir = task[t].dir /\ task'[t].st = s
      /\ task'[t].branch = task[t].branch /\ task'[t].commit = task[t].commit
  <2> DEFINE x == [task[t] EXCEPT !.st = s, !.pc = "release"]
  <2>1. task' = [task EXCEPT ![t] = x] BY <1>1, <1>4 DEF Typed
  <2>2. x \in TaskRecord /\ x.pc = "release" /\ x.dir = task[t].dir /\ x.st = s
        /\ x.branch = task[t].branch /\ x.commit = task[t].commit
    BY <1>1 DEF TaskRecord, Pcs
  <2> HIDE DEF x
  <2> QED BY <1>1, <2>1, <2>2 DEF Typed
<1>6. remote' \in [Branches -> Ref]
  <2>1. HeadOf(d) \in Ref /\ tree[d].branch \in Branches BY <1>2, DirFacts DEF Ref
  <2>2. remote' = remote \/ remote' = [remote EXCEPT ![tree[d].branch] = HeadOf(d)]
    BY <1>0 DEF Deliver, End, Push, cloneVars
  <2> QED BY <1>1, <2>1, <2>2 DEF Typed
<1>7. left' \in Budget
  <2>1. CASE Deliver(t) BY <1>1, <2>1 DEF Deliver, Push, cloneVars, Typed
  <2>2. CASE End(t) BY <1>1, <2>2, Spent DEF End, Typed
  <2> QED BY <2>1, <2>2
<1>8. Typed' BY <1>1, <1>3, <1>5, <1>6, <1>7 DEF Typed
<1>9. Terminal(t)' /\ task'[t].st # "active" BY <1>5 DEF Terminal, Outcomes
<1> QED BY <1>1, <1>3, <1>5, <1>8, <1>9, NoDirectoryMoves

LEMMA CancelKeeps ==
    ASSUME IInv, NEW t \in Tasks, Cancel(t)
    PROVE  IInv'
<1>1. UNCHANGED <<remote, cloned, local, tracking, tree, registered, sync, row, reclaim>> BY DEF Cancel
<1>2. task[t] \in TaskRecord /\ Typed BY DEF IInv, Typed
<1> DEFINE x == [task[t] EXCEPT !.st = "cancelled", !.waits = FALSE]
<1>3. task' = [task EXCEPT ![t] = x] BY <1>2 DEF Cancel, Typed
<1>4. x \in TaskRecord /\ x.pc = task[t].pc /\ x.dir = task[t].dir /\ x.st = "cancelled"
      /\ x.branch = task[t].branch /\ x.commit = task[t].commit
  BY <1>2 DEF TaskRecord, Outcomes
<1> HIDE DEF x
<1>5. task' \in [Tasks -> TaskRecord] /\ task'[t] = x /\ \A u \in Tasks \ {t} : task'[u] = task[u]
  BY <1>2, <1>3, <1>4 DEF Typed
<1>6. left' \in Budget BY <1>2, Spent DEF Cancel
<1>7. Typed' BY <1>1, <1>2, <1>5, <1>6 DEF Typed
<1> QED BY <1>1, <1>4, <1>5, <1>7, NoDirectoryMoves DEF Terminal, Outcomes

LEMMA SeeCancelledKeeps ==
    ASSUME IInv, NEW t \in Tasks, SeeCancelled(t)
    PROVE  IInv'
<1>1. UNCHANGED <<remote, cloned, local, tracking, tree, registered, sync, left, row, reclaim>>
  BY DEF SeeCancelled, cloneVars
<1>2. /\ task' \in [Tasks -> TaskRecord] /\ \A u \in Tasks \ {t} : task'[u] = task[u]
      /\ task'[t].pc = "release" /\ task'[t].dir = task[t].dir /\ task'[t].st = task[t].st
      /\ task'[t].branch = task[t].branch /\ task'[t].commit = task[t].commit
  BY Went DEF SeeCancelled, IInv, Pcs
<1>3. Typed' BY <1>1, <1>2 DEF IInv, Typed
<1> QED BY <1>1, <1>2, <1>3, NoDirectoryMoves DEF SeeCancelled, Terminal

\* A failed workspace may be kept; of another the files go.
LEMMA ReleaseKeeps ==
    ASSUME IInv, NEW t \in Tasks, Release(t)
    PROVE  IInv'
<1>0. PICK d \in Dirs : d = task[t].dir BY RunFacts DEF Release
<1>1. task[t].pc = "release" /\ row[d].task = t /\ row[d].status # "none"
      /\ DirInv(d) /\ RunInv(t) /\ Typed /\ Terminal(t)
  BY <1>0, RunFacts DEF Release, RunInv
<1>2. UNCHANGED <<remote, cloned, local, tracking, registered, sync, left, reclaim>>
  BY DEF Release, RemoveFiles, cloneVars
<1>3. /\ row' \in [Dirs -> RowRecord] /\ \A e \in Dirs \ {d} : row'[e] = row[e]
      /\ row'[d].status # "none" /\ row'[d].task = t
  <2>1. CASE Mark(d, "retained") BY <1>1, <2>1, Marked
  <2>2. CASE row' = row BY <1>1, <2>2 DEF Typed
  <2> QED BY <1>0, <2>1, <2>2 DEF Release
<1>4. /\ tree' \in [Dirs -> TreeRecord] /\ \A e \in Dirs \ {d} : tree'[e] = tree[e]
      /\ tree'[d].kind = "none" \/ tree'[d] = tree[d]
      /\ tree'[d].branch = tree[d].branch
  <2>1. CASE NoFiles(d) BY <1>1, <2>1, Emptied
  <2>2. CASE tree' = tree BY <1>1, <2>2 DEF Typed
  <2> QED BY <1>0, <2>1, <2>2 DEF Release, RemoveFiles, cloneVars
<1>5. /\ task' \in [Tasks -> TaskRecord] /\ \A u \in Tasks \ {t} : task'[u] = task[u]
      /\ \/ task'[t].pc = "idle"
         \/ task'[t].pc = "unregister" /\ task'[t].dir = d
      /\ task'[t].st = task[t].st
      /\ task'[t].branch = task[t].branch /\ task'[t].commit = task[t].commit
  <2>1. CASE GoTo(t, "idle", 0) BY <1>1, <2>1, WentTo DEF Pcs
  <2>2. CASE Go(t, "unregister") BY <1>0, <1>1, <2>2, Went DEF Pcs
  <2> QED BY <2>1, <2>2 DEF Release
<1>6. Typed' BY <1>1, <1>2, <1>3, <1>4, <1>5 DEF Typed
<1>7. Terminal(t)' /\ ~Named(t)' /\ task'[t].st # "active"
  BY <1>1, <1>5 DEF Terminal, Named, Outcomes
<1>8. RunInv(t)' BY <1>3, <1>5, <1>7 DEF RunInv
<1>9. CommitInv(t)' BY <1>7 DEF CommitInv
<1>10. DirInv(d)' BY <1>1, <1>2, <1>3, <1>4, <1>5, <1>7 DEF DirInv
<1>11. \A e \in Dirs \ {d} : row'[e] = row[e] /\ tree'[e] = tree[e] /\ Prunes(e)
  BY <1>2, <1>3, <1>4 DEF Prunes
<1> QED BY <1>0, <1>1, <1>2, <1>3, <1>4, <1>5, <1>6, <1>7, <1>8, <1>9, <1>10, <1>11, OwnDirectory

\* The clone forgets it, and whatever else is gone.
LEMMA ForgetKeeps ==
    ASSUME IInv, NEW t \in Tasks, Forget(t)
    PROVE  IInv'
<1>0. PICK d \in Dirs : d = task[t].dir BY RunFacts DEF Forget
<1>1. task[t].pc = "unregister" /\ row[d].task = t
      /\ DirInv(d) /\ RunInv(t) /\ Typed /\ Terminal(t)
  BY <1>0, RunFacts DEF Forget, RunInv
<1>2. UNCHANGED <<remote, cloned, local, tracking, tree, sync, left, reclaim>>
      /\ registered' \in {registered, Pruned}
  BY DEF Forget, Unregister, cloneVars
<1>3. /\ row' \in [Dirs -> RowRecord] /\ \A e \in Dirs \ {d} : row'[e] = row[e]
      /\ row'[d].status = "released" /\ row'[d].task = t
  BY <1>0, <1>1, Marked DEF Forget
<1>4. /\ task' \in [Tasks -> TaskRecord] /\ \A u \in Tasks \ {t} : task'[u] = task[u]
      /\ task'[t].pc = "idle" /\ task'[t].st = task[t].st
      /\ task'[t].branch = task[t].branch /\ task'[t].commit = task[t].commit
  BY <1>1, WentTo DEF Forget, Pcs
<1>5. registered' \subseteq registered /\ \A e \in Dirs : Prunes(e) BY <1>2 DEF Prunes, Pruned
<1>6. Typed' BY <1>1, <1>2, <1>3, <1>4, <1>5 DEF Typed
<1>7. Terminal(t)' /\ ~Named(t)' BY <1>1, <1>4 DEF Terminal, Named, Outcomes
<1>8. RunInv(t)' /\ CommitInv(t)' BY <1>1, <1>4, <1>7 DEF RunInv, CommitInv, Terminal, Outcomes
<1>9. DirInv(d)' BY <1>1, <1>2, <1>3, <1>4, <1>5, <1>7 DEF DirInv, Prunes
<1> QED BY <1>0, <1>1, <1>2, <1>3, <1>4, <1>5, <1>6, <1>7, <1>8, <1>9, OwnDirectory

-----------------------------------------------------------------------------
(* The reclaimer, a crash, the syncs and the others who push.               *)

\* The reclaimer reads the rows of settled tasks.
LEMMA ReclaimKeeps ==
    ASSUME IInv, Reclaim
    PROVE  IInv'
<1>1. UNCHANGED <<remote, cloned, local, tracking, tree, registered, sync, left, row, task>>
      /\ reclaim' = {d \in Dirs : row[d].status \in Unreleased /\ SettledOnly(d)}
  BY DEF Reclaim, cloneVars
<1>2. Typed' BY <1>1 DEF IInv, Typed
<1>3. ASSUME NEW t \in Tasks PROVE RunInv(t)' /\ CommitInv(t)'
  <2>1. Grows BY <1>1, SameGrows
  <2> QED BY <1>1, <1>2, <2>1, TaskRests
<1>4. ASSUME NEW d \in Dirs PROVE DirInv(d)'
  <2>1. DirInv(d) BY DEF IInv
  <2>2. d \in reclaim' => row[d].task \in Tasks /\ Terminal(row[d].task) BY <1>1 DEF SettledOnly
  <2> QED BY <1>1, <2>1, <2>2 DEF DirInv, Terminal
<1>5. Shared' BY <1>1 DEF IInv, Shared
<1> QED BY <1>2, <1>3, <1>4, <1>5 DEF IInv

LEMMA ReclaimOneKeeps ==
    ASSUME IInv, NEW d \in Dirs, ReclaimOne(d)
    PROVE  IInv'
<1>1. /\ NoFiles(d) /\ Mark(d, "released") /\ d \in reclaim /\ reclaim' = reclaim \ {d}
      /\ registered' = IF tree[d].kind = "tree"
                       THEN {e \in registered \ {d} : tree[e].kind = "tree"} ELSE registered
      /\ UNCHANGED <<remote, cloned, local, tracking, sync, left, task>>
  BY DEF ReclaimOne
<1>2. DirInv(d) /\ Typed /\ Shared BY DEF IInv
<1>3. PICK t \in Tasks : t = row[d].task /\ Terminal(t) BY <1>1, <1>2 DEF DirInv
<1>4. row[d].status # "none" BY <1>2, <1>3, WorkspacesAssumption DEF DirInv
<1>5. /\ row' \in [Dirs -> RowRecord] /\ \A e \in Dirs \ {d} : row'[e] = row[e]
      /\ row'[d].status = "released" /\ row'[d].task = t
  BY <1>1, <1>2, <1>3, Marked
<1>6. /\ tree' \in [Dirs -> TreeRecord] /\ \A e \in Dirs \ {d} : tree'[e] = tree[e]
      /\ tree'[d].kind = "none" /\ tree'[d].branch = tree[d].branch
  BY <1>1, <1>2, Emptied
<1>7. registered' \subseteq registered /\ \A e \in Dirs \ {d} : Prunes(e) BY <1>1 DEF Prunes
<1>8. Typed' BY <1>1, <1>2, <1>5, <1>6, <1>7 DEF Typed
<1>9. Terminal(t)' /\ task'[t].st # "active" BY <1>1, <1>3 DEF Terminal, Outcomes
<1>10. CommitInv(t)' BY <1>9 DEF CommitInv, Named
<1>11. RunInv(t)'
  <2>1. RunInv(t) BY DEF IInv
  <2>2. ASSUME NEW e \in Dirs, row[e].task = t, tree[e].kind = "none" /\ e \notin registered
        PROVE  tree'[e].kind = "none" /\ e \notin registered'
    BY <1>6, <1>7, <2>2
  <2>3. \A e \in Dirs : row[e].task = t => row'[e].task = t BY <1>5
  <2> QED BY <1>1, <1>9, <2>1, <2>2, <2>3 DEF RunInv
<1>12. DirInv(d)' BY <1>1, <1>5, <1>6 DEF DirInv
<1>13. Grows BY <1>1, SameGrows
<1>14. d \in registered' => \A e \in registered : e # d => tree'[d].branch # tree[e].branch
  BY <1>2, <1>6, <1>7 DEF Shared
<1>15. ~cloned => registered' = {} /\ \A b \in Branches : local'[b] = NoRef
  BY <1>1, <1>2, <1>7 DEF Shared
<1>16. \A e \in Dirs : e < d => row[e].status # "none" BY <1>2, <1>4 DEF Shared
<1> QED BY <1>1, <1>3, <1>5, <1>6, <1>7, <1>8, <1>9, <1>10, <1>11, <1>12, <1>13, <1>14, <1>15, <1>16,
           OneDirectoryMoves

\* The worker's runs are lost with it; what is on disk and in the rows is not.
LEMMA CrashKeeps ==
    ASSUME IInv, Crash
    PROVE  IInv'
<1>1. /\ task' = [t \in Tasks |-> [task[t] EXCEPT !.pc = "idle", !.dir = 0]] /\ reclaim' = {}
      /\ UNCHANGED <<remote, cloned, local, tracking, tree, registered, sync, row>>
  BY DEF Crash
<1>2. ASSUME NEW t \in Tasks
      PROVE  /\ task'[t] \in TaskRecord /\ task'[t].pc = "idle" /\ task'[t].st = task[t].st
             /\ task'[t].branch = task[t].branch /\ task'[t].commit = task[t].commit
  <2> DEFINE x == [task[t] EXCEPT !.pc = "idle", !.dir = 0]
  <2>1. task[t] \in TaskRecord /\ 0 \in 0..MaxDirs BY CloneAssumption DEF IInv, Typed
  <2>2. x \in TaskRecord /\ x.pc = "idle" /\ x.st = task[t].st /\ x.branch = task[t].branch
        /\ x.commit = task[t].commit
    BY <2>1 DEF TaskRecord, Pcs
  <2>3. task'[t] = x BY <1>1
  <2> HIDE DEF x
  <2> QED BY <2>2, <2>3
<1>3. task' \in [Tasks -> TaskRecord]
  <2>1. task' = [t \in Tasks |-> task'[t]] BY <1>1
  <2> QED BY <1>2, <2>1
<1>4. left' \in Budget BY Spent DEF IInv, Crash
<1>5. Typed' BY <1>1, <1>3, <1>4 DEF IInv, Typed
<1>6. ASSUME NEW t \in Tasks PROVE RunInv(t)' /\ CommitInv(t)'
  <2>1. CommitInv(t)' BY <1>1, <1>2, <1>5, CommitStays
  <2> QED BY <1>2, <2>1 DEF RunInv
<1>7. ASSUME NEW d \in Dirs PROVE DirInv(d)'
  <2>1. Grows BY <1>1, SameGrows
  <2>2. \A t \in Tasks : task'[t].branch = task[t].branch /\ (Terminal(t) => Terminal(t)')
    BY <1>2 DEF Terminal
  <2>3. Prunes(d) BY <1>1 DEF Prunes
  <2> QED BY <1>1, <1>5, <2>1, <2>2, <2>3, DirRests
<1>8. Shared' BY <1>1 DEF IInv, Shared
<1> QED BY <1>5, <1>6, <1>7, <1>8 DEF IInv

\* A step that touches no row, no directory and no task.
LEMMA CloneMoves ==
    ASSUME IInv, Typed', Grows, cloned => cloned', UNCHANGED <<row, task, tree, reclaim>>,
           \A e \in Dirs : Prunes(e), Shared'
    PROVE  IInv'
<1>1. ASSUME NEW t \in Tasks PROVE RunInv(t)' /\ CommitInv(t)'
  <2>1. \A e \in Dirs : row[e].task = t =>
            row'[e] = row[e] /\ tree'[e] = tree[e] /\ (e \in registered' => e \in registered)
    BY DEF Prunes
  <2> QED BY <2>1, TaskRests
<1>2. ASSUME NEW d \in Dirs PROVE DirInv(d)'
  <2>1. \A t \in Tasks : task'[t].branch = task[t].branch /\ (Terminal(t) => Terminal(t)')
    BY DEF Terminal
  <2> QED BY <2>1, DirRests
<1> QED BY <1>1, <1>2 DEF IInv

\* Somebody else pushes: the clone does not see it.
LEMMA OutsideKeeps ==
    ASSUME IInv, NEW b \in Branches, Outside(b), UNCHANGED taskVars
    PROVE  IInv'
<1>1. /\ remote' = [remote EXCEPT ![b] = Append(@, Somebody)] /\ remote[b] # NoRef
      /\ UNCHANGED <<cloned, local, tracking, tree, registered, sync, row, task, reclaim>>
  BY DEF Outside, taskVars
<1>2. remote[b] \in History BY <1>1 DEF IInv, Typed, Ref
<1>3. Append(remote[b], Somebody) \in Ref BY <1>2, AncestorOfCommit DEF Authors, Ref
<1>4. left' \in Budget BY Spent DEF IInv, Outside
<1>5. Typed' BY <1>1, <1>3, <1>4 DEF IInv, Typed
<1>6. Grows BY <1>1, SameGrows
<1>7. \A e \in Dirs : Prunes(e) BY <1>1 DEF Prunes
<1>8. Shared' BY <1>1 DEF IInv, Shared
<1> QED BY <1>1, <1>5, <1>6, <1>7, <1>8, CloneMoves

\* What a sync writes down as it goes on.
LEMMA NoSyncIs == NoSync \in SyncRecord /\ NoSync.pc = "idle"
BY CloneAssumption DEF NoSync, SyncRecord, SyncPcs

LEMMA EndedIs ==
    ASSUME NEW s \in SyncRecord
    PROVE  Ended(s) \in SyncRecord /\ (Ended(s).pc = s.pc \/ Ended(s).pc = "idle")
BY NoSyncIs DEF Ended

\* A sync clones the project, or fetches.
LEMMA SyncFetchKeeps ==
    ASSUME IInv, SyncFetch, UNCHANGED taskVars
    PROVE  IInv' /\ Grows
<1>1. Typed /\ Shared BY DEF IInv
<1>2. UNCHANGED <<remote, tree, registered, row, task, reclaim>> BY DEF SyncFetch, taskVars
<1>3. \A e \in Dirs : Prunes(e) BY <1>2 DEF Prunes
<1>4. CASE /\ tracking' = remote /\ cloned' = TRUE
           /\ local' = IF cloned THEN local ELSE [local EXCEPT ![Default] = remote[Default]]
           /\ sync' = [NoSync EXCEPT !.pc = "list"]
           /\ left["syncs"] > 0 /\ Spend("syncs")
  <2>1. left' \in Budget BY <1>1, <1>4, Spent
  <2>2. sync' \in SyncRecord /\ sync'.pc = "list"
    BY <1>4, NoSyncIs DEF SyncRecord, SyncPcs
  <2>3. local' \in [Branches -> Ref] BY <1>1, <1>4, CloneAssumption DEF Typed
  <2>4. Typed' BY <1>1, <1>2, <1>4, <2>1, <2>2, <2>3 DEF Typed
  <2>5. Grows
    <3>1. CASE cloned BY <1>4, <3>1, SameGrows
    <3>2. CASE ~cloned BY <1>1, <3>2 DEF Shared, Grows
    <3> QED BY <3>1, <3>2
  <2>6. Shared' BY <1>1, <1>2, <1>4, <2>2 DEF Shared
  <2> QED BY <1>2, <1>3, <1>4, <2>4, <2>5, <2>6, CloneMoves
<1>5. CASE left["faults"] > 0 /\ Spend("faults") /\ UNCHANGED <<tracking, cloned, local, sync>>
  <2>1. left' \in Budget BY <1>1, <1>5, Spent
  <2>2. Typed' BY <1>1, <1>2, <1>5, <2>1 DEF Typed
  <2>3. Shared' BY <1>1, <1>2, <1>5 DEF Shared
  <2>4. Grows BY <1>5, SameGrows
  <2> QED BY <1>2, <1>3, <1>5, <2>2, <2>3, <2>4, CloneMoves
<1> QED BY <1>4, <1>5 DEF SyncFetch

\* It prunes the records of directories that are gone, and lists the rest.
LEMMA SyncListKeeps ==
    ASSUME IInv, SyncList, UNCHANGED taskVars
    PROVE  IInv'
<1>1. Typed /\ Shared /\ sync.pc = "list" BY DEF IInv, SyncList
<1>2. UNCHANGED <<remote, cloned, local, tracking, tree, left, row, task, reclaim>>
      /\ registered' = Pruned
  BY DEF SyncList, taskVars
<1>3. (\A e \in Dirs : Prunes(e)) /\ registered' \subseteq registered BY <1>2 DEF Prunes, Pruned
<1>4. sync' \in SyncRecord /\ sync'.pc = "branch"
  <2> DEFINE h == {tree[d].branch : d \in Pruned}
  <2>1. sync' = [sync EXCEPT !.pc = "branch", !.todo = Branches, !.held = h] BY DEF SyncList
  <2>2. \A d \in Pruned : tree[d].branch \in Branches BY <1>1 DEF Typed, Pruned, TreeRecord
  <2>3. h \in SUBSET Branches BY <2>2
  <2> HIDE DEF h
  <2> QED BY <1>1, <2>1, <2>3 DEF Typed, SyncRecord, SyncPcs
<1>5. Typed' BY <1>1, <1>2, <1>3, <1>4 DEF Typed
<1>6. Shared' BY <1>1, <1>2, <1>3, <1>4 DEF Shared
<1>7. Grows BY <1>2, SameGrows
<1> QED BY <1>2, <1>3, <1>5, <1>6, <1>7, CloneMoves

\* It makes the branches the clone does not have, and finds those to be moved.
LEMMA SyncBranchKeeps ==
    ASSUME IInv, NEW b \in Branches, SyncBranch(b), UNCHANGED taskVars
    PROVE  IInv' /\ Grows
<1>1. Typed /\ Shared /\ sync.pc = "branch" /\ sync \in SyncRecord BY DEF IInv, SyncBranch, Typed
<1>2. UNCHANGED <<remote, cloned, tracking, tree, registered, left, row, task, reclaim>>
  BY DEF SyncBranch, taskVars
<1>3. cloned BY <1>1 DEF Shared
<1>4. /\ local' \in [Branches -> Ref] /\ \A c \in Branches : local[c] # NoRef => local'[c] = local[c]
  BY <1>1 DEF SyncBranch, Typed
<1>5. sync' \in SyncRecord /\ (sync'.pc = "move" => Ancestor(sync'.from, sync'.to))
  <2>1. CASE sync' = Done(b)
    <3> DEFINE s == [sync EXCEPT !.todo = @ \ {b}]
    <3>1. s \in SyncRecord /\ s.pc = "branch" BY <1>1 DEF SyncRecord
    <3>2. sync' = Ended(s) BY <2>1 DEF Done
    <3> HIDE DEF s
    <3> QED BY <3>1, <3>2, EndedIs
  <2>2. CASE Behind(b) /\ sync' = [sync EXCEPT !.pc = "move", !.todo = @ \ {b}, !.branch = b,
                                               !.from = local[b], !.to = tracking[b]]
    <3>1. local[b] \in History \cup {NoRef} /\ tracking[b] \in History \cup {NoRef}
      BY <1>1 DEF Typed, Ref
    <3>2. Ancestor(local[b], tracking[b]) BY <2>2 DEF Behind
    <3>3. sync' \in SyncRecord BY <1>1, <2>2, <3>1 DEF SyncRecord, SyncPcs
    <3>4. sync'.from = local[b] /\ sync'.to = tracking[b] BY <1>1, <2>2 DEF SyncRecord
    <3> QED BY <3>2, <3>3, <3>4
  <2> QED BY <2>1, <2>2 DEF SyncBranch
<1>6. Grows
  <2> SUFFICES ASSUME NEW c \in Branches, local[c] # NoRef PROVE Ancestor(local[c], local'[c])
    BY DEF Grows
  <2>1. local[c] \in History BY <1>1 DEF Typed, Ref
  <2> QED BY <1>4, <2>1, AncestorOfItself
<1>7. \A e \in Dirs : Prunes(e) BY <1>2 DEF Prunes
<1>8. Typed' BY <1>1, <1>2, <1>4, <1>5 DEF Typed
<1>9. Shared' BY <1>1, <1>2, <1>3, <1>5 DEF Shared
<1> QED BY <1>2, <1>6, <1>7, <1>8, <1>9, CloneMoves

\* It moves a branch that is still where it was found, forward.
LEMMA SyncMoveKeeps ==
    ASSUME IInv, SyncMove, UNCHANGED taskVars
    PROVE  IInv' /\ Grows
<1>1. Typed /\ Shared /\ sync.pc = "move" /\ sync \in SyncRecord BY DEF IInv, SyncMove, Typed
<1>2. UNCHANGED <<remote, cloned, tracking, tree, registered, left, row, task, reclaim>>
  BY DEF SyncMove, taskVars
<1>3. PICK b \in Branches : b = sync.branch BY <1>1 DEF SyncRecord
<1>4. cloned /\ Ancestor(sync.from, sync.to) /\ sync.to \in Ref /\ sync.from \in Ref
  BY <1>1 DEF Shared, SyncRecord, Ref
<1>5. \/ local[b] = sync.from /\ local' = [local EXCEPT ![b] = sync.to]
      \/ local' = local
  BY <1>3 DEF SyncMove, Unmoved
<1>6. sync' \in SyncRecord /\ sync'.pc \in {"branch", "idle"}
  <2> DEFINE s == [sync EXCEPT !.pc = "branch", !.from = NoRef, !.to = NoRef]
  <2>1. s \in SyncRecord /\ s.pc = "branch" BY <1>1 DEF SyncRecord, SyncPcs
  <2>2. sync' = Ended(s) \/ sync' = NoSync BY DEF SyncMove
  <2> HIDE DEF s
  <2> QED BY <2>1, <2>2, EndedIs, NoSyncIs
<1>7. Grows
  <2> SUFFICES ASSUME NEW c \in Branches, local[c] # NoRef PROVE Ancestor(local[c], local'[c])
    BY DEF Grows
  <2>1. local[c] \in History BY <1>1 DEF Typed, Ref
  <2>2. Ancestor(local[c], local[c]) BY <2>1, AncestorOfItself
  <2>3. CASE local' = local BY <2>2, <2>3
  <2>4. CASE local[b] = sync.from /\ local' = [local EXCEPT ![b] = sync.to]
    BY <1>1, <1>4, <2>2, <2>4 DEF Typed
  <2> QED BY <1>5, <2>3, <2>4
<1>8. \A e \in Dirs : Prunes(e) BY <1>2 DEF Prunes
<1>9. local' \in [Branches -> Ref] BY <1>1, <1>4, <1>5 DEF Typed
<1>10. Typed' BY <1>1, <1>2, <1>6, <1>9 DEF Typed
<1>11. Shared' BY <1>1, <1>2, <1>4, <1>6 DEF Shared
<1> QED BY <1>2, <1>7, <1>8, <1>10, <1>11, CloneMoves

-----------------------------------------------------------------------------
(* The invariant.                                                           *)

LEMMA InitHolds == Init => IInv
<1> SUFFICES ASSUME Init PROVE IInv
  OBVIOUS
<1>0. <<>> \in History /\ Default \in Branches /\ 0 \in 0..MaxDirs BY CloneAssumption DEF History
<1>1. PICK x \in Studied, f \in Targets :
          /\ cloned = x.cloned /\ left = x.left
          /\ task = [t \in Tasks |-> [st |-> "active", branch |-> f[t], pc |-> "idle", dir |-> 0,
                                      commit |-> NoRef, waits |-> FALSE]]
  BY DEF Init
<1>2. /\ remote \in [Branches -> {<<>>, NoRef}] /\ reclaim = {} /\ registered = {}
      /\ tracking = IF cloned THEN remote ELSE [b \in Branches |-> NoRef]
      /\ local = [b \in Branches |-> IF cloned /\ b = Default THEN remote[b] ELSE NoRef]
      /\ tree = [d \in Dirs |-> NoDir] /\ sync = NoSync
      /\ row = [d \in Dirs |-> [task |-> NoTask, status |-> "none"]]
  BY DEF Init, CloneInit
<1>3. \A t \in Tasks : /\ task[t].pc = "idle" /\ task[t].commit = NoRef
                       /\ task[t] \in TaskRecord
  <2>1. f \in [Tasks -> Branches] BY DEF Targets
  <2> QED BY <1>0, <1>1, <2>1 DEF TaskRecord, Pcs
<1>4. \A d \in Dirs : /\ tree[d] \in TreeRecord /\ tree[d].kind = "none"
                      /\ row[d] \in RowRecord /\ row[d].status = "none" /\ row[d].task = NoTask
  BY <1>0, <1>2 DEF NoDir, TreeRecord, RowRecord
<1>5. cloned \in BOOLEAN /\ left \in Budget BY <1>1, WorkspacesAssumption
<1>6. \A b \in Branches : remote[b] \in Ref /\ tracking[b] \in Ref /\ local[b] \in Ref
  BY <1>0, <1>2 DEF Ref
<1>7. Typed
  <2>1. remote \in [Branches -> Ref] /\ local \in [Branches -> Ref] /\ tracking \in [Branches -> Ref]
    BY <1>2, <1>6
  <2>2. task \in [Tasks -> TaskRecord] BY <1>1, <1>3
  <2>3. tree \in [Dirs -> TreeRecord] /\ row \in [Dirs -> RowRecord] BY <1>2, <1>4
  <2> QED BY <1>2, <1>5, <2>1, <2>2, <2>3, NoSyncIs DEF Typed
<1>8. \A t \in Tasks : RunInv(t) /\ CommitInv(t) BY <1>3 DEF RunInv, CommitInv, Named
<1>9. \A d \in Dirs : DirInv(d) BY <1>2, <1>4 DEF DirInv
<1>10. Shared BY <1>2, <1>4, NoSyncIs DEF Shared
<1> QED BY <1>7, <1>8, <1>9, <1>10 DEF IInv

LEMMA StepKeeps == IInv /\ [Next]_vars => IInv'
<1> SUFFICES ASSUME IInv, [Next]_vars PROVE IInv'
  OBVIOUS
<1>1. CASE UNCHANGED vars
  BY <1>1 DEF vars, cloneVars, taskVars, IInv, Typed, Shared, RunInv, CommitInv, DirInv, Terminal,
              Named, InClone, InOwn, Latest, ReadyRows, HeadOf
<1>2. ASSUME NEW t \in Tasks, Run(t) PROVE IInv'
  BY <1>2, ReattachKeeps, NewRowKeeps, RefreshKeeps, NotAttachedKeeps, FallbackKeeps, AttachedKeeps,
     CloneKeeps, MeasureKeeps, PullKeeps, CommitKeeps, ParkKeeps, SettlesKeeps, SeeCancelledKeeps,
     ReleaseKeeps, ForgetKeeps DEF Run
<1>3. ASSUME NEW t \in Tasks, Approve(t) \/ Cancel(t) PROVE IInv'
  BY <1>3, ApproveKeeps, CancelKeeps
<1>4. ASSUME Reclaim \/ Crash \/ \E d \in Dirs : ReclaimOne(d) PROVE IInv'
  BY <1>4, ReclaimKeeps, CrashKeeps, ReclaimOneKeeps
<1>5. ASSUME Sync \/ \E b \in Branches : Outside(b), UNCHANGED taskVars PROVE IInv'
  BY <1>5, SyncFetchKeeps, SyncListKeeps, SyncBranchKeeps, SyncMoveKeeps, OutsideKeeps DEF Sync
<1> QED BY <1>1, <1>2, <1>3, <1>4, <1>5 DEF Next

LEMMA Holds == Spec => []IInv
BY InitHolds, StepKeeps, PTL DEF Spec

\* No step takes a commit from a branch of the clone, ...
LEMMA LocalForward == IInv /\ [Next]_vars => Grows
<1> SUFFICES ASSUME IInv, [Next]_vars PROVE Grows
  OBVIOUS
<1>1. CASE UNCHANGED local BY <1>1, SameGrows
<1>2. ASSUME NEW t \in Tasks, Attached(t) \/ PullBranch(t) \/ MakeCommit(t) PROVE Grows
  BY <1>2, AttachedKeeps, PullKeeps, CommitKeeps
<1>3. ASSUME NEW t \in Tasks, Reattach(t) \/ NewRow(t) \/ Refresh(t) \/ Unseen(t) \/ Fallback(t)
                              \/ Refused(t) \/ Clone(t) \/ Measure(t)
      PROVE  UNCHANGED local
  BY <1>3 DEF Reattach, NewRow, Refresh, FetchAll, Unseen, Fallback, Refused, Clone, CloneInto, Measure,
              cloneVars
<1>4. ASSUME NEW t \in Tasks, Park(t) \/ Deliver(t) \/ End(t) \/ SeeCancelled(t) \/ Release(t)
                              \/ Forget(t) \/ Approve(t) \/ Cancel(t)
      PROVE  UNCHANGED local
  BY <1>4 DEF Park, Deliver, Push, End, SeeCancelled, Release, RemoveFiles, Forget, Unregister, Approve,
              Cancel, cloneVars
<1>5. ASSUME UNCHANGED vars \/ Reclaim \/ Crash \/ SyncList \/ (\E d \in Dirs : ReclaimOne(d))
             \/ (\E b \in Branches : Outside(b))
      PROVE  UNCHANGED local
  BY <1>5 DEF vars, Reclaim, Crash, SyncList, ReclaimOne, Outside, cloneVars
<1>6. ASSUME SyncFetch \/ SyncMove \/ (\E b \in Branches : SyncBranch(b)), UNCHANGED taskVars PROVE Grows
  BY <1>6, SyncFetchKeeps, SyncMoveKeeps, SyncBranchKeeps
<1> QED BY <1>1, <1>2, <1>3, <1>4, <1>5, <1>6 DEF Next, Run, Sync

\* ... nor from one of the remote.
RemoteGrows == \A b \in Branches : remote[b] # NoRef => Ancestor(remote[b], remote'[b])
LEMMA RemoteForward == IInv /\ [Next]_vars => RemoteGrows
<1> SUFFICES ASSUME IInv, [Next]_vars, NEW b \in Branches, remote[b] # NoRef
             PROVE  Ancestor(remote[b], remote'[b])
  BY DEF RemoteGrows
<1>0. remote[b] \in History /\ Ancestor(remote[b], remote[b])
  BY AncestorOfItself DEF IInv, Typed, Ref
<1>1. CASE UNCHANGED remote BY <1>0, <1>1
<1>2. ASSUME NEW t \in Tasks, Deliver(t) PROVE Ancestor(remote[b], remote'[b])
  <2> DEFINE d == task[t].dir
  <2>1. Pushable(d) => remote' = [remote EXCEPT ![tree[d].branch] = HeadOf(d)]
    BY <1>2 DEF Deliver, Push
  <2>2. ~Pushable(d) => remote' = remote BY <1>2 DEF Deliver, cloneVars
  <2> HIDE DEF d
  <2> QED BY <1>0, <2>1, <2>2 DEF Pushable, IInv, Typed
<1>3. ASSUME NEW c \in Branches, Outside(c) PROVE Ancestor(remote[b], remote'[b])
  <2>1. Ancestor(remote[b], Append(remote[b], Somebody)) BY <1>0, AncestorOfCommit DEF Authors
  <2> QED BY <1>0, <1>3, <2>1 DEF Outside, IInv, Typed
<1>4. ASSUME NEW t \in Tasks, Reattach(t) \/ NewRow(t) \/ Refresh(t) \/ Unseen(t) \/ Fallback(t)
                              \/ Attached(t) \/ Refused(t) \/ Clone(t) \/ Measure(t)
      PROVE  UNCHANGED remote
  BY <1>4 DEF Reattach, NewRow, Refresh, FetchAll, Unseen, Fallback, Attached, Attach, Refused, Clone,
              CloneInto, Measure, cloneVars
<1>5. ASSUME NEW t \in Tasks, PullBranch(t) \/ MakeCommit(t) \/ Park(t) \/ End(t) \/ SeeCancelled(t)
                              \/ Release(t) \/ Forget(t) \/ Approve(t) \/ Cancel(t)
      PROVE  UNCHANGED remote
  BY <1>5 DEF PullBranch, Pull, MakeCommit, Commit, Park, End, SeeCancelled, Release, RemoveFiles, Forget,
              Unregister, Approve, Cancel, cloneVars
<1>6. ASSUME UNCHANGED vars \/ Reclaim \/ Crash \/ (\E d \in Dirs : ReclaimOne(d)) \/ Sync
      PROVE  UNCHANGED remote
  BY <1>6 DEF vars, Reclaim, Crash, ReclaimOne, Sync, SyncFetch, SyncList, SyncMove, SyncBranch, cloneVars
<1> QED BY <1>1, <1>2, <1>3, <1>4, <1>5, <1>6 DEF Next, Run

-----------------------------------------------------------------------------

\* Every variable keeps its type, and a run that works or releases has a directory.
THEOREM TypeCorrect == Spec => []TypeOK
<1>1. ASSUME IInv PROVE TypeOK
  <2>1. Typed /\ Shared BY <1>1 DEF IInv
  <2>2. ASSUME ~cloned PROVE local = [b \in Branches |-> NoRef] /\ registered = {}
    BY <2>1, <2>2 DEF Shared, Typed
  <2>3. CloneType
    BY <2>1, <2>2 DEF CloneType, Typed, Ref, Refs, TreeRecord, SyncRecord
  <2>4. \A t \in Tasks : task[t].pc \in {"work", "release"} => task[t].dir \in Dirs
    BY <1>1 DEF IInv, RunInv
  <2> QED BY <2>1, <2>3, <2>4 DEF TypeOK, Typed, RowRecord, TaskRecord
<1> QED BY <1>1, Holds, PTL

\* The commit a task has recorded is not lost before the task settles, whatever syncs, other
\* tasks, crashes and the reclaimer did meanwhile (agent-workflow.ts:2242-2256): it is in its
\* branch of the clone, which nothing moves but forward, or in the clone the next run finds.
THEOREM KeepsWork == Spec => []WorkKept
<1>1. ASSUME IInv PROVE WorkKept
  <2> SUFFICES ASSUME NEW t \in Tasks, task[t].st = "active", task[t].commit # NoRef
               PROVE  \/ Ancestor(task[t].commit, local[task[t].branch])
                      \/ \E d \in Dirs : row[d].task = t /\ tree[d].kind = "clone"
                                         /\ Ancestor(task[t].commit, tree[d].head)
    BY DEF WorkKept
  <2>1. CommitInv(t) /\ task[t] \in TaskRecord BY <1>1 DEF IInv, Typed
  <2>2. InClone(t) \/ InOwn(t) BY <2>1 DEF CommitInv, Named
  <2>3. Ancestor(task[t].commit, task[t].commit) BY <2>1, AncestorOfItself DEF TaskRecord
  <2> QED BY <2>2, <2>3 DEF InClone, InOwn
<1> QED BY <1>1, Holds, PTL

\* A run works in a directory that exists, that is its task's alone, and whose HEAD has the
\* commit its task has recorded (workspace-manager.ts:533-541).
THEOREM OwnWork == Spec => []WorksOnItsOwn
<1>1. ASSUME IInv PROVE WorksOnItsOwn
  <2>1. \A t \in Tasks : RunInv(t) BY <1>1 DEF IInv
  <2> QED BY <2>1 DEF WorksOnItsOwn, Works, RunInv
<1> QED BY <1>1, Holds, PTL

\* No two worktrees of the clone are on one branch (workspace-manager.ts:393-397): a worktree
\* that is there is one the clone has a record of, and git refuses a branch with a record.
THEOREM OneBranchEach == Spec => []OneTaskPerBranch
<1>1. ASSUME IInv PROVE OneTaskPerBranch
  <2>1. \A d \in Dirs : tree[d].kind = "tree" => d \in registered BY <1>1 DEF IInv, DirInv
  <2> QED BY <1>1, <2>1 DEF IInv, Shared, OneTaskPerBranch
<1> QED BY <1>1, Holds, PTL

\* No branch of the clone or of the remote ever loses a commit: a sync that read a branch before
\* a task moved it does not move it back (git.service.ts:1070-1076), and what others pushed is
\* not pushed over.
THEOREM NothingOverwritten == Spec => OnlyForward
<1>1. IInv /\ [Next]_vars => [Forward]_vars
  BY LocalForward, RemoteForward DEF Forward, Grows, RemoteGrows
<1> QED BY <1>1, Holds, PTL DEF Spec, OnlyForward
=============================================================================
