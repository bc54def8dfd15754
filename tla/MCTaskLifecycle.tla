--------------------------- MODULE MCTaskLifecycle ---------------------------
(* Small instances of TaskLifecycle: which kinds of task each run studies. *)
EXTENDS TaskLifecycle, TLC

Task(kind, mode, gates) ==
    [kind |-> kind, mode |-> mode, gates |-> gates, auto |-> FALSE,
     guarded |-> FALSE, ahead |-> FALSE]

\* A change in a clone whose push a person approves, and one that deletes files.
AskedPush == Task("change", "clone", {})
Deletion  == Task("change", "clone", {"file_deletion"})
\* A change for a staging target, pushed by configuration after a backup, from a
\* branch already ahead of its remote.
Staged == [AskedPush EXCEPT !.mode = "worktree", !.auto = TRUE, !.guarded = TRUE, !.ahead = TRUE]
\* A conversation that writes files, and one that also deletes them.
Chat      == Task("chat", "clone", {"chat_edit"})
BusyChat  == Task("chat", "clone", {"chat_edit", "file_deletion"})
\* A conversation about a live instance, and a change to one.
OnlineChat == Task("chat", "odoo_online", {"odoo_record_write"})
Online     == Task("change", "odoo_online", {"odoo_record_write"})
\* A change to an instance with no tool to write records or to look with.
SchemaOnly == [Online EXCEPT !.gates = {}]
\* Tasks of a project with no repository.
Unconnected == {Task(k, "none", {}) : k \in {"change", "chat"}}

RacingKinds  == {AskedPush, BusyChat, Online}
FaultyKinds  == {AskedPush, Deletion, Staged, Chat, OnlineChat, Online,
                 SchemaOnly} \cup Unconnected
LiveKinds    == {AskedPush, Chat, Online} \cup Unconnected
ChatOnly     == {Chat}
ChangeOnly   == {AskedPush}
DeletionOnly == {Deletion}

\* Bound of the races run: six requests and decisions of a task.  Two runs that overlap
\* may each ask for a push, and every decision brings one more job.
FewDecisions == \A t \in Tasks : row[t].clock <= 7

\* The worker's slots are interchangeable (safety runs only).
SlotSymmetry == Permutations(Slots)
=============================================================================
