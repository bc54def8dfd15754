---------------------------- MODULE MCTaskEvents ----------------------------
(* Small instances of TaskEvents: what may happen in one behaviour. *)
EXTENDS TaskEvents, TLC

CONSTANTS t1, t2

Spend(e1, e2, c, l, f) ==
    [events |-> t1 :> e1 @@ t2 :> e2, clicks |-> c, looks |-> l, faults |-> f]

\* Two publishers at once and nobody watching; the page of a task; the office,
\* with readings that overlap and with failures.
Colliding == Spend(3, 0, 0, 0, 1)
OnePage   == Spend(2, 0, 2, 0, 1)
Overlaps  == Spend(2, 0, 0, 2, 0)
Troubled  == Spend(2, 0, 0, 1, 1)
Studied == {Colliding, OnePage, Overlaps, Troubled}

\* The second task has one event already.
Before == t1 :> 0 @@ t2 :> 1
=============================================================================
