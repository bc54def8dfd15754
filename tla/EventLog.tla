------------------------------ MODULE EventLog ------------------------------
(***************************************************************************)
(* agent_task_events and those who write it: TaskEventPublisher.publish    *)
(* called by runs, tools, approvals and cancellations of several processes *)
(* at once.  A number is read as max + 1 and inserted by one autocommit    *)
(* statement that does not serialise with its rivals; the unique index on  *)
(* (task, sequence) refuses the loser, which tries again.                  *)
(*                                                                         *)
(* A status is its place on the way from 0 to Last, where every settled    *)
(* status is Last; an event carries the status its publisher knows of.     *)
(***************************************************************************)
EXTENDS Naturals, Sequences

CONSTANTS Tasks,       \* agent task ids
          Publishers,  \* callers of publish that overlap
          Last,        \* a settled task's status
          Attempts,    \* withSequenceRetry's attempts (8)
          Written,     \* how many rows each task has to begin with
          Budgets      \* bounds: what may happen in one behaviour, see Budget

\* Events still to be published of each task, changes of the page's task, readings the
\* user asks of the office, and failures of requests, sockets and publications.
Budget == [events: [Tasks -> Nat], clicks: Nat, looks: Nat, faults: Nat]

ASSUME LogAssumption ==
    /\ Tasks # {} /\ Last \in Nat \ {0} /\ Attempts \in Nat \ {0}
    /\ Written \in [Tasks -> Nat] /\ Budgets \subseteq Budget

VARIABLES status,  \* agent_tasks.status
          rows,    \* agent_task_events: the statuses a task's rows carry, by sequence
          unsent,  \* rows whose publication failed
          pub,     \* the publishers
          left     \* what is left of the budget

logVars == <<status, rows, unsent, pub, left>>
logButBudget == <<status, rows, unsent, pub>>

Statuses == 0..Last
\* One call of publish: what it announces, the number its insert has computed, the
\* collisions so far, and how many rows its task had when it was made.
Publication == [pc: {"idle", "number", "insert", "publish", "failed"}, task: Tasks,
                says: Statuses, number: Nat, tries: Nat, since: Nat]
Event == [task: Tasks, seq: Nat, says: Statuses]

Resting == [pc |-> "idle", task |-> CHOOSE t \in Tasks : TRUE, says |-> 0,
            number |-> 0, tries |-> 0, since |-> 0]

LogInit ==
    /\ status = [t \in Tasks |-> 0]
    /\ rows = [t \in Tasks |-> [n \in 1..Written[t] |-> 0]]
    /\ unsent = {}
    /\ pub = [p \in Publishers |-> Resting]
    /\ left \in Budgets

Starts(p, t, s) ==
    /\ pub[p].pc = "idle"
    /\ left.events[t] > 0
    /\ left' = [left EXCEPT !.events[t] = @ - 1]
    /\ pub' = [pub EXCEPT ![p] = [pc |-> "number", task |-> t, says |-> s, number |-> 0,
                                  tries |-> 0, since |-> Len(rows[t])]]
    /\ UNCHANGED <<rows, unsent>>

\* transition: the row is moved by a conditional update, and the new status announced.
Move(p, t) ==
    /\ status[t] # Last
    /\ \E s \in {status[t] + 1, Last} :
           Starts(p, t, s) /\ status' = [status EXCEPT ![t] = s]

\* A tool call, an approval or reasoning: announced with the status of the caller's
\* snapshot, which may be an older one.
Tell(p, t) ==
    /\ \E s \in 0..status[t] : Starts(p, t, s)
    /\ UNCHANGED status

\* The insert's subquery reads the highest committed number.
Number(p) ==
    /\ pub[p].pc = "number"
    /\ pub' = [pub EXCEPT ![p].pc = "insert", ![p].number = Len(rows[pub[p].task]) + 1]
    /\ UNCHANGED <<status, rows, unsent, left>>

Collides(p) == pub[p].number <= Len(rows[pub[p].task])

Insert(p) ==
    /\ pub[p].pc = "insert" /\ ~Collides(p)
    /\ rows' = [rows EXCEPT ![pub[p].task] = Append(@, pub[p].says)]
    /\ pub' = [pub EXCEPT ![p].pc = "publish"]
    /\ UNCHANGED <<status, unsent, left>>

\* Where a collision sends the caller: the statement is run again, subquery included.
SameNumberAgain(p) == [pub[p] EXCEPT !.tries = @ + 1]
AfterCollision(p) == [pub[p] EXCEPT !.pc = "number", !.tries = @ + 1]

Retry(p) ==
    /\ pub[p].pc = "insert" /\ Collides(p)
    /\ pub[p].tries + 1 < Attempts
    /\ pub' = [pub EXCEPT ![p] = AfterCollision(p)]
    /\ UNCHANGED <<status, rows, unsent, left>>

\* The last attempt's collision is thrown at the caller, whose step fails.
GiveUp(p) ==
    /\ pub[p].pc = "insert" /\ Collides(p)
    /\ pub[p].tries + 1 >= Attempts
    /\ pub' = [pub EXCEPT ![p].pc = "failed", ![p].tries = @ + 1]
    /\ UNCHANGED <<status, rows, unsent, left>>

Announced(p) == [task |-> pub[p].task, seq |-> pub[p].number, says |-> pub[p].says]

\* Something fails.
Fault == left.faults > 0 /\ left' = [left EXCEPT !.faults = @ - 1]

\* The row is durable; the publication reaches Redis, or fails and is let go.
Announce(p) ==
    /\ pub[p].pc = "publish"
    /\ pub' = [pub EXCEPT ![p] = Resting]
    /\ UNCHANGED <<status, rows, unsent, left>>

LoseAnnouncement(p) ==
    /\ pub[p].pc = "publish"
    /\ pub' = [pub EXCEPT ![p] = Resting]
    /\ unsent' = unsent \cup {<<pub[p].task, pub[p].number>>}
    /\ Fault
    /\ UNCHANGED <<status, rows>>

Write(p) ==
    \/ \E t \in Tasks : Move(p, t) \/ Tell(p, t)
    \/ Number(p) \/ Insert(p) \/ Retry(p) \/ GiveUp(p)

(* ------------------------------ properties ------------------------------ *)

LogType ==
    /\ status \in [Tasks -> Statuses]
    /\ rows \in [Tasks -> Seq(Statuses)]
    /\ unsent \subseteq Tasks \X Nat
    /\ pub \in [Publishers -> Publication]
    /\ left \in Budget

\* A publisher gives up, and fails the step that published, only when at least as many
\* other events of its task were written meanwhile as it has attempts: a retry reads a
\* new maximum, so no two of its attempts lose to the same row (task-sequence.ts:35).
GivesUpOnlyUnderLoad ==
    \A p \in Publishers :
        pub[p].pc = "failed" => Len(rows[pub[p].task]) - pub[p].since >= Attempts
=============================================================================
