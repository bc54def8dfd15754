---------------------------- MODULE MCWorkspaces ----------------------------
(* Small instances of Workspaces: what may happen in one behaviour. *)
EXTENDS Workspaces, TLC


CONSTANTS staging, own

With(on, c, s, p, k, x, f) ==
    [on |-> on, cloned |-> c, left |-> "syncs" :> s @@ "pushes" :> p @@ "crashes" :> k @@ "cancels" :> x @@ "faults" :> f]

\* A sync against tasks while somebody else pushes; the first sync, with tasks that have
\* clones of their own; runs that die or are cancelled.
Scenarios ==
    {With({staging}, TRUE, 1, 1, 0, 0, 0),
     With({staging, own}, FALSE, 1, 0, 0, 0, 0),
     With({staging, own}, TRUE, 0, 0, 1, 1, 1)}
=============================================================================
