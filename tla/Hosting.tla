------------------------------ MODULE Hosting -------------------------------
(* What the platform runs on its host: the instances of projects and their previews. *)
EXTENDS Previews

vars == <<instanceVars, previewVars>>

Init == InstancesInit /\ PreviewsInit

\* The API dies: its requests are gone.  One that was to queue its job never does, and one
\* that was to delete a row whose instance it has torn down leaves the row.
ApiDies ==
    /\ left["crashes"] > 0 /\ Spend("crashes")
    /\ overlooked' = overlooked
           \cup {<<call[c].kind, call[c].of>> : c \in {d \in Calls : call[d].pc = "enqueue"}}
           \cup {<<"own", call[c].of>> : c \in {d \in Calls : call[d].pc = "remove" /\ given.type[call[d].of] = "ai"}}
    /\ call' = [c \in Calls |-> Free]
    /\ PreviewsReboot
    /\ UNCHANGED <<given, row, jobs, host, overtaken>>

Next ==
    \/ (Worker \/ WorkerDies) /\ UNCHANGED previewVars
    \/ \E c \in Calls :
         \/ (Asks(c) \/ ServesBut(c)) /\ UNCHANGED previewVars
         \/ Remove(c) /\ DropPreviews(call[c].of)
    \/ \E i \in Insts : GoesOn(i) /\ UNCHANGED previewVars
    \/ /\ \/ \E a \in Acts : AsksPreview(a) \/ ServesPreview(a)
          \/ \E n \in Previews : Expire(n) \/ ScriptEnds(n)
       /\ UNCHANGED <<given, row, call, jobs, host, overlooked, overtaken>>
    \/ ApiDies

Spec == Init /\ [][Next]_vars

TypeOK == InstancesType /\ PreviewsType
=============================================================================
