------------------------------ MODULE Previews ------------------------------
(***************************************************************************)
(* Previews of projects (ADR-052): short-lived Odoo instances built from   *)
(* the draft of a task.  The API records each in a row and builds or stops *)
(* it by a script on the host, which goes on when the API dies.  Requests  *)
(* interleave between any two statements, and what an administrator sees   *)
(* of a preview is its row alone.                                          *)
(*                                                                         *)
(* Which task, branch and modules a preview shows is left out, and so are  *)
(* the checks a start makes before it touches anything.                    *)
(***************************************************************************)
EXTENDS ProjectInstances

CONSTANTS Acts,          \* requests about previews the API serves at once
          PreviewPorts,  \* the configured range, in its order
          MaxPreviews    \* bound: previews ever made

ASSUME PreviewsAssumption == MaxPreviews \in Nat /\ PreviewPorts \subseteq Nat

Previews == 1..MaxPreviews  \* in the order they were made

VARIABLES preview,  \* rows, the staged job of each, and what is on the host
          act,      \* requests being served
          letGo,    \* previews the code has no more record of as live
          crossed   \* projects two requests have dealt with at once

previewVars == <<preview, act, letGo, crossed>>

Preview == [of: Projects \cup {NoProject}, st: {"none", "creating", "ready", "stopped", "failed", "deleted"},
            port: PreviewPorts \cup {NoPort}, expired: BOOLEAN, job: BOOLEAN,
            site: {"none", "building", "half", "up"}]
Act == [pc: {"idle", "halt", "mark", "allocate", "insert", "start", "script", "ready", "failed"},
        of: Projects \cup {NoProject}, live: SUBSET Previews, ref: Previews \cup {0},
        port: PreviewPorts \cup {NoPort}, starts: BOOLEAN]

Unmade == [of |-> NoProject, st |-> "none", port |-> NoPort, expired |-> FALSE, job |-> FALSE, site |-> "none"]
Rest == [pc |-> "idle", of |-> NoProject, live |-> {}, ref |-> 0, port |-> NoPort, starts |-> FALSE]

PreviewsInit ==
    /\ preview = [n \in Previews |-> Unmade]
    /\ act = [a \in Acts |-> Rest]
    /\ letGo = {} /\ crossed = {}

IsLive(n) == preview[n].st \in {"creating", "ready"}
LiveOf(p) == {n \in Previews : IsLive(n) /\ preview[n].of = p}
Moves(a, pc) == act' = [act EXCEPT ![a].pc = pc]
Leaves(a) == act' = [act EXCEPT ![a] = Rest]
\* An update of a row that the deletion of its project took along changes nothing.
Marks(n, s) == IF preview[n].st = "deleted" THEN preview ELSE [preview EXCEPT ![n].st = s]

(* ------------------------------- requests ------------------------------- *)

\* stopActive begins by reading the live previews of the project: all of them.
ReadyOnes(p) == {n \in LiveOf(p) : preview[n].st = "ready"}
ToStop(p) == LiveOf(p)
Stops(p, starts) ==
    [Rest EXCEPT !.of = p, !.live = ToStop(p), !.starts = starts,
                 !.pc = IF ToStop(p) # {} THEN "halt" ELSE IF starts THEN "allocate" ELSE "idle"]

AskPreview(a, p, starts) ==
    /\ act[a].pc = "idle" /\ row[p].there /\ left["previews"] > 0 /\ Spend("previews")
    /\ starts \/ LiveOf(p) # {}
    /\ act' = [act EXCEPT ![a] = Stops(p, starts)]
    /\ crossed' = IF \E b \in Acts : act[b].of = p THEN crossed \cup {p} ELSE crossed
    /\ UNCHANGED <<preview, letGo>>

\* status: the newest live one has expired.
AskStatus(a, p) ==
    /\ act[a].pc = "idle" /\ row[p].there /\ left["previews"] > 0 /\ Spend("previews")
    /\ \E n \in LiveOf(p) : preview[n].expired /\ \A m \in LiveOf(p) : m <= n
    /\ act' = [act EXCEPT ![a] = Stops(p, FALSE)]
    /\ crossed' = IF \E b \in Acts : act[b].of = p THEN crossed \cup {p} ELSE crossed
    /\ UNCHANGED <<preview, letGo>>

Expire(n) ==
    /\ IsLive(n) /\ ~preview[n].expired
    /\ preview' = [preview EXCEPT ![n].expired = TRUE]
    /\ UNCHANGED <<act, letGo, crossed, left>>

\* What the stop script leaves: a build under way it does not see goes on.
OnlyTheJob(x) == [x EXCEPT !.job = FALSE]
Halted(x) == [x EXCEPT !.job = FALSE, !.site = IF @ = "building" THEN @ ELSE "none"]

\* The script is run for each, if the project is still there to give its name; it may
\* fail, which is logged and nothing else.
Halt(a) ==
    /\ act[a].pc = "halt"
    /\ \E n \in act[a].live :
         /\ act' = [act EXCEPT ![a].ref = n, ![a].pc = "mark"]
         /\ \/ /\ row[preview[n].of].there
               /\ preview' = [preview EXCEPT ![n] = Halted(@)]
               /\ letGo' = IF preview[n].site = "building" THEN letGo \cup {n} ELSE letGo
               /\ UNCHANGED left
            \/ ~row[preview[n].of].there /\ UNCHANGED <<preview, letGo, left>>
            \/ /\ row[preview[n].of].there /\ Fault
               /\ letGo' = letGo \cup {n} /\ UNCHANGED preview
    /\ UNCHANGED crossed

MarkStopped(a) ==
    /\ act[a].pc = "mark"
    /\ LET n == act[a].ref  others == act[a].live \ {n} IN
         /\ preview' = [Marks(n, "stopped") EXCEPT ![n].job = FALSE]
         /\ act' = [act EXCEPT ![a] = IF others = {} /\ ~@.starts THEN Rest
                                      ELSE [@ EXCEPT !.live = others, !.ref = 0,
                                                     !.pc = IF others = {} THEN "allocate" ELSE "halt"]]
    /\ UNCHANGED <<letGo, crossed, left>>

(* -------------------------------- starts -------------------------------- *)

FreePreviewPorts == PreviewPorts \ {preview[n].port : n \in {m \in Previews : IsLive(m) \/ preview[m].site = "up"}}

AllocatePreview(a) ==
    /\ act[a].pc = "allocate"
    /\ \/ \E n \in FreePreviewPorts :
              /\ \A m \in FreePreviewPorts : n <= m
              /\ act' = [act EXCEPT ![a].port = n, ![a].pc = "insert"]
       \/ FreePreviewPorts = {} /\ Leaves(a)
    /\ UNCHANGED <<preview, letGo, crossed, left>>

\* The job is staged and the row inserted, under a project that must still be there.
InsertPreview(a) ==
    /\ act[a].pc = "insert"
    /\ \/ \E n \in Previews :
            /\ row[act[a].of].there
            /\ preview[n] = Unmade /\ \A m \in 1..(n - 1) : preview[m] # Unmade
            /\ preview' = [preview EXCEPT ![n] = [of |-> act[a].of, st |-> "creating", port |-> act[a].port,
                                                  expired |-> FALSE, job |-> TRUE, site |-> "none"]]
            /\ act' = [act EXCEPT ![a].ref = n, ![a].pc = "start"]
       \/ ~row[act[a].of].there /\ Leaves(a) /\ UNCHANGED preview
    /\ UNCHANGED <<letGo, crossed, left>>

\* The script reads the job first, and fails without one.
StartScript(a) ==
    /\ act[a].pc = "start"
    /\ LET n == act[a].ref IN
         \/ preview[n].job /\ preview' = [preview EXCEPT ![n].site = "building"] /\ Moves(a, "script")
         \/ ~preview[n].job /\ Moves(a, "failed") /\ UNCHANGED preview
    /\ UNCHANGED <<letGo, crossed, left>>

\* The script ends, whoever is still there to see it: with the instance up, or not.  A
\* stop that came between may have taken away what it needs.
Sees(n, pc) == act' = [a \in Acts |-> IF act[a].ref = n /\ act[a].pc = "script"
                                      THEN [act[a] EXCEPT !.pc = pc] ELSE act[a]]
ScriptEnds(n) ==
    /\ preview[n].site = "building"
    /\ \/ preview' = [preview EXCEPT ![n].site = "up"] /\ Sees(n, "ready") /\ UNCHANGED left
       \/ /\ preview' = [preview EXCEPT ![n].site = "half"] /\ Sees(n, "failed")
          /\ IF preview[n].job THEN Fault ELSE UNCHANGED left
    /\ UNCHANGED <<letGo, crossed>>

\* The runner gives up on the script, which may go on.
TimesOut(a) ==
    /\ act[a].pc = "script" /\ Fault /\ Moves(a, "failed")
    /\ LET n == act[a].ref IN
         \/ letGo' = letGo \cup {n} /\ UNCHANGED preview
         \/ preview' = [preview EXCEPT ![n].site = "half"] /\ UNCHANGED letGo
    /\ UNCHANGED crossed

\* Whatever has been written on the row since.
MarkReady(a) ==
    /\ act[a].pc = "ready"
    /\ preview' = Marks(act[a].ref, "ready") /\ Leaves(a)
    /\ UNCHANGED <<letGo, crossed, left>>

MarkFailed(a) ==
    /\ act[a].pc = "failed"
    /\ preview' = Marks(act[a].ref, "failed") /\ Leaves(a)
    /\ UNCHANGED <<letGo, crossed, left>>

ServesPreview(a) ==
    \/ Halt(a) \/ MarkStopped(a) \/ AllocatePreview(a) \/ InsertPreview(a)
    \/ StartScript(a) \/ TimesOut(a) \/ MarkReady(a) \/ MarkFailed(a)
AsksPreview(a) == \E p \in Projects : \/ \E starts \in BOOLEAN : AskPreview(a, p, starts)
                                      \/ AskStatus(a, p)

\* The API dies and starts again, stopping first the previews of the projects that have an
\* expired one.
ExpiredOnes == UNION {LiveOf(p) : p \in {q \in Projects : \E n \in LiveOf(q) : preview[n].expired}}
PreviewsReboot ==
    /\ LET boot == [Rest EXCEPT !.live = ExpiredOnes, !.pc = IF ExpiredOnes = {} THEN "idle" ELSE "halt"] IN
         \E a \in Acts : act' = [b \in Acts |-> IF b = a THEN boot ELSE Rest]
    /\ UNCHANGED <<preview, letGo, crossed>>

\* Deleting a project deletes the rows of its previews, and stops none.
DropPreviews(p) ==
    /\ preview' = [n \in Previews |-> IF preview[n].of = p THEN [preview[n] EXCEPT !.st = "deleted"]
                                      ELSE preview[n]]
    /\ UNCHANGED <<act, letGo, crossed>>

(* ------------------------------ properties ------------------------------ *)

PreviewsType ==
    /\ preview \in [Previews -> Preview] /\ act \in [Acts -> Act]
    /\ letGo \subseteq Previews /\ crossed \subseteq Projects

\* "A preview is a database and a process that must not outlive its owner"
\* (project-preview.service.ts:336-342): one that is up or being built has a live row, by
\* which the reaper or an administrator finds it, at every step of every request.  Not so,
\* and `letGo`, if its stop failed, if its start was given up while the script went on, or
\* if it was stopped in the middle of its build; nor if its project has been deleted.
FoundAgain ==
    \A n \in Previews :
        (preview[n].site \in {"building", "up"} /\ n \notin letGo /\ preview[n].st # "deleted") => IsLive(n)

\* "One per project" (project-preview.service.ts:172-174), for a project whose requests
\* came one after the other: what a request or the API left behind when it died, failed or
\* expired is stopped by the next start.
OnePreview == \A p \in Projects \ crossed : Cardinality(LiveOf(p)) <= 1
=============================================================================
