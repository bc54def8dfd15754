----------------------------- MODULE TaskStream -----------------------------
(***************************************************************************)
(* The page that follows one task: useTaskStream in the browser and the    *)
(* part of TaskEventsGateway that serves it.  The history is read over     *)
(* HTTP, the socket connects when it has been merged, and the history is   *)
(* read again once the gateway confirms the subscription.  Requests,       *)
(* answers and frames are under way for as long as they like; a closed     *)
(* socket delivers nothing more.  A socket still connecting when the page  *)
(* turns to another task is abandoned unsubscribed, and is not followed    *)
(* here.  A user may read every task.                                      *)
(***************************************************************************)
EXTENDS EventLog

CONSTANT NoTask  \* the page shows no task

VARIABLES sel,        \* useTaskStream's argument
          shown,      \* its state: the events merged so far, as <<task, sequence>>
          loads,      \* loadHistory calls under way
          link,       \* the socket of the current effect
          asked,      \* tasks whose subscription the gateway is still authorising
          following,  \* the gateway's taskIds of this socket
          wire,       \* frames under way to the browser
          current     \* confirmed, and the refill that follows has not failed

streamVars == <<sel, shown, loads, link, asked, following, wire, current>>

\* A load: for which task, whether its effect still stands (not `cancelled`), whether it
\* is the one that connects afterwards, and how many rows its query has returned.
Unread == 99
Load == [task: Tasks, live: BOOLEAN, first: BOOLEAN, got: Nat]
Frame == [kind: {"event", "subscribed"}, task: Tasks, seq: Nat]

StreamInit ==
    /\ sel = NoTask /\ shown = {} /\ loads = {} /\ link = "none" /\ asked = {}
    /\ following = {} /\ wire = <<>> /\ current = FALSE

NewLoad(t, first) == [task |-> t, live |-> TRUE, first |-> first, got |-> Unread]

\* The effect's first request, if there is a task; the request that follows confirmation.
FirstLoadAlways(t) == {NewLoad(t, TRUE)}
FirstLoad(t) == IF t = NoTask THEN {} ELSE {NewLoad(t, TRUE)}
NoRefill(t) == {}
Refill(t) == {NewLoad(t, FALSE)}

\* merge and mergeAll: an event whose sequence is held already is discarded.
Merged(held, new) == held \cup {e \in new : \A h \in held : h[2] # e[2]}

Close == link' = "none" /\ asked' = {} /\ following' = {} /\ wire' = <<>> /\ current' = FALSE

\* The cleanup of the old effect, which also cancels its loads.
StillStanding(l) == l
Abandoned(l) == [l EXCEPT !.live = FALSE]
\* Another task is selected: cleanup of the effect, then the new one,
\* which starts from no events.
Select(t) ==
    /\ left.clicks > 0 /\ sel # t
    /\ left' = [left EXCEPT !.clicks = @ - 1]
    /\ sel' = t
    /\ shown' = {}
    /\ loads' = {Abandoned(l) : l \in loads} \cup FirstLoad(t)
    /\ Close
    /\ UNCHANGED logButBudget

ReadHistory(l) ==
    /\ l.got = Unread
    /\ loads' = (loads \ {l}) \cup {[l EXCEPT !.got = Len(rows[l.task])]}
    /\ UNCHANGED <<sel, shown, link, asked, following, wire, current, logVars>>

Connects(l) == link' = IF l.first /\ l.live THEN "connecting" ELSE link

LandHistory(l) ==
    /\ l.got # Unread
    /\ shown' = IF l.live THEN Merged(shown, {l.task} \X (1..l.got)) ELSE shown
    /\ loads' = loads \ {l}
    /\ Connects(l)
    /\ UNCHANGED <<sel, asked, following, wire, current, logVars>>

\* A failed request is swallowed: the socket may still deliver live events.
FailHistory(l) ==
    /\ Fault
    /\ loads' = loads \ {l}
    /\ Connects(l)
    /\ current' = (current /\ ~l.live)
    /\ UNCHANGED <<sel, shown, asked, following, wire, logButBudget>>

\* The socket opens and the page asks for its task.
Open ==
    /\ link = "connecting"
    /\ link' = "open" /\ asked' = {sel}
    /\ UNCHANGED <<sel, shown, loads, following, wire, current, logVars>>

\* The gateway has authorised the request: the socket is added, then told.
Authorise(t) ==
    /\ t \in asked
    /\ asked' = asked \ {t}
    /\ following' = following \cup {t}
    /\ wire' = Append(wire, [kind |-> "subscribed", task |-> t, seq |-> 0])
    /\ UNCHANGED <<sel, shown, loads, link, current, logVars>>

\* fanOut: one publication to the socket, if it follows the task.
Heard(e) ==
    /\ wire' = IF e.task \in following
               THEN Append(wire, [kind |-> "event", task |-> e.task, seq |-> e.seq]) ELSE wire
    /\ UNCHANGED <<sel, shown, loads, link, asked, following, current>>

LiveEvent ==
    /\ wire # <<>> /\ Head(wire).kind = "event"
    /\ shown' = Merged(shown, {<<Head(wire).task, Head(wire).seq>>})
    /\ wire' = Tail(wire)
    /\ UNCHANGED <<sel, loads, link, asked, following, current, logVars>>

Confirmed ==
    /\ wire # <<>> /\ Head(wire).kind = "subscribed"
    /\ loads' = loads \cup Refill(sel)
    /\ current' = TRUE
    /\ wire' = Tail(wire)
    /\ UNCHANGED <<sel, shown, link, asked, following, logVars>>

\* onclose sets the backoff timer.
StaysClosed == "none"
AfterClose == "lost"

\* The connection breaks, or cannot be made: with it go the frames under way.
Drop ==
    /\ link \in {"connecting", "open"}
    /\ Fault
    /\ link' = AfterClose /\ asked' = {} /\ following' = {} /\ wire' = <<>> /\ current' = FALSE
    /\ UNCHANGED <<sel, shown, loads, logButBudget>>

\* The backoff timer.
Reconnect ==
    /\ link = "lost"
    /\ link' = "connecting"
    /\ UNCHANGED <<sel, shown, loads, asked, following, wire, current, logVars>>

Follow ==
    \/ \E l \in loads : ReadHistory(l) \/ LandHistory(l)
    \/ Open \/ (\E t \in Tasks : Authorise(t)) \/ LiveEvent \/ Confirmed \/ Reconnect

Stumble == Drop \/ \E l \in loads : FailHistory(l)

(* ------------------------------ properties ------------------------------ *)

StreamType ==
    /\ sel \in Tasks \cup {NoTask}
    /\ shown \subseteq Tasks \X Nat
    /\ loads \subseteq Load
    /\ link \in {"none", "connecting", "open", "lost"}
    /\ asked \subseteq Tasks /\ following \subseteq Tasks
    /\ wire \in Seq(Frame)
    /\ current \in BOOLEAN

\* The page shows events of the selected task only, each once: answers to requests made
\* for a task selected before, and that task's events, never land under this one
\* (use-task-stream.ts:72-82, "the merge discards the new ones as duplicates").
OnlyTheSelectedTask ==
    \A e \in shown : e[1] = sel /\ e[2] <= Len(rows[e[1]])

\* Rows still with their publisher, and rows whose publication failed.
OnTheirWay(t) == {pub[p].number : p \in {q \in Publishers : pub[q].pc = "publish" /\ pub[q].task = t}}
Unannounced(t) == {n \in 1..Len(rows[t]) : <<t, n>> \in unsent}
Missing == {n \in 1..Len(rows[sel]) : <<sel, n>> \notin shown}

\* A page whose subscription is confirmed, with nothing under way to it, shows every row
\* of its task that has been published: none falls between the history it read and the
\* frames it follows (task-event-publisher.service.ts:26-31, use-task-stream.ts:30-36).
NothingFallsBetween ==
    (current /\ wire = <<>> /\ \A l \in loads : ~l.live) =>
        Missing \subseteq OnTheirWay(sel) \cup Unannounced(sel)

\* When connections stop breaking and the user stops clicking, a page is connected in the
\* end and, unless its refill failed, shows every event of its task that was published.
CatchesUp ==
    <>[](sel # NoTask => /\ link = "open"
                         /\ current => Missing \subseteq Unannounced(sel))
=============================================================================
