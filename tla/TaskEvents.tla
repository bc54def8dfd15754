----------------------------- MODULE TaskEvents -----------------------------
(***************************************************************************)
(* The event log and the browser tab that watches it: either the page of a *)
(* task or the office.  A publication in Redis reaches the gateway, which  *)
(* fans it out to the tab at once; a delay before is a publisher that has  *)
(* not published yet.                                                      *)
(***************************************************************************)
EXTENDS TaskStream, OfficeFeed

vars == <<logVars, streamVars, officeVars>>

Init == LogInit /\ StreamInit /\ OfficeInit

Publish(p) ==
    /\ Announce(p)
    /\ Heard(Announced(p)) /\ Overheard(Announced(p))

\* Redis refuses the publication.
LosePublication(p) ==
    /\ LoseAnnouncement(p) /\ NotHeard
    /\ UNCHANGED streamVars

\* An event nobody will publish leaves the office unaware of what moved.
FailPublisher(p) ==
    /\ GiveUp(p) /\ NotHeard
    /\ UNCHANGED streamVars

Log(p) ==
    \/ /\ \E t \in Tasks : Move(p, t) \/ Tell(p, t)
       /\ UNCHANGED <<streamVars, officeVars>>
    \/ /\ Number(p) \/ Insert(p) \/ Retry(p)
       /\ UNCHANGED <<streamVars, officeVars>>

PageStep ==
    /\ socket = "none"
    /\ Follow \/ Stumble \/ \E t \in Tasks \cup {NoTask} : Select(t)
    /\ UNCHANGED officeVars

OfficeStep ==
    /\ sel = NoTask
    /\ OpenOffice \/ Look \/ Work \/ Upset
    /\ UNCHANGED streamVars

Next ==
    \/ \E p \in Publishers : Log(p) \/ Publish(p) \/ LosePublication(p) \/ FailPublisher(p)
    \/ PageStep
    \/ OfficeStep

Spec == Init /\ [][Next]_vars

\* A publisher that has begun goes on; the browser and the gateway do what they have
\* started.  Clicking, failing and beginning an event are not fair.
Publishing(p) ==
    \/ Publish(p) \/ FailPublisher(p)
    \/ /\ Number(p) \/ Insert(p) \/ Retry(p)
       /\ UNCHANGED <<streamVars, officeVars>>

Fairness ==
    /\ \A p \in Publishers : WF_vars(Publishing(p))
    /\ WF_vars(Follow /\ socket = "none" /\ UNCHANGED officeVars)

LiveSpec == Spec /\ Fairness

TypeOK == LogType /\ StreamType /\ OfficeType
=============================================================================
