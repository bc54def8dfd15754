----------------------------- MODULE ConsentGate -----------------------------
(***************************************************************************)
(* What the platform promises the people who use it about their tasks: a   *)
(* task's tools change nothing until somebody with the right to has        *)
(* consented to that kind of change, nothing leaves the platform without a *)
(* consent of its own, a consent is not taken back once given, and a task  *)
(* that has settled stays as it settled.  TaskLifecycle implements it.     *)
(***************************************************************************)
EXTENDS Naturals, TaskStates

CONSTANT Tasks

VARIABLES planned,  \* the tasks that work from an approved plan
          consent,  \* the actions somebody has approved
          done,     \* the kinds of change the task's tools have made
          sent,     \* commits of the task on the remote
          settled   \* the status the task settled at, or "open"

promised == <<planned, consent, done, sent, settled>>

Init ==
    /\ planned \in [Tasks -> BOOLEAN]
    /\ consent = [t \in Tasks |-> {}]
    /\ done = [t \in Tasks |-> {}]
    /\ sent = [t \in Tasks |-> 0]
    /\ settled = [t \in Tasks |-> "open"]

\* A gated change needs its gate's consent, unless it is what an approved plan was
\* about; a change no gate is about needs the plan.
MayDo(t, effect) ==
    \/ effect \in consent[t]
    \/ /\ "implementation_plan" \in consent[t]
       /\ effect = "write" \/ (planned[t] /\ effect \in CoveredByPlan)

\* Of the tasks, the step concerns t alone.
Alone(f, t) == f' = [f EXCEPT ![t] = f'[t]]

\* Somebody with the right to decides; a consent given before stays.
Consent(t) ==
    /\ consent[t] \subseteq consent'[t] /\ Alone(consent, t)
    /\ UNCHANGED <<planned, done, sent, settled>>

\* Settling a task stops no change that is under way.
Do(t) ==
    /\ done[t] \subseteq done'[t] /\ Alone(done, t)
    /\ \A effect \in done'[t] \ done[t] : MayDo(t, effect)
    /\ UNCHANGED <<planned, consent, sent, settled>>

Send(t) ==
    /\ "git_push" \in consent[t]
    /\ sent[t] < sent'[t] /\ Alone(sent, t)
    /\ UNCHANGED <<planned, consent, done, settled>>

Settle(t) ==
    /\ settled[t] = "open" /\ settled'[t] \in Terminal /\ Alone(settled, t)
    /\ UNCHANGED <<planned, consent, done, sent>>

Next == \E t \in Tasks : Consent(t) \/ Do(t) \/ Send(t) \/ Settle(t)

Spec == Init /\ [][Next]_promised
=============================================================================
