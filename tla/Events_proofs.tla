---------------------------- MODULE Events_proofs ---------------------------
(***************************************************************************)
(* Theorems about TaskEvents, for any publishers, tasks, attempts, budgets *)
(* and rows written before: what a publisher gives up, and what the page   *)
(* of a task shows.                                                        *)
(***************************************************************************)
EXTENDS TaskEvents, TLAPS

-----------------------------------------------------------------------------
(* The log.                                                                 *)

\* How many rows a task has.
Rows(t) == Len(rows[t])

\* What publisher p has seen of its task's rows, which only become more.
Honest(p) ==
    LET x == pub[p] IN
    /\ x.pc = "number" => Rows(x.task) >= x.since + x.tries
    /\ x.pc = "insert" => x.number <= Rows(x.task) + 1 /\ x.number >= x.since + x.tries + 1
    /\ x.pc = "publish" => x.number \in 1..Rows(x.task)
    /\ x.pc = "failed" => x.tries >= Attempts /\ Rows(x.task) >= x.since + x.tries

LogInv == LogType /\ \A p \in Publishers : Honest(p)

\* A step of publisher p that leaves the rows alone.
LEMMA LogGoesOn ==
    ASSUME LogInv, NEW p \in Publishers, NEW x \in Publication,
           pub' = [pub EXCEPT ![p] = x], rows' = rows,
           status' \in [Tasks -> Statuses], unsent' \subseteq Tasks \X Nat, left' \in Budget,
           x.pc = "number" => Rows(x.task) >= x.since + x.tries,
           x.pc = "insert" => x.number <= Rows(x.task) + 1 /\ x.number >= x.since + x.tries + 1,
           x.pc = "publish" => x.number \in 1..Rows(x.task),
           x.pc = "failed" => x.tries >= Attempts /\ Rows(x.task) >= x.since + x.tries
    PROVE  LogInv'
<1>1. LogType' BY DEF LogInv, LogType
<1>2. ASSUME NEW q \in Publishers PROVE Honest(q)'
  <2>1. CASE q = p
    <3>1. pub'[q] = x BY <2>1 DEF LogInv, LogType
    <3> QED BY <3>1 DEF Honest, Rows
  <2>2. CASE q # p
    <3>1. pub'[q] = pub[q] /\ Honest(q) BY <2>2 DEF LogInv, LogType
    <3> QED BY <3>1 DEF Honest, Rows
  <2> QED BY <2>1, <2>2
<1> QED BY <1>1, <1>2 DEF LogInv

\* A fault and the start of a publication keep the budget what it is.
LEMMA Spends ==
    ASSUME left \in Budget
    PROVE  /\ Fault => left' \in Budget
           /\ \A t \in Tasks : left.events[t] > 0 =>
                  [left EXCEPT !.events[t] = @ - 1] \in Budget
           /\ left.clicks > 0 => [left EXCEPT !.clicks = @ - 1] \in Budget
           /\ left.looks > 0 => [left EXCEPT !.looks = @ - 1] \in Budget
<1>1. left.faults > 0 => [left EXCEPT !.faults = @ - 1] \in Budget BY DEF Budget
<1>2. left.clicks > 0 => [left EXCEPT !.clicks = @ - 1] \in Budget BY DEF Budget
<1>3. left.looks > 0 => [left EXCEPT !.looks = @ - 1] \in Budget BY DEF Budget
<1>4. ASSUME NEW t \in Tasks, left.events[t] > 0 PROVE [left EXCEPT !.events[t] = @ - 1] \in Budget
  <2> DEFINE e == [left.events EXCEPT ![t] = @ - 1]
  <2>1. e \in [Tasks -> Nat] BY <1>4 DEF Budget
  <2>2. [left EXCEPT !.events[t] = @ - 1] = [left EXCEPT !.events = e] BY DEF Budget
  <2> HIDE DEF e
  <2> QED BY <2>1, <2>2 DEF Budget
<1> QED BY <1>1, <1>2, <1>3, <1>4 DEF Fault

LEMMA RestingType == Resting \in Publication /\ Resting.pc = "idle"
BY LogAssumption DEF Resting, Publication, Statuses

\* A publisher that takes up an event.
LEMMA StartsWell ==
    ASSUME LogInv, NEW p \in Publishers, NEW t \in Tasks, NEW s \in Statuses, Starts(p, t, s),
           status' \in [Tasks -> Statuses]
    PROVE  LogInv'
<1> DEFINE x == [pc |-> "number", task |-> t, says |-> s, number |-> 0, tries |-> 0,
                 since |-> Len(rows[t])]
<1>1. Len(rows[t]) \in Nat BY DEF LogInv, LogType
<1>2. x \in Publication BY <1>1 DEF Publication
<1>3. Rows(x.task) >= x.since + x.tries BY <1>1 DEF Rows
<1>4. pub' = [pub EXCEPT ![p] = x] /\ rows' = rows /\ unsent' = unsent BY DEF Starts
<1>5. left' \in Budget /\ unsent' \subseteq Tasks \X Nat
  BY <1>4, Spends DEF Starts, LogInv, LogType
<1>6. x.pc = "number" OBVIOUS
<1> HIDE DEF x
<1> QED BY <1>2, <1>3, <1>4, <1>5, <1>6, LogGoesOn

\* The log keeps its invariant whatever a publisher does.
LEMMA LogStays ==
    ASSUME LogInv, NEW p \in Publishers,
           (\E t \in Tasks : Move(p, t) \/ Tell(p, t)) \/ Number(p) \/ Insert(p) \/ Retry(p)
               \/ GiveUp(p) \/ Announce(p) \/ LoseAnnouncement(p)
    PROVE  LogInv'
<1>1. /\ status \in [Tasks -> Statuses] /\ rows \in [Tasks -> Seq(Statuses)]
      /\ unsent \subseteq Tasks \X Nat /\ pub \in [Publishers -> Publication] /\ left \in Budget
      /\ pub[p] \in Publication /\ pub[p].task \in Tasks /\ Honest(p)
      /\ pub[p].tries \in Nat /\ pub[p].since \in Nat /\ pub[p].number \in Nat
  BY DEF LogInv, LogType, Publication
<1>2. ASSUME NEW t \in Tasks PROVE Rows(t) \in Nat
  <2>1. rows[t] \in Seq(Statuses) BY <1>1
  <2> QED BY <2>1 DEF Rows
<1>3. ASSUME NEW t \in Tasks, Move(p, t) PROVE LogInv'
  <2>1. PICK s \in {status[t] + 1, Last} : Starts(p, t, s) /\ status' = [status EXCEPT ![t] = s]
    BY <1>3 DEF Move
  <2>2. s \in Statuses BY <1>1, <1>3, <2>1, LogAssumption DEF Move, Statuses
  <2>3. status' \in [Tasks -> Statuses] BY <1>1, <2>1, <2>2
  <2> QED BY <2>1, <2>2, <2>3, StartsWell
<1>4. ASSUME NEW t \in Tasks, Tell(p, t) PROVE LogInv'
  <2>1. PICK s \in 0..status[t] : Starts(p, t, s) /\ status' = status BY <1>4 DEF Tell
  <2>2. status[t] \in Statuses BY <1>1
  <2>3. s \in Statuses BY <2>1, <2>2, LogAssumption DEF Statuses
  <2> QED BY <1>1, <2>1, <2>3, StartsWell
<1>5. CASE Number(p)
  <2> DEFINE n == Rows(pub[p].task) + 1
             x == [pub[p] EXCEPT !.pc = "insert", !.number = n]
  <2>1. n \in Nat BY <1>1, <1>2
  <2>2. pub' = [pub EXCEPT ![p] = x] BY <1>1, <1>5 DEF Number, Rows
  <2>3. x \in Publication /\ x.pc = "insert" /\ x.number = n /\ x.task = pub[p].task
        /\ x.tries = pub[p].tries /\ x.since = pub[p].since
    BY <1>1, <2>1 DEF Publication
  <2>4. x.number <= Rows(x.task) + 1 /\ x.number >= x.since + x.tries + 1
    BY <1>1, <1>2, <1>5, <2>3 DEF Number, Honest
  <2> HIDE DEF x
  <2> QED BY <1>1, <1>5, <2>2, <2>3, <2>4, LogGoesOn DEF Number
<1>6. CASE Insert(p)
  <2>1. pub[p].pc = "insert" /\ pub[p].number = Rows(pub[p].task) + 1
    BY <1>1, <1>2, <1>6 DEF Insert, Collides, Honest, Rows
  <2>0. PICK k \in Tasks : k = pub[p].task BY <1>1
  <2> DEFINE x == [pub[p] EXCEPT !.pc = "publish"]
  <2>2. /\ rows' = [rows EXCEPT ![k] = Append(rows[k], pub[p].says)]
        /\ pub' = [pub EXCEPT ![p] = x] /\ UNCHANGED <<status, unsent, left>>
    BY <1>1, <1>6, <2>0 DEF Insert
  <2>3. x \in Publication /\ x.pc = "publish" /\ x.number = pub[p].number /\ x.task = k
    BY <1>1, <2>0 DEF Publication
  <2>4. rows[k] \in Seq(Statuses) /\ pub[p].says \in Statuses BY <1>1 DEF Publication
  <2>5. Append(rows[k], pub[p].says) \in Seq(Statuses)
        /\ Len(Append(rows[k], pub[p].says)) = Len(rows[k]) + 1
    BY <2>4
  <2>6. rows' \in [Tasks -> Seq(Statuses)] BY <1>1, <2>2, <2>5
  <2>7. Rows(k)' = Rows(k) + 1 /\ \A t \in Tasks : Rows(t)' >= Rows(t)
    BY <1>1, <1>2, <2>2, <2>5 DEF Rows
  <2> HIDE DEF x
  <2>8. LogType' BY <1>1, <2>2, <2>3, <2>6 DEF LogType
  <2>9. ASSUME NEW q \in Publishers PROVE Honest(q)'
    <3>1. CASE q = p
      <4>1. pub'[q] = x BY <1>1, <2>2, <3>1
      <4>2. x.number \in 1..Rows(k)' BY <1>1, <1>2, <2>0, <2>1, <2>3, <2>7
      <4>3. Len(rows'[pub'[q].task]) = Rows(k)' BY <2>3, <4>1 DEF Rows
      <4> QED BY <2>3, <4>1, <4>2, <4>3 DEF Honest, Rows
    <3>2. CASE q # p
      <4>1. pub'[q] = pub[q] /\ Honest(q) /\ pub[q] \in Publication
        BY <1>1, <2>2, <3>2 DEF LogInv
      <4> DEFINE m == Len(rows'[pub[q].task])
      <4>2. pub[q].task \in Tasks /\ pub[q].since \in Nat /\ pub[q].tries \in Nat
            /\ pub[q].number \in Nat
        BY <4>1 DEF Publication
      <4>3. m >= Rows(pub[q].task) /\ Rows(pub[q].task) \in Nat /\ m \in Nat
        <5>1. rows'[pub[q].task] \in Seq(Statuses) BY <2>6, <4>2
        <5> QED BY <1>2, <2>7, <4>2, <5>1 DEF Rows
      <4>4. LET y == pub'[q] IN
              /\ y.pc = "number" => m >= y.since + y.tries
              /\ y.pc = "insert" => y.number <= m + 1 /\ y.number >= y.since + y.tries + 1
              /\ y.pc = "publish" => y.number \in 1..m
              /\ y.pc = "failed" => y.tries >= Attempts /\ m >= y.since + y.tries
        <5> HIDE DEF m
        <5> QED BY <4>1, <4>2, <4>3, LogAssumption DEF Honest
      <4>5. Len(rows'[pub'[q].task]) = m BY <4>1
      <4> HIDE DEF m
      <4> QED BY <4>4, <4>5 DEF Honest, Rows
    <3> QED BY <3>1, <3>2
  <2> QED BY <2>8, <2>9 DEF LogInv
<1>7. CASE Retry(p)
  <2> DEFINE n == pub[p].tries + 1
             x == [pub[p] EXCEPT !.pc = "number", !.tries = n]
  <2>1. pub' = [pub EXCEPT ![p] = x] BY <1>1, <1>7 DEF Retry, AfterCollision
  <2>2. x \in Publication /\ x.pc = "number" /\ x.task = pub[p].task
        /\ x.tries = n /\ x.since = pub[p].since
    <3>1. n \in Nat BY <1>1
    <3> HIDE DEF n
    <3> QED BY <1>1, <3>1 DEF Publication
  <2>3. Rows(x.task) >= x.since + x.tries
    BY <1>1, <1>2, <1>7, <2>2 DEF Retry, Collides, Honest, Rows
  <2> HIDE DEF x
  <2> QED BY <1>1, <1>7, <2>1, <2>2, <2>3, LogGoesOn DEF Retry
<1>8. CASE GiveUp(p)
  <2> DEFINE n == pub[p].tries + 1
             x == [pub[p] EXCEPT !.pc = "failed", !.tries = n]
  <2>1. pub' = [pub EXCEPT ![p] = x] BY <1>1, <1>8 DEF GiveUp
  <2>2. x \in Publication /\ x.pc = "failed" /\ x.task = pub[p].task
        /\ x.tries = n /\ x.since = pub[p].since
    <3>1. n \in Nat BY <1>1
    <3> HIDE DEF n
    <3> QED BY <1>1, <3>1 DEF Publication
  <2>3. Rows(x.task) >= x.since + x.tries /\ x.tries >= Attempts
    BY <1>1, <1>2, <1>8, <2>2, LogAssumption DEF GiveUp, Collides, Honest, Rows
  <2> HIDE DEF x
  <2> QED BY <1>1, <1>8, <2>1, <2>2, <2>3, LogGoesOn DEF GiveUp
<1>9. CASE Announce(p)
  BY <1>1, <1>9, RestingType, LogGoesOn DEF Announce
<1>10. CASE LoseAnnouncement(p)
  <2>1. unsent' \subseteq Tasks \X Nat BY <1>1, <1>10 DEF LoseAnnouncement
  <2>2. left' \in Budget BY <1>1, <1>10, Spends DEF LoseAnnouncement
  <2> QED BY <1>1, <1>10, <2>1, <2>2, RestingType, LogGoesOn DEF LoseAnnouncement
<1> QED BY <1>3, <1>4, <1>5, <1>6, <1>7, <1>8, <1>9, <1>10

\* So does the browser, which spends the budget alone.
LEMMA LogRests ==
    ASSUME LogInv, UNCHANGED logButBudget, left' \in Budget
    PROVE  LogInv'
<1>1. LogType' BY DEF LogInv, LogType, logButBudget
<1>2. ASSUME NEW p \in Publishers PROVE Honest(p)'
  <2>1. Honest(p) BY DEF LogInv
  <2> QED BY <2>1 DEF Honest, Rows, logButBudget
<1> QED BY <1>1, <1>2 DEF LogInv

-----------------------------------------------------------------------------
(* The page.                                                                *)

\* Where row n of the selected task is, if the page does not show it: with its publisher,
\* lost by it, under way as a frame, or in what a load has read or will read.
Found(n) ==
    \/ <<sel, n>> \in shown
    \/ \E p \in Publishers : pub[p].pc = "publish" /\ pub[p].task = sel /\ pub[p].number = n
    \/ <<sel, n>> \in unsent
    \/ \E i \in 1..Len(wire) : wire[i] = [kind |-> "event", task |-> sel, seq |-> n]
    \/ \E l \in loads : l.live /\ (l.got = Unread \/ n <= l.got)

\* What is under way to the page is of the selected task, and rows that exist; frames come
\* only where the task is followed.
OnTopic ==
    /\ link # "none" => sel \in Tasks
    /\ \A l \in loads : l.live => l.task = sel /\ (l.got # Unread => l.got <= Rows(sel))
    /\ asked \subseteq {sel} /\ following \subseteq {sel}
    /\ \A i \in 1..Len(wire) : /\ wire[i].task = sel /\ sel \in following
                               /\ wire[i].kind = "event" => wire[i].seq \in 1..Rows(sel)
    /\ OnlyTheSelectedTask

\* A page that is confirmed is followed at the gateway, and no row is anywhere else.
NoGap ==
    current => /\ sel \in following
               /\ \A n \in 1..Rows(sel) : Found(n)

PageInv == StreamType /\ OnTopic /\ NoGap

\* The page, when it does nothing itself, stays on its topic however the rows grow.
LEMMA TopicStays ==
    ASSUME StreamType, OnTopic, UNCHANGED streamVars,
           \A t \in Tasks : Rows(t) \in Nat /\ Rows(t)' \in Nat /\ Rows(t)' >= Rows(t)
    PROVE  StreamType' /\ OnTopic'
<1>1. StreamType' BY DEF StreamType, streamVars
<1>2. \A t \in Tasks : Len(rows[t]) \in Nat /\ Len(rows'[t]) \in Nat /\ Len(rows'[t]) >= Len(rows[t])
  BY DEF Rows
<1>3. ASSUME NEW l \in loads, l.live PROVE l.task = sel /\ (l.got # Unread => l.got <= Len(rows'[sel]))
  <2>1. l.task = sel /\ sel \in Tasks /\ l.got \in Nat /\ (l.got # Unread => l.got <= Len(rows[sel]))
    BY <1>3 DEF StreamType, Load, OnTopic, Rows
  <2> QED BY <1>2, <2>1
<1>4. ASSUME NEW i \in 1..Len(wire)
      PROVE  /\ wire[i].task = sel /\ sel \in following
             /\ wire[i].kind = "event" => wire[i].seq \in 1..Len(rows'[sel])
  <2>1. wire[i] \in Frame BY <1>4 DEF StreamType
  <2>2. wire[i].task = sel /\ sel \in following /\ sel \in Tasks /\ wire[i].seq \in Nat
        /\ (wire[i].kind = "event" => wire[i].seq \in 1..Len(rows[sel]))
    BY <1>4, <2>1 DEF Frame, OnTopic, Rows
  <2> QED BY <1>2, <2>2
<1>5. ASSUME NEW e \in shown PROVE e[1] = sel /\ e[2] <= Len(rows'[e[1]])
  <2>1. e[1] \in Tasks /\ e[2] \in Nat BY <1>5 DEF StreamType
  <2>2. e[1] = sel /\ e[2] <= Len(rows[e[1]]) BY <1>5 DEF OnTopic, OnlyTheSelectedTask
  <2> QED BY <1>2, <2>1, <2>2
<1> QED BY <1>1, <1>3, <1>4, <1>5 DEF OnTopic, OnlyTheSelectedTask, streamVars, Rows

\* Rows have lengths, and a step of the log only adds to them.
LEMMA RowsGrow ==
    ASSUME LogInv, NEW p \in Publishers,
           UNCHANGED rows \/ Insert(p)
    PROVE  \A t \in Tasks : Rows(t) \in Nat /\ Rows(t)' \in Nat /\ Rows(t)' >= Rows(t)
<1> SUFFICES ASSUME NEW t \in Tasks
             PROVE  Rows(t) \in Nat /\ Rows(t)' \in Nat /\ Rows(t)' >= Rows(t)
  OBVIOUS
<1>1. rows \in [Tasks -> Seq(Statuses)] /\ rows[t] \in Seq(Statuses) /\ pub[p] \in Publication
  BY DEF LogInv, LogType
<1>2. CASE UNCHANGED rows BY <1>1, <1>2 DEF Rows
<1>3. CASE Insert(p)
  <2>1. PICK k \in Tasks : k = pub[p].task BY <1>1 DEF Publication
  <2>2. pub[p].says \in Statuses BY <1>1 DEF Publication
  <2>3. rows' = [rows EXCEPT ![k] = Append(rows[k], pub[p].says)] BY <1>3, <2>1 DEF Insert
  <2>4. CASE t = k
    <3>1. rows'[t] = Append(rows[t], pub[p].says) BY <1>1, <2>3, <2>4
    <3>2. Len(Append(rows[t], pub[p].says)) = Len(rows[t]) + 1 /\ Len(rows[t]) \in Nat
      BY <1>1, <2>2
    <3> QED BY <3>1, <3>2 DEF Rows
  <2>5. CASE t # k
    <3>1. rows'[t] = rows[t] BY <1>1, <2>3, <2>5
    <3> QED BY <1>1, <3>1 DEF Rows
  <2> QED BY <2>4, <2>5
<1> QED BY <1>2, <1>3

\* A publisher that has not reached its publication leaves the page without a gap: the row
\* it inserts is on its way.
LEMMA WritingKeepsPage ==
    ASSUME LogInv, PageInv, UNCHANGED streamVars, NEW p \in Publishers,
           (\E t \in Tasks : Move(p, t) \/ Tell(p, t)) \/ Number(p) \/ Insert(p) \/ Retry(p)
               \/ GiveUp(p)
    PROVE  PageInv'
<1>1. /\ rows \in [Tasks -> Seq(Statuses)] /\ pub \in [Publishers -> Publication]
      /\ pub[p] \in Publication /\ Honest(p)
  BY DEF LogInv, LogType
<1>2. UNCHANGED rows \/ Insert(p)
  BY DEF Move, Tell, Starts, Number, Retry, GiveUp
<1>3. StreamType' /\ OnTopic' BY <1>2, RowsGrow, TopicStays DEF PageInv
<1>4. unsent' = unsent /\ pub[p].pc # "publish"
  BY DEF Move, Tell, Starts, Number, Insert, Retry, GiveUp
<1>5. \A q \in Publishers \ {p} : pub'[q] = pub[q]
  BY <1>1 DEF Move, Tell, Starts, Number, Insert, Retry, GiveUp
<1>6. ASSUME NEW n, Found(n) PROVE Found(n)'
  BY <1>4, <1>5, <1>6 DEF Found, streamVars
<1>7. CASE UNCHANGED rows
  BY <1>3, <1>6, <1>7 DEF PageInv, NoGap, Rows, streamVars
<1>8. CASE Insert(p)
  <2>1. PICK k \in Tasks : k = pub[p].task BY <1>1 DEF Publication
  <2>2. pub[p].says \in Statuses BY <1>1 DEF Publication
  <2>3. /\ rows' = [rows EXCEPT ![k] = Append(rows[k], pub[p].says)]
        /\ pub' = [pub EXCEPT ![p].pc = "publish"]
    BY <1>8, <2>1 DEF Insert
  <2>4. pub[p].number = Len(rows[k]) + 1
    <3>1. rows[k] \in Seq(Statuses) /\ pub[p].number \in Nat BY <1>1 DEF Publication
    <3>2. Len(rows[k]) \in Nat BY <3>1
    <3> QED BY <1>1, <1>8, <2>1, <3>1, <3>2 DEF Insert, Collides, Honest, Rows
  <2>5. pub'[p].pc = "publish" /\ pub'[p].task = k /\ pub'[p].number = Len(rows[k]) + 1
    BY <1>1, <2>1, <2>3, <2>4 DEF Publication
  <2>6. ASSUME current', NEW n \in 1..Rows(sel)' PROVE Found(n)'
    <3>1. sel' = sel /\ sel \in Tasks /\ sel \in following /\ \A m \in 1..Rows(sel) : Found(m)
      BY <2>6 DEF PageInv, NoGap, streamVars, StreamType
    <3>2. rows[sel] \in Seq(Statuses) BY <1>1, <3>1
    <3>3. CASE sel = k
      <4>1. Len(rows'[sel]) = Len(rows[sel]) + 1 /\ Len(rows[sel]) \in Nat
        BY <1>1, <2>2, <2>3, <3>1, <3>2, <3>3
      <4>2. n \in 1..(Len(rows[sel]) + 1) BY <2>6, <3>1, <4>1 DEF Rows
      <4>3. CASE n = Len(rows[sel]) + 1 BY <2>5, <3>1, <3>3, <4>3 DEF Found
      <4>4. CASE n # Len(rows[sel]) + 1
        <5>1. n \in 1..Len(rows[sel]) BY <4>1, <4>2, <4>4
        <5> QED BY <1>6, <3>1, <5>1 DEF Rows
      <4> QED BY <4>3, <4>4
    <3>4. CASE sel # k
      <4>1. rows'[sel] = rows[sel] BY <1>1, <2>3, <3>1, <3>4
      <4> QED BY <1>6, <2>6, <3>1, <4>1 DEF Rows
    <3> QED BY <3>3, <3>4
  <2> QED BY <1>3, <2>6 DEF PageInv, NoGap, streamVars
<1> QED BY <1>2, <1>7, <1>8

\* What is put at the end of the wire is there, behind what was.
LEMMA WireAppend ==
    ASSUME NEW w \in Seq(Frame), NEW f \in Frame
    PROVE  /\ Append(w, f) \in Seq(Frame) /\ Len(Append(w, f)) = Len(w) + 1 /\ Len(w) \in Nat
           /\ Append(w, f)[Len(w) + 1] = f
           /\ \A i \in 1..Len(w) : Append(w, f)[i] = w[i]
OBVIOUS

\* What is behind the first frame is there when that is taken off.
LEMMA WireTail ==
    ASSUME NEW w \in Seq(Frame), w # <<>>
    PROVE  /\ Tail(w) \in Seq(Frame) /\ Len(Tail(w)) = Len(w) - 1 /\ Len(w) \in Nat /\ Len(w) > 0
           /\ \A i \in 1..Len(Tail(w)) : Tail(w)[i] = w[i + 1] /\ i + 1 \in 1..Len(w)
           /\ \A i \in 1..Len(w) : i # 1 => i - 1 \in 1..Len(Tail(w)) /\ w[i] = Tail(w)[i - 1]
           /\ Head(w) = w[1] /\ Head(w) \in Frame
OBVIOUS

\* A published row is in the wire of a page that follows its task.
LEMMA PublishKeepsPage ==
    ASSUME LogInv, PageInv, NEW p \in Publishers, Announce(p), Heard(Announced(p))
    PROVE  PageInv'
<1>1. /\ rows \in [Tasks -> Seq(Statuses)] /\ pub \in [Publishers -> Publication]
      /\ pub[p] \in Publication /\ Honest(p) /\ pub[p].pc = "publish"
      /\ pub' = [pub EXCEPT ![p] = Resting] /\ UNCHANGED <<rows, unsent>>
  BY DEF LogInv, LogType, Announce
<1>2. /\ UNCHANGED <<sel, shown, loads, link, asked, following, current>>
      /\ wire \in Seq(Frame)
  BY DEF Heard, PageInv, StreamType
<1> DEFINE f == [kind |-> "event", task |-> pub[p].task, seq |-> pub[p].number]
<1>3. wire' = IF pub[p].task \in following THEN Append(wire, f) ELSE wire
  BY DEF Heard, Announced
<1>4. f \in Frame /\ f.kind = "event" /\ f.task = pub[p].task /\ f.seq = pub[p].number
  BY <1>1 DEF Frame, Publication
<1>5. pub[p].number \in 1..Len(rows[pub[p].task]) BY <1>1 DEF Honest, Rows
<1> HIDE DEF f
<1>6. wire' \in Seq(Frame) BY <1>2, <1>3, <1>4, WireAppend
<1>7. \A i \in 1..Len(wire) : i \in 1..Len(wire') /\ wire'[i] = wire[i]
  BY <1>2, <1>3, <1>4, WireAppend
<1>8. \A i \in 1..Len(wire') : i \in 1..Len(wire) \/ (wire'[i] = f /\ pub[p].task \in following)
  <2>1. CASE pub[p].task \in following
    <3>1. wire' = Append(wire, f) BY <1>3, <2>1
    <3>2. Len(wire') = Len(wire) + 1 /\ Len(wire) \in Nat /\ wire'[Len(wire) + 1] = f
      BY <1>2, <1>4, <3>1, WireAppend
    <3> QED BY <2>1, <3>2
  <2>2. CASE pub[p].task \notin following BY <1>3, <2>2
  <2> QED BY <2>1, <2>2
<1>9. StreamType' BY <1>2, <1>6 DEF PageInv, StreamType
<1>10. OnTopic'
  <2>1. ASSUME NEW i \in 1..Len(wire')
        PROVE  /\ wire'[i].task = sel /\ sel \in following
               /\ wire'[i].kind = "event" => wire'[i].seq \in 1..Len(rows[sel])
    <3>1. CASE i \in 1..Len(wire) BY <1>7, <3>1 DEF PageInv, OnTopic, Rows
    <3>2. CASE wire'[i] = f /\ pub[p].task \in following
      <4>1. pub[p].task = sel BY <3>2 DEF PageInv, OnTopic
      <4> QED BY <1>4, <1>5, <3>2, <4>1
    <3> QED BY <1>8, <3>1, <3>2
  <2> QED BY <1>1, <1>2, <2>1 DEF PageInv, OnTopic, OnlyTheSelectedTask, Rows
<1>11. ASSUME current, NEW n \in 1..Rows(sel), Found(n) PROVE Found(n)'
  <2>1. sel \in following BY <1>11 DEF PageInv, NoGap
  <2>2. CASE pub[p].task = sel /\ pub[p].number = n
    <3>1. wire' = Append(wire, f) BY <1>3, <2>1, <2>2
    <3>2. wire'[Len(wire) + 1] = f /\ Len(wire) + 1 \in 1..Len(wire')
      BY <1>2, <1>4, <3>1, WireAppend
    <3>3. f = [kind |-> "event", task |-> sel, seq |-> n] BY <2>2 DEF f
    <3> QED BY <1>2, <3>2, <3>3 DEF Found
  <2>3. CASE \E q \in Publishers \ {p} : pub[q].pc = "publish" /\ pub[q].task = sel /\ pub[q].number = n
    BY <1>1, <1>2, <2>3 DEF Found
  <2>4. CASE \E i \in 1..Len(wire) : wire[i] = [kind |-> "event", task |-> sel, seq |-> n]
    BY <1>2, <1>7, <2>4 DEF Found
  <2>5. CASE \/ <<sel, n>> \in shown \/ <<sel, n>> \in unsent
             \/ \E l \in loads : l.live /\ (l.got = Unread \/ n <= l.got)
    BY <1>1, <1>2, <2>5 DEF Found
  <2> QED BY <1>11, <2>2, <2>3, <2>4, <2>5 DEF Found
<1>12. NoGap' BY <1>1, <1>2, <1>11 DEF PageInv, NoGap, Rows
<1> QED BY <1>9, <1>10, <1>12 DEF PageInv

\* A row whose publication failed is known not to have been published.
LEMMA LosingKeepsPage ==
    ASSUME LogInv, PageInv, NEW p \in Publishers, LoseAnnouncement(p), UNCHANGED streamVars
    PROVE  PageInv'
<1>1. /\ pub \in [Publishers -> Publication] /\ pub' = [pub EXCEPT ![p] = Resting]
      /\ unsent' = unsent \cup {<<pub[p].task, pub[p].number>>} /\ UNCHANGED rows
  BY DEF LogInv, LogType, LoseAnnouncement
<1>2. StreamType' /\ OnTopic' BY <1>1, RowsGrow, TopicStays DEF PageInv
<1>3. ASSUME NEW n, Found(n) PROVE Found(n)'
  <2>1. CASE pub[p].task = sel /\ pub[p].number = n BY <1>1, <2>1 DEF Found, streamVars
  <2>2. CASE \E q \in Publishers \ {p} : pub[q].pc = "publish" /\ pub[q].task = sel /\ pub[q].number = n
    BY <1>1, <2>2 DEF Found, streamVars
  <2>3. CASE \/ <<sel, n>> \in shown \/ <<sel, n>> \in unsent
             \/ \E i \in 1..Len(wire) : wire[i] = [kind |-> "event", task |-> sel, seq |-> n]
             \/ \E l \in loads : l.live /\ (l.got = Unread \/ n <= l.got)
    BY <1>1, <2>3 DEF Found, streamVars
  <2> QED BY <1>3, <2>1, <2>2, <2>3 DEF Found
<1> QED BY <1>1, <1>2, <1>3 DEF PageInv, NoGap, Rows, streamVars
\* A newly selected task starts from nothing: the old task's loads are abandoned.
LEMMA SelectKeepsPage ==
    ASSUME LogInv, PageInv, NEW t \in Tasks \cup {NoTask}, Select(t)
    PROVE  PageInv'
<1>1. UNCHANGED rows /\ loads \subseteq Load BY DEF Select, logButBudget, PageInv, StreamType
<1>2. ASSUME NEW l \in loads'
      PROVE  l \in Load /\ (l.live => l.task = t /\ l.got = Unread)
  <2>1. CASE \E k \in loads : l = Abandoned(k)
    <3>1. PICK k \in loads : l = [k EXCEPT !.live = FALSE] BY <2>1 DEF Abandoned
    <3> QED BY <1>1, <3>1 DEF Load
  <2>2. CASE t # NoTask /\ l = NewLoad(t, TRUE) BY <2>2 DEF NewLoad, Load, Unread
  <2> QED BY <1>2, <2>1, <2>2 DEF Select, FirstLoad
<1>0. <<>> \in Seq(Frame) OBVIOUS
<1>3. StreamType' BY <1>0, <1>2 DEF Select, Close, StreamType
<1>4. OnTopic' BY <1>2 DEF Select, Close, OnTopic, OnlyTheSelectedTask
<1>5. NoGap' BY DEF Select, Close, NoGap
<1> QED BY <1>3, <1>4, <1>5 DEF PageInv

\* What a page keeps of a step that changes only what it loads, shows and connects.
LEMMA LoadingKeepsPage ==
    ASSUME LogInv, PageInv, UNCHANGED <<rows, pub, unsent, sel, asked, following, wire>>,
           loads' \subseteq Load,
           \A l \in loads' : l.live => l.task = sel /\ (l.got # Unread => l.got <= Rows(sel)),
           link' \in {"none", "connecting", "open", "lost"}, link' # "none" => sel \in Tasks,
           shown' \subseteq Tasks \X Nat, \A e \in shown' : e[1] = sel /\ e[2] <= Rows(sel),
           current' \in BOOLEAN, current' => current /\ \A n \in 1..Rows(sel) : Found(n)'
    PROVE  PageInv'
<1>1. StreamType' BY DEF PageInv, StreamType
<1>2. OnTopic' BY DEF PageInv, OnTopic, OnlyTheSelectedTask, Rows
<1>3. NoGap' BY DEF PageInv, NoGap, Rows
<1> QED BY <1>1, <1>2, <1>3 DEF PageInv

\* A load, and what it knows.
LEMMA LoadsOnTopic ==
    ASSUME LogInv, PageInv, NEW l \in loads
    PROVE  /\ l \in Load /\ Rows(l.task) \in Nat
           /\ l.live => l.task = sel /\ (l.got # Unread => l.got <= Rows(sel))
           /\ \A e \in shown : e[1] = sel /\ e[2] <= Rows(sel)
           /\ link \in {"none", "connecting", "open", "lost"}
           /\ link # "none" => sel \in Tasks
<1>1. l \in Load /\ l.task \in Tasks BY DEF PageInv, StreamType, Load
<1>2. rows[l.task] \in Seq(Statuses) BY <1>1 DEF LogInv, LogType
<1> QED BY <1>1, <1>2 DEF PageInv, StreamType, OnTopic, OnlyTheSelectedTask, Rows

LEMMA ReadingKeepsPage ==
    ASSUME LogInv, PageInv, NEW l \in loads, ReadHistory(l)
    PROVE  PageInv'
<1> DEFINE m == [l EXCEPT !.got = Rows(l.task)]
<1>1. m \in Load /\ m.live = l.live /\ m.task = l.task /\ m.got = Rows(l.task)
  BY LoadsOnTopic DEF Load
<1>2. loads' = (loads \ {l}) \cup {m} BY DEF ReadHistory, Rows
<1> HIDE DEF m
<1>3. UNCHANGED <<rows, pub, unsent, sel, shown, link, asked, following, wire, current>>
  BY DEF ReadHistory, logVars
<1>4. loads' \subseteq Load BY <1>1, <1>2 DEF PageInv, StreamType
<1>5. ASSUME NEW k \in loads', k.live
      PROVE  k.task = sel /\ (k.got # Unread => k.got <= Rows(sel))
  <2>1. CASE k \in loads BY <1>5, <2>1, LoadsOnTopic
  <2>2. CASE k = m
    <3>1. k.task = sel /\ k.got = Rows(sel) /\ Rows(sel) \in Nat
      BY <1>1, <1>5, <2>2, LoadsOnTopic
    <3> QED BY <3>1
  <2> QED BY <1>2, <2>1, <2>2
<1>6. ASSUME current, NEW n \in 1..Rows(sel) PROVE Found(n)'
  <2>1. Found(n) BY <1>6 DEF PageInv, NoGap
  <2>2. CASE l.live
    <3>1. m.live /\ n <= m.got /\ m \in loads' BY <1>1, <1>2, <1>6, <2>2, LoadsOnTopic
    <3> QED BY <1>3, <3>1 DEF Found
  <2>3. CASE ~l.live BY <1>2, <1>3, <2>1, <2>3 DEF Found
  <2> QED BY <2>2, <2>3
<1>7. current \in BOOLEAN /\ shown \subseteq Tasks \X Nat BY DEF PageInv, StreamType
<1> QED BY <1>3, <1>4, <1>5, <1>6, <1>7, LoadsOnTopic, LoadingKeepsPage

LEMMA LandingKeepsPage ==
    ASSUME LogInv, PageInv, NEW l \in loads, LandHistory(l)
    PROVE  PageInv'
<1>1. /\ UNCHANGED <<rows, pub, unsent, sel, asked, following, wire, current>>
      /\ loads' = loads \ {l} /\ l.got # Unread /\ Connects(l)
      /\ shown' = IF l.live THEN Merged(shown, {l.task} \X (1..l.got)) ELSE shown
  BY DEF LandHistory, logVars
<1>2. l.task \in Tasks /\ l.got \in Nat BY LoadsOnTopic DEF Load
<1>3. loads' \subseteq Load BY <1>1 DEF PageInv, StreamType
<1>4. \A k \in loads' : k.live => k.task = sel /\ (k.got # Unread => k.got <= Rows(sel))
  BY <1>1, LoadsOnTopic
<1>5. link' \in {"none", "connecting", "open", "lost"} /\ (link' # "none" => sel \in Tasks)
  BY <1>1, <1>2, LoadsOnTopic DEF Connects
<1>6. shown \subseteq Tasks \X Nat /\ shown \subseteq shown'
  BY <1>1 DEF PageInv, StreamType, Merged
<1>7. ASSUME NEW e \in shown' PROVE e \in Tasks \X Nat /\ e[1] = sel /\ e[2] <= Rows(sel)
  <2>1. CASE e \in shown BY <1>6, <2>1, LoadsOnTopic
  <2>2. CASE l.live /\ e \in {l.task} \X (1..l.got)
    <3>1. l.task = sel /\ l.got <= Rows(sel) /\ Rows(sel) \in Nat BY <1>1, <2>2, LoadsOnTopic
    <3> QED BY <1>2, <2>2, <3>1
  <2> QED BY <1>1, <1>7, <2>1, <2>2 DEF Merged
<1>8. ASSUME current, NEW n \in 1..Rows(sel) PROVE Found(n)'
  <2>1. Found(n) BY <1>8 DEF PageInv, NoGap
  <2>2. CASE l.live /\ n <= l.got
    <3>1. <<sel, n>> \in {l.task} \X (1..l.got)
      <4>1. l.task = sel BY <2>2, LoadsOnTopic
      <4>2. n \in 1..l.got
        <5>1. n \in Nat /\ n >= 1 BY <1>8, <1>2, <4>1, LoadsOnTopic
        <5> QED BY <1>2, <2>2, <5>1
      <4> QED BY <4>1, <4>2
    <3>2. <<sel, n>> \in shown'
      <4>1. CASE \E h \in shown : h[2] = n
        <5>1. PICK h \in shown : h[2] = n BY <4>1
        <5>2. h[1] = sel /\ h \in Tasks \X Nat BY <1>6, LoadsOnTopic
        <5>3. h = <<sel, n>> BY <5>1, <5>2
        <5> QED BY <1>6, <5>3
      <4>2. CASE \A h \in shown : h[2] # n BY <1>1, <2>2, <3>1, <4>2 DEF Merged
      <4> QED BY <4>1, <4>2
    <3> QED BY <1>1, <3>2 DEF Found
  <2>3. CASE ~(l.live /\ n <= l.got) BY <1>1, <1>6, <2>1, <2>3 DEF Found
  <2> QED BY <2>2, <2>3
<1>9. current \in BOOLEAN BY DEF PageInv, StreamType
<1> QED BY <1>1, <1>3, <1>4, <1>5, <1>7, <1>8, <1>9, LoadingKeepsPage

LEMMA FailingKeepsPage ==
    ASSUME LogInv, PageInv, NEW l \in loads, FailHistory(l)
    PROVE  PageInv'
<1>1. /\ UNCHANGED <<rows, pub, unsent, sel, asked, following, wire, shown>>
      /\ loads' = loads \ {l} /\ Connects(l) /\ current' = (current /\ ~l.live)
  BY DEF FailHistory, logButBudget
<1>2. l.task \in Tasks BY LoadsOnTopic DEF Load
<1>3. loads' \subseteq Load BY <1>1 DEF PageInv, StreamType
<1>4. \A k \in loads' : k.live => k.task = sel /\ (k.got # Unread => k.got <= Rows(sel))
  BY <1>1, LoadsOnTopic
<1>5. link' \in {"none", "connecting", "open", "lost"} /\ (link' # "none" => sel \in Tasks)
  BY <1>1, <1>2, LoadsOnTopic DEF Connects
<1>6. shown' \subseteq Tasks \X Nat /\ current' \in BOOLEAN BY <1>1 DEF PageInv, StreamType
<1>7. ASSUME current', NEW n \in 1..Rows(sel) PROVE Found(n)'
  <2>1. current /\ ~l.live BY <1>1, <1>7
  <2>2. Found(n) BY <2>1 DEF PageInv, NoGap
  <2> QED BY <1>1, <2>1, <2>2 DEF Found
<1>8. \A e \in shown' : e[1] = sel /\ e[2] <= Rows(sel) BY <1>1, LoadsOnTopic
<1>9. current' => current BY <1>1
<1> QED BY <1>1, <1>3, <1>4, <1>5, <1>6, <1>7, <1>8, <1>9, LoadingKeepsPage

\* What the page and the gateway do with the socket.
LEMMA SocketKeepsPage ==
    ASSUME LogInv, PageInv,
           Open \/ (\E t \in Tasks : Authorise(t)) \/ LiveEvent \/ Confirmed \/ Reconnect \/ Drop
    PROVE  PageInv'
<1>1. UNCHANGED <<rows, pub, unsent>>
  BY DEF Open, Authorise, LiveEvent, Confirmed, Reconnect, Drop, logVars, logButBudget
<1>2. /\ StreamType /\ OnTopic /\ NoGap /\ wire \in Seq(Frame)
      /\ loads \subseteq Load /\ shown \subseteq Tasks \X Nat
  BY DEF PageInv, StreamType
<1>3. CASE Open
  <2>1. sel \in Tasks BY <1>2, <1>3 DEF Open, OnTopic
  <2>2. StreamType' BY <1>2, <1>3, <2>1 DEF Open, StreamType
  <2>3. OnTopic' BY <1>1, <1>2, <1>3, <2>1 DEF Open, OnTopic, OnlyTheSelectedTask, Rows
  <2>4. NoGap' BY <1>1, <1>2, <1>3 DEF Open, NoGap, Found, Rows
  <2> QED BY <2>2, <2>3, <2>4 DEF PageInv
<1>4. CASE Reconnect
  <2>1. StreamType' BY <1>2, <1>4 DEF Reconnect, StreamType
  <2>2. OnTopic' BY <1>1, <1>2, <1>4 DEF Reconnect, OnTopic, OnlyTheSelectedTask, Rows
  <2>3. NoGap' BY <1>1, <1>2, <1>4 DEF Reconnect, NoGap, Found, Rows
  <2> QED BY <2>1, <2>2, <2>3 DEF PageInv
<1>5. CASE Drop
  <2>0. <<>> \in Seq(Frame) OBVIOUS
  <2>1. StreamType' BY <1>2, <1>5, <2>0 DEF Drop, StreamType, AfterClose
  <2>2. OnTopic' BY <1>1, <1>2, <1>5 DEF Drop, OnTopic, OnlyTheSelectedTask, Rows
  <2>3. NoGap' BY <1>5 DEF Drop, NoGap
  <2> QED BY <2>1, <2>2, <2>3 DEF PageInv
<1>6. ASSUME NEW t \in Tasks, Authorise(t) PROVE PageInv'
  <2> DEFINE f == [kind |-> "subscribed", task |-> t, seq |-> 0]
  <2>1. /\ t = sel /\ asked' = asked \ {t} /\ following' = following \cup {t}
        /\ wire' = Append(wire, f) /\ UNCHANGED <<sel, shown, loads, link, current>>
    BY <1>2, <1>6 DEF Authorise, OnTopic
  <2>2. f \in Frame /\ f.task = sel /\ f.kind # "event" BY <2>1 DEF Frame
  <2> HIDE DEF f
  <2>3. /\ wire' \in Seq(Frame) /\ Len(wire') = Len(wire) + 1 /\ Len(wire) \in Nat
        /\ wire'[Len(wire) + 1] = f /\ \A i \in 1..Len(wire) : wire'[i] = wire[i]
    BY <1>2, <2>1, <2>2, WireAppend
  <2>4. \A i \in 1..Len(wire') : i \in 1..Len(wire) \/ i = Len(wire) + 1 BY <2>3
  <2>5. \A i \in 1..Len(wire) : i \in 1..Len(wire') BY <2>3
  <2>6. StreamType' BY <1>2, <1>6, <2>1, <2>3 DEF StreamType
  <2>7. ASSUME NEW i \in 1..Len(wire')
        PROVE  /\ wire'[i].task = sel /\ sel \in following'
               /\ wire'[i].kind = "event" => wire'[i].seq \in 1..Len(rows[sel])
    <3>1. CASE i \in 1..Len(wire) BY <1>2, <2>1, <2>3, <3>1 DEF OnTopic, Rows
    <3>2. CASE i = Len(wire) + 1 BY <2>1, <2>2, <2>3, <3>2
    <3> QED BY <2>4, <3>1, <3>2
  <2>8. OnTopic' BY <1>1, <1>2, <2>1, <2>7 DEF OnTopic, OnlyTheSelectedTask, Rows
  <2>9. ASSUME NEW n, Found(n) PROVE Found(n)'
    <3>1. CASE \E i \in 1..Len(wire) : wire[i] = [kind |-> "event", task |-> sel, seq |-> n]
      BY <2>1, <2>3, <2>5, <3>1 DEF Found
    <3>2. CASE ~\E i \in 1..Len(wire) : wire[i] = [kind |-> "event", task |-> sel, seq |-> n]
      BY <1>1, <2>1, <2>9, <3>2 DEF Found
    <3> QED BY <3>1, <3>2
  <2>10. NoGap' BY <1>1, <1>2, <2>1, <2>9 DEF NoGap, Rows
  <2> QED BY <2>6, <2>8, <2>10 DEF PageInv
<1>7. ASSUME LiveEvent \/ Confirmed
      PROVE  /\ wire # <<>> /\ wire' = Tail(wire)
             /\ wire' \in Seq(Frame) /\ Head(wire) = wire[1] /\ 1 \in 1..Len(wire)
             /\ Head(wire).task = sel /\ sel \in Tasks /\ sel \in following
             /\ \A i \in 1..Len(wire') : /\ wire'[i].task = sel
                                         /\ wire'[i].kind = "event" => wire'[i].seq \in 1..Rows(sel)
             /\ \A i \in 1..Len(wire) : i # 1 => i - 1 \in 1..Len(wire') /\ wire[i] = wire'[i - 1]
  <2>1. wire # <<>> /\ wire' = Tail(wire) BY <1>7 DEF LiveEvent, Confirmed
  <2>2. /\ wire' \in Seq(Frame) /\ Head(wire) = wire[1] /\ 1 \in 1..Len(wire) /\ Head(wire) \in Frame
        /\ \A i \in 1..Len(wire') : wire'[i] = wire[i + 1] /\ i + 1 \in 1..Len(wire)
        /\ \A i \in 1..Len(wire) : i # 1 => i - 1 \in 1..Len(wire') /\ wire[i] = wire'[i - 1]
    BY <1>2, <2>1, WireTail
  <2>3. Head(wire).task = sel /\ sel \in Tasks /\ sel \in following
    BY <1>2, <2>2 DEF OnTopic, Frame
  <2>4. \A i \in 1..Len(wire') : /\ wire'[i].task = sel
                                 /\ wire'[i].kind = "event" => wire'[i].seq \in 1..Rows(sel)
    BY <1>2, <2>2 DEF OnTopic
  <2> QED BY <2>1, <2>2, <2>3, <2>4
<1>8. CASE LiveEvent
  <2> DEFINE k == Head(wire).seq
  <2>1. /\ shown' = Merged(shown, {<<sel, k>>}) /\ wire[1] = Head(wire) /\ Head(wire).kind = "event"
        /\ UNCHANGED <<sel, loads, link, asked, following, current>>
    BY <1>7, <1>8 DEF LiveEvent
  <2>2. k \in 1..Rows(sel) BY <1>2, <1>7, <1>8, <2>1 DEF OnTopic
  <2>3. k \in Nat /\ k <= Rows(sel)
    <3>1. rows[sel] \in Seq(Statuses) BY <1>7, <1>8 DEF LogInv, LogType
    <3>2. Rows(sel) \in Nat BY <3>1 DEF Rows
    <3> HIDE DEF k
    <3> QED BY <2>2, <3>2
  <2>4. <<sel, k>> \in shown'
    <3>1. CASE \E h \in shown : h[2] = k
      <4>1. PICK h \in shown : h[2] = k BY <3>1
      <4>2. h[1] = sel /\ h \in Tasks \X Nat BY <1>2 DEF OnTopic, OnlyTheSelectedTask
      <4>3. h = <<sel, k>> BY <4>1, <4>2
      <4> QED BY <2>1, <4>3 DEF Merged
    <3>2. CASE \A h \in shown : h[2] # k BY <2>1, <3>2 DEF Merged
    <3> QED BY <3>1, <3>2
  <2>5. \A e \in shown' : e \in shown \/ e = <<sel, k>> BY <2>1 DEF Merged
  <2>6. shown \subseteq shown' BY <2>1 DEF Merged
  <2>7. \A i \in 1..Len(wire) : wire[i].kind = "event" /\ i = 1 => wire[i].seq = k BY <2>1
  <2> HIDE DEF k
  <2>8. ASSUME NEW e \in shown' PROVE e \in Tasks \X Nat /\ e[1] = sel /\ e[2] <= Len(rows[e[1]])
    <3>1. CASE e \in shown BY <1>2, <3>1 DEF OnTopic, OnlyTheSelectedTask
    <3>2. CASE e = <<sel, k>> BY <1>7, <1>8, <2>3, <3>2 DEF Rows
    <3> QED BY <2>5, <3>1, <3>2
  <2>9. StreamType' BY <1>2, <1>7, <1>8, <2>1, <2>8 DEF StreamType
  <2>10. OnTopic' BY <1>1, <1>2, <1>7, <1>8, <2>1, <2>8 DEF OnTopic, OnlyTheSelectedTask, Rows
  <2>11. ASSUME NEW n, Found(n) PROVE Found(n)'
    <3>1. ASSUME NEW i \in 1..Len(wire), wire[i] = [kind |-> "event", task |-> sel, seq |-> n]
          PROVE  Found(n)'
      <4>1. CASE i = 1
        <5>1. n = k BY <2>7, <3>1, <4>1
        <5> QED BY <2>1, <2>4, <5>1 DEF Found
      <4>2. CASE i # 1 BY <1>7, <1>8, <2>1, <3>1, <4>2 DEF Found
      <4> QED BY <4>1, <4>2
    <3>2. CASE ~\E i \in 1..Len(wire) : wire[i] = [kind |-> "event", task |-> sel, seq |-> n]
      BY <1>1, <2>1, <2>6, <2>11, <3>2 DEF Found
    <3> QED BY <3>1, <3>2
  <2>12. NoGap' BY <1>1, <1>2, <2>1, <2>11 DEF NoGap, Rows
  <2> QED BY <2>9, <2>10, <2>12 DEF PageInv
<1>9. CASE Confirmed
  <2> DEFINE r == NewLoad(sel, FALSE)
  <2>1. /\ loads' = loads \cup {r} /\ current' = TRUE
        /\ UNCHANGED <<sel, shown, link, asked, following>>
    BY <1>9 DEF Confirmed, Refill
  <2>2. r \in Load /\ r.live /\ r.task = sel /\ r.got = Unread
    BY <1>7, <1>9 DEF NewLoad, Load, Unread
  <2> HIDE DEF r
  <2>3. StreamType' BY <1>2, <1>7, <1>9, <2>1, <2>2 DEF StreamType
  <2>4. OnTopic' BY <1>1, <1>2, <1>7, <1>9, <2>1, <2>2 DEF OnTopic, OnlyTheSelectedTask, Rows
  <2>5. \A n \in 1..Rows(sel) : Found(n)' BY <2>1, <2>2 DEF Found
  <2>6. NoGap' BY <1>1, <1>7, <1>9, <2>1, <2>5 DEF NoGap, Rows
  <2> QED BY <2>3, <2>4, <2>6 DEF PageInv
<1> QED BY <1>3, <1>4, <1>5, <1>6, <1>8, <1>9
-----------------------------------------------------------------------------
(* The two together.                                                        *)

\* What the page does leaves the log alone.
LEMMA BrowsingKeepsBoth ==
    ASSUME LogInv, PageInv,
           Follow \/ Stumble \/ \E t \in Tasks \cup {NoTask} : Select(t)
    PROVE  LogInv' /\ PageInv'
<1>1. left \in Budget BY DEF LogInv, LogType
<1>2. LogInv'
  <2>1. CASE Follow
    <3>1. UNCHANGED logVars
      BY <2>1 DEF Follow, ReadHistory, LandHistory, Open, Authorise, LiveEvent, Confirmed, Reconnect
    <3>2. UNCHANGED logButBudget /\ left' \in Budget BY <1>1, <3>1 DEF logVars, logButBudget
    <3> QED BY <3>2, LogRests
  <2>2. CASE Stumble
    <3>1. UNCHANGED logButBudget /\ Fault BY <2>2 DEF Stumble, Drop, FailHistory
    <3>2. left' \in Budget BY <1>1, <3>1, Spends
    <3> QED BY <3>1, <3>2, LogRests
  <2>3. CASE \E t \in Tasks \cup {NoTask} : Select(t)
    <3>1. UNCHANGED logButBudget /\ left.clicks > 0 /\ left' = [left EXCEPT !.clicks = @ - 1]
      BY <2>3 DEF Select
    <3>2. left' \in Budget BY <1>1, <3>1, Spends
    <3> QED BY <3>1, <3>2, LogRests
  <2> QED BY <2>1, <2>2, <2>3
<1>3. PageInv'
  <2>1. CASE \E l \in loads : ReadHistory(l) BY <2>1, ReadingKeepsPage
  <2>2. CASE \E l \in loads : LandHistory(l) BY <2>2, LandingKeepsPage
  <2>3. CASE \E l \in loads : FailHistory(l) BY <2>3, FailingKeepsPage
  <2>4. CASE Open \/ (\E t \in Tasks : Authorise(t)) \/ LiveEvent \/ Confirmed \/ Reconnect \/ Drop
    BY <2>4, SocketKeepsPage
  <2>5. CASE \E t \in Tasks \cup {NoTask} : Select(t) BY <2>5, SelectKeepsPage
  <2> QED BY <2>1, <2>2, <2>3, <2>4, <2>5 DEF Follow, Stumble
<1> QED BY <1>2, <1>3

\* What the office does leaves the log and the page alone.
LEMMA OfficeKeepsBoth ==
    ASSUME LogInv, PageInv, UNCHANGED streamVars, OpenOffice \/ Look \/ Work \/ Upset
    PROVE  LogInv' /\ PageInv'
<1>1. left \in Budget BY DEF LogInv, LogType
<1>2. UNCHANGED logButBudget /\ left' \in Budget
  <2>1. CASE OpenOffice \/ Look BY <1>1, <2>1, Spends DEF OpenOffice, Look, Looks
  <2>2. CASE Work
    <3>1. UNCHANGED logVars
      BY <2>2 DEF Work, Resync, OfficeOpen, Feed, Arrive, ReconnectOffice, ReadBoard, Land, Allow
    <3> QED BY <1>1, <3>1 DEF logVars, logButBudget
  <2>3. CASE Upset
    <3>1. UNCHANGED logButBudget /\ Fault BY <2>3 DEF Upset, DropOffice, FailSnapshot
    <3> QED BY <1>1, <3>1, Spends
  <2> QED BY <2>1, <2>2, <2>3
<1>3. LogInv' BY <1>2, LogRests
<1>4. UNCHANGED <<rows, pub, unsent>> BY <1>2 DEF logButBudget
<1>5. StreamType' /\ OnTopic' BY <1>4 DEF PageInv, StreamType, OnTopic, OnlyTheSelectedTask, Rows, streamVars
<1>6. NoGap' BY <1>4 DEF PageInv, NoGap, Found, Rows, streamVars
<1> QED BY <1>3, <1>5, <1>6 DEF PageInv

LEMMA StartsRight == Init => LogInv /\ PageInv
<1> SUFFICES ASSUME Init PROVE LogInv /\ PageInv
  OBVIOUS
<1>1. LogType
  <2>1. status \in [Tasks -> Statuses] /\ pub \in [Publishers -> Publication]
        /\ unsent \subseteq Tasks \X Nat /\ left \in Budget
    BY RestingType, LogAssumption DEF Init, LogInit, Statuses
  <2>2. ASSUME NEW t \in Tasks PROVE [n \in 1..Written[t] |-> 0] \in Seq(Statuses)
    <3>1. Written[t] \in Nat /\ 0 \in Statuses BY LogAssumption DEF Statuses
    <3> QED BY <3>1
  <2>3. rows \in [Tasks -> Seq(Statuses)] BY <2>2 DEF Init, LogInit
  <2> QED BY <2>1, <2>3 DEF LogType
<1>2. \A p \in Publishers : Honest(p)
  BY RestingType DEF Init, LogInit, Honest
<1>3. <<>> \in Seq(Frame) OBVIOUS
<1>4. StreamType BY <1>3 DEF Init, StreamInit, StreamType
<1>5. OnTopic BY DEF Init, StreamInit, OnTopic, OnlyTheSelectedTask
<1>6. NoGap BY DEF Init, StreamInit, NoGap
<1> QED BY <1>1, <1>2, <1>4, <1>5, <1>6 DEF LogInv, PageInv

LEMMA StepKeeps == LogInv /\ PageInv /\ [Next]_vars => LogInv' /\ PageInv'
<1> SUFFICES ASSUME LogInv, PageInv, [Next]_vars PROVE LogInv' /\ PageInv'
  OBVIOUS
<1>1. ASSUME NEW p \in Publishers, Log(p) PROVE LogInv' /\ PageInv'
  <2>1. UNCHANGED streamVars BY <1>1 DEF Log
  <2>2. (\E t \in Tasks : Move(p, t) \/ Tell(p, t)) \/ Number(p) \/ Insert(p) \/ Retry(p)
    BY <1>1 DEF Log
  <2> QED BY <2>1, <2>2, LogStays, WritingKeepsPage
<1>2. ASSUME NEW p \in Publishers, Publish(p) PROVE LogInv' /\ PageInv'
  BY <1>2, LogStays, PublishKeepsPage DEF Publish
<1>3. ASSUME NEW p \in Publishers, LosePublication(p) PROVE LogInv' /\ PageInv'
  BY <1>3, LogStays, LosingKeepsPage DEF LosePublication
<1>4. ASSUME NEW p \in Publishers, FailPublisher(p) PROVE LogInv' /\ PageInv'
  BY <1>4, LogStays, WritingKeepsPage DEF FailPublisher
<1>5. CASE PageStep BY <1>5, BrowsingKeepsBoth DEF PageStep
<1>6. CASE OfficeStep BY <1>6, OfficeKeepsBoth DEF OfficeStep
<1>7. CASE UNCHANGED vars
  <2>1. UNCHANGED <<status, rows, unsent, pub, left>> /\ UNCHANGED streamVars
    BY <1>7 DEF vars, logVars
  <2>2. left' \in Budget BY <2>1 DEF LogInv, LogType
  <2>3. LogInv' BY <2>1, <2>2, LogRests DEF logButBudget
  <2>4. StreamType' /\ OnTopic' BY <2>1 DEF PageInv, StreamType, OnTopic, OnlyTheSelectedTask, Rows, streamVars
  <2>5. NoGap' BY <2>1 DEF PageInv, NoGap, Found, Rows, streamVars
  <2> QED BY <2>3, <2>4, <2>5 DEF PageInv
<1> QED BY <1>1, <1>2, <1>3, <1>4, <1>5, <1>6, <1>7 DEF Next

\* The log's invariant and the page's hold always.
THEOREM Followed == Spec => [](LogInv /\ PageInv)
<1>1. Init => LogInv /\ PageInv BY StartsRight
<1>2. LogInv /\ PageInv /\ [Next]_vars => (LogInv /\ PageInv)' BY StepKeeps
<1> QED BY <1>1, <1>2, PTL DEF Spec

\* However many publishers write at once, one that gives up its event after a collision
\* (withSequenceRetry's last attempt) met as many events of its task as it has attempts.
THEOREM GivesUpUnderLoad == Spec => []GivesUpOnlyUnderLoad
<1>1. ASSUME LogInv PROVE GivesUpOnlyUnderLoad
  <2> SUFFICES ASSUME NEW p \in Publishers, pub[p].pc = "failed"
               PROVE  Len(rows[pub[p].task]) - pub[p].since >= Attempts
    BY DEF GivesUpOnlyUnderLoad
  <2>1. pub[p] \in Publication /\ Honest(p) BY <1>1 DEF LogInv, LogType
  <2>2. pub[p].task \in Tasks /\ pub[p].since \in Nat /\ pub[p].tries \in Nat
    BY <2>1 DEF Publication
  <2>3. rows[pub[p].task] \in Seq(Statuses) BY <1>1, <2>2 DEF LogInv, LogType
  <2>4. Len(rows[pub[p].task]) \in Nat BY <2>3
  <2> QED BY <2>1, <2>2, <2>4, LogAssumption DEF Honest, Rows
<1>2. LogInv /\ PageInv => GivesUpOnlyUnderLoad BY <1>1
<1> QED BY <1>2, Followed, PTL

\* Whatever requests, answers and frames are under way when the user turns to another
\* task, the page shows events of the selected one only (useTaskStream's cleanup).
THEOREM SelectedTaskOnly == Spec => []OnlyTheSelectedTask
<1>1. LogInv /\ PageInv => OnlyTheSelectedTask BY DEF PageInv, OnTopic
<1> QED BY <1>1, Followed, PTL

\* A confirmed page with nothing under way to it shows every row of its task whose
\* publication reached Redis: the second reading closes the gap between the first one and
\* the subscription (useTaskStream's onmessage, TaskEventPublisher.publish).
THEOREM NothingLost == Spec => []NothingFallsBetween
<1>1. ASSUME LogInv, PageInv, current, wire = <<>>, \A l \in loads : ~l.live,
             NEW n \in Missing
      PROVE  n \in OnTheirWay(sel) \cup Unannounced(sel)
  <2>1. n \in 1..Rows(sel) /\ <<sel, n>> \notin shown BY <1>1 DEF Missing, Rows
  <2>2. Found(n) BY <1>1, <2>1 DEF PageInv, NoGap
  <2>3. ~\E i \in 1..Len(wire) : wire[i] = [kind |-> "event", task |-> sel, seq |-> n]
    BY <1>1
  <2>4. ~\E l \in loads : l.live /\ (l.got = Unread \/ n <= l.got) BY <1>1
  <2>5. CASE <<sel, n>> \in unsent BY <2>1, <2>5 DEF Unannounced, Rows
  <2>6. CASE \E p \in Publishers : pub[p].pc = "publish" /\ pub[p].task = sel /\ pub[p].number = n
    BY <2>6 DEF OnTheirWay
  <2> QED BY <2>1, <2>2, <2>3, <2>4, <2>5, <2>6 DEF Found
<1>2. LogInv /\ PageInv => NothingFallsBetween BY <1>1 DEF NothingFallsBetween
<1> QED BY <1>2, Followed, PTL
=============================================================================
