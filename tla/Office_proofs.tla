---------------------------- MODULE Office_proofs ----------------------------
(***************************************************************************)
(* The theorem about the office of TaskEvents: whatever order frames and   *)
(* snapshots come in, an office that has heard everything shows what the   *)
(* database holds once nothing is under way.                               *)
(***************************************************************************)
EXTENDS Events_proofs

Snapshot == [pc: {"idle", "sent", "back"}, cards: [Tasks -> Statuses], fresh: BOOLEAN]

\* What will make the office read the board again, or has: an event that is being
\* published or has reached the gateway or the wire, the timer, a request.
Heading ==
    \/ \E p \in Publishers : pub[p].pc \notin {"idle", "failed"}
    \/ checking # {} \/ frames # <<>> \/ timer
Asking == \E f \in Fetches : fetch[f].pc = "sent"
Knows == \E f \in Fetches : fetch[f].pc = "back" /\ fetch[f].fresh /\ fetch[f].cards = status
Coming == Heading \/ Asking \/ Knows

\* A board read is one the tasks have been at: statuses only go forward.
Behind == \A f \in Fetches : fetch[f].pc = "back" =>
              \A t \in Tasks : fetch[f].cards[t] <= status[t]

\* A board that is old, shown or about to be, has a newer one coming, unless it is known
\* that it may not.
OfficeInv ==
    /\ OfficeType /\ Behind
    /\ ~blind => board = status \/ Coming
    /\ \A f \in Fetches : fetch[f].pc = "back" /\ fetch[f].fresh =>
           fetch[f].cards = status \/ Coming

LEMMA FetchType ==
    ASSUME OfficeInv
    PROVE  fetch \in [Fetches -> Snapshot]
BY DEF OfficeInv, OfficeType, Snapshot

LEMMA IdleType == Idle \in Snapshot /\ Idle.pc = "idle"
BY LogAssumption DEF Idle, Snapshot, Statuses

\* A step after which a newer board is coming.
LEMMA ComingIsEnough ==
    ASSUME OfficeType', Behind', Coming'
    PROVE  OfficeInv'
BY DEF OfficeInv

\* A step after which the office is known to have missed something.
LEMMA BlindIsEnough ==
    ASSUME OfficeType', Behind', blind', \A f \in Fetches : ~fetch'[f].fresh
    PROVE  OfficeInv'
BY DEF OfficeInv

\* A step that changes none of the boards.
LEMMA NothingNew ==
    ASSUME OfficeInv, OfficeType', UNCHANGED <<status, fetch, board, blind>>, Heading => Heading'
    PROVE  OfficeInv'
BY DEF OfficeInv, Behind, Coming, Asking, Knows

\* The budget and the page's variables are no part of it.
LEMMA OfficeRests ==
    ASSUME OfficeInv, UNCHANGED officeVars, UNCHANGED <<status, pub>>
    PROVE  OfficeInv'
<1>1. OfficeType' BY DEF OfficeInv, OfficeType, officeVars
<1>2. Heading => Heading' BY DEF Heading, officeVars
<1> QED BY <1>1, <1>2, NothingNew DEF officeVars

\* A publisher at work: its event is still to come.
LEMMA WritingKeepsOffice ==
    ASSUME LogInv, OfficeInv, UNCHANGED officeVars, NEW p \in Publishers,
           (\E t \in Tasks : Move(p, t) \/ Tell(p, t)) \/ Number(p) \/ Insert(p) \/ Retry(p)
    PROVE  OfficeInv'
<1>1. /\ status \in [Tasks -> Statuses] /\ pub \in [Publishers -> Publication]
      /\ pub[p] \in Publication /\ fetch \in [Fetches -> Snapshot]
  BY FetchType DEF LogInv, LogType
<1>2. OfficeType' BY DEF OfficeInv, OfficeType, officeVars
<1>3. pub'[p].pc \in {"number", "insert", "publish"}
  <2>1. CASE \E t \in Tasks : Move(p, t) \/ Tell(p, t)
    BY <1>1, <2>1 DEF Move, Tell, Starts
  <2>2. CASE Number(p) \/ Insert(p) \/ Retry(p)
    BY <1>1, <2>2 DEF Number, Insert, Retry, AfterCollision, Publication
  <2> QED BY <2>1, <2>2
<1>4. Coming' BY <1>3 DEF Coming, Heading
<1>5. \A t \in Tasks : status[t] \in Nat /\ status'[t] \in Nat /\ status'[t] >= status[t]
  <2>1. \A t \in Tasks : status[t] \in Nat /\ status[t] <= Last BY <1>1, LogAssumption DEF Statuses
  <2>2. CASE \E t \in Tasks : Move(p, t)
    <3>1. PICK k \in Tasks : Move(p, k) BY <2>2
    <3>2. PICK s \in {status[k] + 1, Last} : status' = [status EXCEPT ![k] = s]
      BY <3>1 DEF Move
    <3>3. s \in Nat /\ s >= status[k] BY <2>1, <3>2, LogAssumption
    <3> QED BY <1>1, <2>1, <3>2, <3>3
  <2>3. CASE ~\E t \in Tasks : Move(p, t)
    BY <2>1, <2>3 DEF Tell, Number, Insert, Retry
  <2> QED BY <2>2, <2>3
<1>6. Behind'
  <2> SUFFICES ASSUME NEW f \in Fetches, fetch[f].pc = "back", NEW t \in Tasks
               PROVE  fetch[f].cards[t] <= status'[t]
    BY DEF Behind, officeVars
  <2>1. fetch[f].cards[t] <= status[t] /\ fetch[f].cards[t] \in Nat
    <3>1. fetch[f] \in Snapshot BY <1>1
    <3> QED BY <3>1, LogAssumption DEF Snapshot, Statuses, OfficeInv, Behind
  <2> QED BY <1>5, <2>1
<1> QED BY <1>2, <1>4, <1>6, ComingIsEnough

\* What happens unseen.
LEMMA UnseenKeepsOffice ==
    ASSUME OfficeInv, Unseen, UNCHANGED <<status, loaded, board, seqs, needsResync, timer>>,
           connection' \in {"connecting", "live", "reconnecting", "synchronizing"},
           socket' \in {"none", "connecting", "open", "lost"}, feed' \in BOOLEAN,
           checking' \subseteq Event, frames' \in Seq(Event)
    PROVE  OfficeInv'
<1>1. ASSUME NEW f \in Fetches
      PROVE  /\ fetch'[f] \in Snapshot /\ ~fetch'[f].fresh
             /\ fetch'[f].pc = fetch[f].pc /\ fetch'[f].cards = fetch[f].cards
  <2>1. fetch[f] \in Snapshot BY FetchType
  <2> QED BY <2>1 DEF Unseen, Snapshot
<1>2. fetch' \in [Fetches -> Snapshot] /\ blind' = TRUE BY <1>1 DEF Unseen
<1>3. OfficeType' BY <1>2 DEF OfficeInv, OfficeType, Snapshot
<1>4. Behind' BY <1>1 DEF OfficeInv, Behind
<1> QED BY <1>1, <1>2, <1>3, <1>4, BlindIsEnough

\* A publication reaches the gateway, and the office if it listens.
LEMMA PublishKeepsOffice ==
    ASSUME LogInv, OfficeInv, NEW p \in Publishers, Announce(p), Overheard(Announced(p))
    PROVE  OfficeInv'
<1> DEFINE e == Announced(p)
<1>1. e \in Event
  <2>1. pub[p] \in Publication BY DEF LogInv, LogType
  <2> QED BY <2>1 DEF Publication, Announced, Event
<1> HIDE DEF e
<1>2. UNCHANGED <<status, loaded, board, seqs, connection, needsResync, timer, socket, feed>>
  BY DEF Announce, Overheard
<1>3. frames \in Seq(Event) /\ checking \subseteq Event BY DEF OfficeInv, OfficeType
<1>4. CASE feed
  <2>1. UNCHANGED <<blind, fetch>>
        /\ \/ frames' = Append(frames, e) /\ UNCHANGED checking
           \/ checking' = checking \cup {e} /\ UNCHANGED frames
    BY <1>4 DEF Overheard, Seen, e
  <2>2. frames' \in Seq(Event) /\ checking' \subseteq Event /\ (frames' # <<>> \/ checking' # {})
    <3>1. CASE frames' = Append(frames, e) /\ UNCHANGED checking BY <1>1, <1>3, <3>1
    <3>2. CASE checking' = checking \cup {e} /\ UNCHANGED frames BY <1>1, <1>3, <3>2
    <3> QED BY <2>1, <3>1, <3>2
  <2>3. OfficeType' BY <1>2, <2>1, <2>2 DEF OfficeInv, OfficeType
  <2>4. Behind' BY <1>2, <2>1 DEF OfficeInv, Behind
  <2>5. Coming' BY <2>2 DEF Coming, Heading
  <2> QED BY <2>3, <2>4, <2>5, ComingIsEnough
<1>5. CASE ~feed
  <2>1. Unseen /\ UNCHANGED <<frames, checking>> BY <1>5 DEF Overheard
  <2>2. /\ connection' \in {"connecting", "live", "reconnecting", "synchronizing"}
        /\ socket' \in {"none", "connecting", "open", "lost"} /\ feed' \in BOOLEAN
    BY <1>2 DEF OfficeInv, OfficeType
  <2> QED BY <1>2, <1>3, <2>1, <2>2, UnseenKeepsOffice
<1> QED BY <1>4, <1>5

\* A publication that does not come is unseen too.
LEMMA SilenceKeepsOffice ==
    ASSUME OfficeInv, UNCHANGED status, NotHeard
    PROVE  OfficeInv'
<1>1. /\ connection' \in {"connecting", "live", "reconnecting", "synchronizing"}
      /\ socket' \in {"none", "connecting", "open", "lost"} /\ feed' \in BOOLEAN
      /\ checking' \subseteq Event /\ frames' \in Seq(Event)
  BY DEF NotHeard, OfficeInv, OfficeType
<1>2. Unseen /\ UNCHANGED <<loaded, board, seqs, needsResync, timer>> BY DEF NotHeard
<1> QED BY <1>1, <1>2, UnseenKeepsOffice

\* A board is asked for.
LEMMA AskingKeepsOffice ==
    ASSUME OfficeInv, NEW f \in Fetches, Asks(f),
           UNCHANGED <<status, loaded, board, seqs, connection, needsResync, feed, checking,
                       frames, blind>>,
           timer' \in BOOLEAN, socket' \in {"none", "connecting", "open", "lost"}
    PROVE  OfficeInv'
<1> DEFINE x == [Idle EXCEPT !.pc = "sent"]
<1>1. x \in Snapshot /\ x.pc = "sent" BY IdleType DEF Snapshot
<1>2. fetch' = [fetch EXCEPT ![f] = x] /\ fetch \in [Fetches -> Snapshot] BY FetchType DEF Asks
<1> HIDE DEF x
<1>3. fetch' \in [Fetches -> Snapshot] /\ fetch'[f].pc = "sent" BY <1>1, <1>2
<1>4. OfficeType' BY <1>3 DEF OfficeInv, OfficeType, Snapshot
<1>5. Behind'
  <2> SUFFICES ASSUME NEW g \in Fetches, fetch'[g].pc = "back", NEW t \in Tasks
               PROVE  fetch'[g].cards[t] <= status[t]
    BY DEF Behind
  <2>1. g # f BY <1>3
  <2>2. fetch'[g] = fetch[g] BY <1>2, <2>1
  <2> QED BY <2>2 DEF OfficeInv, Behind
<1>6. Coming' BY <1>3 DEF Coming, Asking
<1> QED BY <1>4, <1>5, <1>6, ComingIsEnough

\* A board is read: it is the database's.
LEMMA ReadingKeepsOffice ==
    ASSUME LogInv, OfficeInv, NEW f \in Fetches, ReadBoard(f)
    PROVE  OfficeInv'
<1> DEFINE x == [pc |-> "back", cards |-> status, fresh |-> TRUE]
<1>1. status \in [Tasks -> Statuses] /\ \A t \in Tasks : status[t] \in Nat
  BY LogAssumption DEF LogInv, LogType, Statuses
<1>2. x \in Snapshot /\ x.pc = "back" /\ x.cards = status /\ x.fresh BY <1>1 DEF Snapshot
<1>3. fetch' = [fetch EXCEPT ![f] = x] /\ fetch \in [Fetches -> Snapshot] BY FetchType DEF ReadBoard
<1>4. UNCHANGED <<status, loaded, board, seqs, connection, needsResync, timer, socket, feed,
                  checking, frames, blind>>
  BY DEF ReadBoard, logVars
<1> HIDE DEF x
<1>5. fetch' \in [Fetches -> Snapshot] /\ fetch'[f] = x BY <1>2, <1>3
<1>6. OfficeType' BY <1>4, <1>5 DEF OfficeInv, OfficeType, Snapshot
<1>7. Behind'
  <2> SUFFICES ASSUME NEW g \in Fetches, fetch'[g].pc = "back", NEW t \in Tasks
               PROVE  fetch'[g].cards[t] <= status[t]
    BY <1>4 DEF Behind
  <2>1. CASE g = f BY <1>1, <1>2, <1>5, <2>1
  <2>2. CASE g # f
    <3>1. fetch'[g] = fetch[g] BY <1>3, <2>2
    <3> QED BY <3>1 DEF OfficeInv, Behind
  <2> QED BY <2>1, <2>2
<1>8. Coming' BY <1>2, <1>4, <1>5 DEF Coming, Knows
<1> QED BY <1>6, <1>7, <1>8, ComingIsEnough

\* A board that is nowhere ahead of another and is not older than it is that one.
LEMMA NotOlder ==
    ASSUME NEW c \in [Tasks -> Statuses], NEW d \in [Tasks -> Statuses],
           \A t \in Tasks : c[t] <= d[t]
    PROVE  /\ ~Older(c, d) => c = d
           /\ Older(d, c) => FALSE
<1>1. ~Older(c, d) => c = d BY DEF Older
<1>2. ASSUME Older(d, c) PROVE FALSE
  <2>1. ASSUME NEW t \in Tasks PROVE c[t] = d[t]
    <3>1. c[t] \in Statuses /\ d[t] \in Statuses OBVIOUS
    <3>2. c[t] \in Nat /\ d[t] \in Nat BY <3>1 DEF Statuses
    <3>3. d[t] <= c[t] BY <1>2 DEF Older
    <3> QED BY <3>2, <3>3
  <2>3. c = d BY <2>1
  <2> QED BY <1>2, <2>3 DEF Older
<1> QED BY <1>1, <1>2

\* A snapshot lands, in whatever order.
LEMMA LandingKeepsOffice ==
    ASSUME LogInv, OfficeInv, NEW f \in Fetches, Land(f)
    PROVE  OfficeInv'
<1>1. /\ fetch \in [Fetches -> Snapshot] /\ status \in [Tasks -> Statuses]
      /\ fetch[f] \in Snapshot /\ fetch[f].cards \in [Tasks -> Statuses] /\ fetch[f].fresh \in BOOLEAN
  BY FetchType DEF LogInv, LogType, Snapshot
<1>2. /\ UNCHANGED <<status, pub, seqs, timer, socket, feed, checking, frames>>
      /\ board' = fetch[f].cards /\ blind' = ~fetch[f].fresh /\ loaded' = TRUE
      /\ needsResync' = FALSE /\ Synchronised /\ fetch[f].pc = "back"
  BY DEF Land, logVars
<1>3. Idle \in Snapshot /\ Idle.pc = "idle" BY IdleType
<1>4. ASSUME NEW g \in Fetches, g # f
      PROVE  /\ fetch'[g] \in Snapshot
             /\ fetch'[g].pc = fetch[g].pc /\ fetch'[g].cards = fetch[g].cards
             /\ fetch'[g].fresh = (fetch[g].fresh /\ ~Older(fetch[g].cards, fetch[f].cards))
  <2>1. fetch[g] \in Snapshot BY <1>1
  <2>2. fetch'[g] = [fetch[g] EXCEPT !.fresh = @ /\ ~Older(fetch[g].cards, fetch[f].cards)]
    BY <1>4 DEF Land
  <2>3. Older(fetch[g].cards, fetch[f].cards) \in BOOLEAN BY DEF Older
  <2> QED BY <2>1, <2>2, <2>3 DEF Snapshot
<1>5. fetch'[f] = Idle BY DEF Land
<1>6. fetch' \in [Fetches -> Snapshot]
  <2>1. \A g \in Fetches : fetch'[g] \in Snapshot BY <1>3, <1>4, <1>5
  <2> QED BY <2>1 DEF Land
<1>7. OfficeType' BY <1>1, <1>2, <1>6 DEF OfficeInv, OfficeType, Snapshot, Synchronised
<1>8. Behind'
  <2> SUFFICES ASSUME NEW g \in Fetches, fetch'[g].pc = "back", NEW t \in Tasks
               PROVE  fetch'[g].cards[t] <= status[t]
    BY <1>2 DEF Behind
  <2>1. g # f BY <1>3, <1>5
  <2> QED BY <1>4, <2>1 DEF OfficeInv, Behind
<1>9. CASE fetch[f].cards = status
  <2>1. ASSUME NEW g \in Fetches, fetch'[g].pc = "back", fetch'[g].fresh
        PROVE  fetch'[g].cards = status'
    <3>1. g # f BY <1>3, <1>5, <2>1
    <3>2. fetch[g].pc = "back" /\ ~Older(fetch[g].cards, status) BY <1>4, <1>9, <2>1, <3>1
    <3>3. fetch[g].cards \in [Tasks -> Statuses] BY <1>1 DEF Snapshot
    <3>4. \A t \in Tasks : fetch[g].cards[t] <= status[t] BY <3>2 DEF OfficeInv, Behind
    <3>5. fetch[g].cards = status BY <1>1, <3>2, <3>3, <3>4, NotOlder
    <3> QED BY <1>2, <1>4, <3>1, <3>5
  <2> QED BY <1>2, <1>7, <1>8, <1>9, <2>1 DEF OfficeInv
<1>10. CASE fetch[f].cards # status
  <2>1. Heading => Heading' BY <1>2 DEF Heading
  <2>2. Asking => Asking' BY <1>2, <1>4 DEF Asking
  <2>3. ASSUME Knows PROVE Knows'
    <3>1. PICK g \in Fetches : fetch[g].pc = "back" /\ fetch[g].fresh /\ fetch[g].cards = status
      BY <2>3 DEF Knows
    <3>2. \A t \in Tasks : fetch[f].cards[t] <= status[t] BY <1>2 DEF OfficeInv, Behind
    <3>3. ~Older(status, fetch[f].cards) BY <1>1, <3>2, NotOlder
    <3>4. g # f BY <1>10, <3>1
    <3> QED BY <1>2, <1>4, <3>1, <3>3, <3>4 DEF Knows
  <2>4. Coming => Coming' BY <2>1, <2>2, <2>3 DEF Coming
  <2>5. ~blind' => board' = status' \/ Coming' BY <1>2, <1>10, <2>4 DEF OfficeInv
  <2>6. ASSUME NEW g \in Fetches, fetch'[g].pc = "back", fetch'[g].fresh
        PROVE  fetch'[g].cards = status' \/ Coming'
    <3>1. g # f BY <1>3, <1>5, <2>6
    <3>2. fetch[g].pc = "back" /\ fetch[g].fresh BY <1>4, <2>6, <3>1
    <3> QED BY <1>2, <1>4, <2>4, <3>1, <3>2 DEF OfficeInv
  <2> QED BY <1>7, <1>8, <2>5, <2>6 DEF OfficeInv
<1> QED BY <1>9, <1>10

\* A snapshot that fails is never asked for again, and the office may have needed it.
LEMMA FailingKeepsOffice ==
    ASSUME OfficeInv, NEW f \in Fetches, FailSnapshot(f)
    PROVE  OfficeInv'
<1>1. UNCHANGED <<status, loaded, board, seqs, needsResync, timer, socket, feed, checking, frames>>
      /\ Synchronised /\ blind' = TRUE
  BY DEF FailSnapshot, logButBudget
<1>2. ASSUME NEW g \in Fetches
      PROVE  /\ fetch'[g] \in Snapshot
             /\ fetch'[g].pc = "back" =>
                    fetch[g].pc = "back" /\ fetch'[g].cards = fetch[g].cards
  <2>1. fetch[g] \in Snapshot BY FetchType
  <2>2. CASE g = f BY <2>2, LogAssumption DEF FailSnapshot, Idle, Snapshot, Statuses
  <2>3. CASE g # f
    <3>1. fetch'[g] = [fetch[g] EXCEPT !.fresh = FALSE] BY <2>3 DEF FailSnapshot
    <3> QED BY <2>1, <3>1 DEF Snapshot
  <2> QED BY <2>2, <2>3
<1>3. fetch' \in [Fetches -> Snapshot] BY <1>2 DEF FailSnapshot
<1>4. OfficeType' BY <1>1, <1>3 DEF OfficeInv, OfficeType, Snapshot, Synchronised
<1>5. Behind' BY <1>1, <1>2 DEF OfficeInv, Behind
<1>6. \A g \in Fetches : fetch'[g].fresh /\ fetch'[g].pc = "back" => FALSE
  <2> SUFFICES ASSUME NEW g \in Fetches, fetch'[g].fresh, fetch'[g].pc = "back" PROVE FALSE
    OBVIOUS
  <2>1. fetch[g] \in Snapshot BY FetchType
  <2>2. CASE g = f BY <2>2 DEF FailSnapshot, Idle
  <2>3. CASE g # f
    <3>1. fetch'[g] = [fetch[g] EXCEPT !.fresh = FALSE] BY <2>3 DEF FailSnapshot
    <3> QED BY <2>1, <3>1 DEF Snapshot
  <2> QED BY <2>2, <2>3
<1> QED BY <1>1, <1>4, <1>5, <1>6 DEF OfficeInv
\* What the page of the office and the gateway do.
LEMMA OfficeKeepsItself ==
    ASSUME LogInv, OfficeInv, OpenOffice \/ Look \/ Work \/ Upset
    PROVE  OfficeInv'
<1>1. OfficeType BY DEF OfficeInv
<1>2. CASE OpenOffice \/ Look
  <2>1. UNCHANGED <<status, loaded, board, seqs, connection, needsResync, timer, feed, checking,
                    frames, blind>>
    BY <1>2 DEF OpenOffice, Look, logButBudget
  <2>2. timer' \in BOOLEAN /\ socket' \in {"none", "connecting", "open", "lost"}
    BY <1>1, <1>2, <2>1 DEF OpenOffice, Look, OfficeType
  <2>3. \E f \in Fetches : Asks(f) BY <1>2 DEF OpenOffice, Look
  <2> QED BY <2>1, <2>2, <2>3, AskingKeepsOffice
<1>3. CASE Resync
  <2>1. /\ UNCHANGED <<status, loaded, board, seqs, connection, needsResync, feed, checking,
                       frames, blind, socket>>
        /\ timer' = FALSE /\ \E f \in Fetches : Asks(f)
    BY <1>3 DEF Resync, logVars
  <2>2. socket' \in {"none", "connecting", "open", "lost"} BY <1>1, <2>1 DEF OfficeType
  <2> QED BY <2>1, <2>2, AskingKeepsOffice
<1>4. CASE \E f \in Fetches : ReadBoard(f) BY <1>4, ReadingKeepsOffice
<1>5. CASE \E f \in Fetches : Land(f) BY <1>5, LandingKeepsOffice
<1>6. CASE \E f \in Fetches : FailSnapshot(f) BY <1>6, FailingKeepsOffice
<1>7. CASE OfficeOpen
  <2>1. OfficeType' BY <1>1, <1>7 DEF OfficeOpen, OfficeType
  <2>2. Heading => Heading' BY <1>7 DEF OfficeOpen, Heading, logVars
  <2> QED BY <1>7, <2>1, <2>2, NothingNew DEF OfficeOpen, logVars
<1>8. CASE Feed \/ ReconnectOffice
  <2>1. OfficeType' BY <1>1, <1>8 DEF Feed, ReconnectOffice, OfficeType
  <2>2. Heading => Heading' BY <1>8 DEF Feed, ReconnectOffice, Heading, logVars
  <2> QED BY <1>8, <2>1, <2>2, NothingNew DEF Feed, ReconnectOffice, logVars
<1>9. ASSUME NEW e \in checking, Allow(e) PROVE OfficeInv'
  <2>1. e \in Event /\ frames \in Seq(Event) BY <1>1 DEF OfficeType
  <2>2. frames' = Append(frames, e) /\ checking' = checking \ {e} BY <1>9 DEF Allow
  <2>3. frames' \in Seq(Event) /\ frames' # <<>> BY <2>1, <2>2
  <2>4. OfficeType' BY <1>1, <1>9, <2>2, <2>3 DEF Allow, OfficeType
  <2>5. Heading' BY <2>3 DEF Heading
  <2> QED BY <1>9, <2>4, <2>5, NothingNew DEF Allow, logVars
<1>10. CASE Arrive
  <2> DEFINE e == Head(frames)
  <2>1. frames \in Seq(Event) /\ frames # <<>> BY <1>1, <1>10 DEF OfficeType, Arrive
  <2>2. e \in Event /\ frames' \in Seq(Event) BY <1>10, <2>1 DEF Arrive
  <2>3. e.task \in Tasks /\ e.seq \in Nat /\ e.says \in Statuses BY <2>2 DEF Event
  <2>4. /\ \/ UNCHANGED <<board, seqs, needsResync>>
           \/ /\ seqs' = [seqs EXCEPT ![e.task] = e.seq]
              /\ board' = Moved(e) /\ needsResync' = TRUE
        /\ timer' = TRUE
        /\ UNCHANGED <<loaded, connection, fetch, socket, feed, checking, blind, status, pub>>
    BY <1>10 DEF Arrive, Schedules, logVars
  <2> HIDE DEF e
  <2>5. seqs' \in [Tasks -> Nat] /\ needsResync' \in BOOLEAN
    BY <1>1, <2>3, <2>4 DEF OfficeType
  <2>6. board' \in [Tasks -> Statuses]
    <3>1. board \in [Tasks -> Statuses] BY <1>1 DEF OfficeType
    <3>2. Moved(e) \in [Tasks -> Statuses] BY <2>3, <3>1 DEF Moved
    <3> QED BY <2>4, <3>1, <3>2
  <2>7. OfficeType' BY <1>1, <2>2, <2>4, <2>5, <2>6 DEF OfficeType
  <2>8. Behind' BY <2>4 DEF OfficeInv, Behind
  <2>9. Coming' BY <2>4 DEF Coming, Heading
  <2> QED BY <2>7, <2>8, <2>9, ComingIsEnough
<1>11. CASE DropOffice
  <2>1. <<>> \in Seq(Event) OBVIOUS
  <2>2. /\ Unseen /\ UNCHANGED <<status, loaded, board, seqs, needsResync, timer>>
        /\ connection' = "reconnecting" /\ socket' = "lost" /\ feed' = FALSE
        /\ checking' = {} /\ frames' = <<>>
    BY <1>11 DEF DropOffice, logButBudget
  <2>3. /\ connection' \in {"connecting", "live", "reconnecting", "synchronizing"}
        /\ socket' \in {"none", "connecting", "open", "lost"} /\ feed' \in BOOLEAN
        /\ checking' \subseteq Event /\ frames' \in Seq(Event)
    BY <2>1, <2>2
  <2> QED BY <2>2, <2>3, UnseenKeepsOffice
<1> QED BY <1>2, <1>3, <1>4, <1>5, <1>6, <1>7, <1>8, <1>9, <1>10, <1>11 DEF Work, Upset

LEMMA OfficeStarts == Init => OfficeInv
<1> SUFFICES ASSUME Init PROVE OfficeInv
  OBVIOUS
<1>1. <<>> \in Seq(Event) /\ 0 \in Statuses /\ Last \in Statuses BY LogAssumption DEF Statuses
<1>2. fetch \in [Fetches -> Snapshot] /\ \A f \in Fetches : fetch[f].pc = "idle"
  BY IdleType DEF Init, OfficeInit
<1>3. OfficeType BY <1>1, <1>2 DEF Init, OfficeInit, OfficeType, Snapshot
<1>4. Behind BY <1>2 DEF Behind
<1>5. blind = TRUE BY DEF Init, OfficeInit
<1> QED BY <1>2, <1>3, <1>4, <1>5 DEF OfficeInv

LEMMA OfficeStepKeeps ==
    ASSUME LogInv, OfficeInv, [Next]_vars
    PROVE  OfficeInv'
<1>1. ASSUME NEW p \in Publishers, Log(p) PROVE OfficeInv'
  <2>1. UNCHANGED officeVars BY <1>1 DEF Log
  <2>2. (\E t \in Tasks : Move(p, t) \/ Tell(p, t)) \/ Number(p) \/ Insert(p) \/ Retry(p)
    BY <1>1 DEF Log
  <2> QED BY <2>1, <2>2, WritingKeepsOffice
<1>2. ASSUME NEW p \in Publishers, Publish(p) PROVE OfficeInv'
  BY <1>2, PublishKeepsOffice DEF Publish
<1>3. ASSUME NEW p \in Publishers, LosePublication(p) \/ FailPublisher(p) PROVE OfficeInv'
  BY <1>3, SilenceKeepsOffice DEF LosePublication, FailPublisher, LoseAnnouncement, GiveUp
<1>4. CASE PageStep
  <2>1. UNCHANGED officeVars BY <1>4 DEF PageStep
  <2>2. UNCHANGED <<status, pub>>
    <3>1. CASE Follow
      BY <3>1 DEF Follow, ReadHistory, LandHistory, Open, Authorise, LiveEvent, Confirmed,
                  Reconnect, logVars
    <3>2. CASE Stumble BY <3>2 DEF Stumble, Drop, FailHistory, logButBudget
    <3>3. CASE \E t \in Tasks \cup {NoTask} : Select(t) BY <3>3 DEF Select, logButBudget
    <3> QED BY <1>4, <3>1, <3>2, <3>3 DEF PageStep
  <2> QED BY <2>1, <2>2, OfficeRests
<1>5. CASE OfficeStep BY <1>5, OfficeKeepsItself DEF OfficeStep
<1>6. CASE UNCHANGED vars
  <2>1. UNCHANGED officeVars /\ UNCHANGED <<status, pub>> BY <1>6 DEF vars, logVars
  <2> QED BY <2>1, OfficeRests
<1> QED BY <1>1, <1>2, <1>3, <1>4, <1>5, <1>6 DEF Next

THEOREM Watched == Spec => [](LogInv /\ PageInv /\ OfficeInv)
<1>1. Init => OfficeInv BY OfficeStarts
<1>2. (LogInv /\ PageInv) /\ OfficeInv /\ [Next]_vars => OfficeInv' BY OfficeStepKeeps
<1>3. Spec => []OfficeInv BY <1>1, <1>2, Followed, PTL DEF Spec
<1> QED BY <1>3, Followed, PTL

\* Every variable of the log, the page and the office keeps its type.
THEOREM TypeCorrect == Spec => []TypeOK
<1>1. LogInv /\ PageInv /\ OfficeInv => TypeOK
  BY DEF LogInv, PageInv, OfficeInv, TypeOK
<1> QED BY <1>1, Watched, PTL

\* Frames may be overtaken at the gateway, snapshots in flight may land in any order, and
\* a frame may move a card back: with nothing under way and nothing missed, the office
\* still shows the board of the database (officeReducer, useOffice, AiOfficeService.board).
THEOREM OfficeCurrent == Spec => []QuietOfficeIsCurrent
<1>1. ASSUME OfficeInv, Quiet, ~blind PROVE board = status
  <2>1. ~Heading BY <1>1 DEF Quiet, Heading
  <2>2. ~Asking /\ ~Knows BY <1>1 DEF Quiet, Asking, Knows
  <2> QED BY <1>1, <2>1, <2>2 DEF OfficeInv, Coming
<1>2. LogInv /\ PageInv /\ OfficeInv => QuietOfficeIsCurrent BY <1>1 DEF QuietOfficeIsCurrent
<1> QED BY <1>2, Watched, PTL
=============================================================================
