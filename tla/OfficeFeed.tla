----------------------------- MODULE OfficeFeed -----------------------------
(***************************************************************************)
(* The AI Office: useOffice and officeReducer in the browser, the board    *)
(* query of AiOfficeService and the gateway's cross-project feed.  The     *)
(* board is read over HTTP when the page opens, a second after an event,   *)
(* and when its tab becomes visible; in between, events move the cards.    *)
(* An event whose access decision is not cached waits for two queries at   *)
(* the gateway, and may be overtaken there.                                *)
(*                                                                         *)
(* Only the cards of the board are modelled: attention, queue and activity *)
(* are replaced with it.  A user may read every project.                   *)
(***************************************************************************)
EXTENDS EventLog

CONSTANT Fetches  \* snapshots that may be under way at once

VARIABLES loaded,      \* a board has been read
          board,       \* its cards: the status shown, or Last for no card
          seqs,        \* officeReducer's sequences
          connection, needsResync,
          timer,       \* resyncTimer is set
          fetch,       \* snapshots under way
          socket,      \* the office's socket
          feed,        \* the gateway's subscriber.office
          checking,    \* events waiting for their access decision
          frames,      \* frames under way to the browser
          blind        \* something changed that no snapshot landed since can show

officeVars == <<loaded, board, seqs, connection, needsResync, timer, fetch, socket, feed,
                checking, frames, blind>>

Idle == [pc |-> "idle", cards |-> [t \in Tasks |-> 0], fresh |-> TRUE]

OfficeInit ==
    /\ loaded = FALSE /\ board = [t \in Tasks |-> Last] /\ seqs = [t \in Tasks |-> 0]
    /\ connection = "connecting" /\ needsResync = FALSE /\ timer = FALSE
    /\ fetch = [f \in Fetches |-> Idle]
    /\ socket = "none" /\ feed = FALSE /\ checking = {} /\ frames = <<>>
    /\ blind = TRUE

\* What happens unseen: snapshots read before it are not fresh.
Unseen == blind' = TRUE /\ fetch' = [f \in Fetches |-> [fetch[f] EXCEPT !.fresh = FALSE]]
Seen == UNCHANGED <<blind, fetch>>

Looks == left.looks > 0 /\ left' = [left EXCEPT !.looks = @ - 1]
Asks(f) == fetch[f].pc = "idle" /\ fetch' = [fetch EXCEPT ![f] = [Idle EXCEPT !.pc = "sent"]]

\* Both effects of the page: the first snapshot, and the socket.
OpenOffice ==
    /\ socket = "none" /\ Looks
    /\ socket' = "connecting"
    /\ \E f \in Fetches : Asks(f)
    /\ UNCHANGED <<loaded, board, seqs, connection, needsResync, timer, feed, checking,
                   frames, blind, logButBudget>>

\* The tab becomes visible.
Look ==
    /\ socket # "none" /\ Looks
    /\ \E f \in Fetches : Asks(f)
    /\ UNCHANGED <<loaded, board, seqs, connection, needsResync, timer, socket, feed,
                   checking, frames, blind, logButBudget>>

\* The resync timer runs out.
Resync ==
    /\ timer /\ timer' = FALSE
    /\ \E f \in Fetches : Asks(f)
    /\ UNCHANGED <<loaded, board, seqs, connection, needsResync, socket, feed, checking,
                   frames, blind, logVars>>

\* AiOfficeService.board: a card for every task that has not settled.
ReadBoard(f) ==
    /\ fetch[f].pc = "sent"
    /\ fetch' = [fetch EXCEPT ![f] = [pc |-> "back", cards |-> status, fresh |-> TRUE]]
    /\ UNCHANGED <<loaded, board, seqs, connection, needsResync, timer, socket, feed,
                   checking, frames, blind, logVars>>

Older(c, d) == c # d /\ \A t \in Tasks : c[t] <= d[t]
Synchronised == connection' = IF connection = "synchronizing" THEN "live" ELSE connection

\* A snapshot replaces the board.  One that was read before it and lands after it will
\* put an older board in its place.
Land(f) ==
    /\ fetch[f].pc = "back"
    /\ loaded' = TRUE /\ board' = fetch[f].cards
    /\ needsResync' = FALSE /\ Synchronised
    /\ blind' = ~fetch[f].fresh
    /\ fetch' = [g \in Fetches |->
                   IF g = f THEN Idle
                   ELSE [fetch[g] EXCEPT !.fresh = @ /\ ~Older(fetch[g].cards, fetch[f].cards)]]
    /\ UNCHANGED <<seqs, timer, socket, feed, checking, frames, logVars>>

\* The last known floor stays up, and nothing asks again.
FailSnapshot(f) ==
    /\ fetch[f].pc # "idle"
    /\ Fault
    /\ Synchronised
    /\ blind' = TRUE
    /\ fetch' = [g \in Fetches |-> IF g = f THEN Idle ELSE [fetch[g] EXCEPT !.fresh = FALSE]]
    /\ UNCHANGED <<loaded, board, seqs, needsResync, timer, socket, feed, checking, frames, logButBudget>>

\* onopen: the reducer is told, the feed asked for, and a resync scheduled when the state
\* last rendered, from before this message, wants one.
OfficeOpen ==
    /\ socket = "connecting" /\ socket' = "open"
    /\ connection' = IF connection = "connecting" THEN "live" ELSE "synchronizing"
    /\ needsResync' = (connection # "connecting")
    /\ timer' = (timer \/ needsResync)
    /\ UNCHANGED <<loaded, board, seqs, fetch, feed, checking, frames, blind, logVars>>

\* The gateway takes the socket's request for the feed.
Feed ==
    /\ socket = "open" /\ ~feed /\ feed' = TRUE
    /\ UNCHANGED <<loaded, board, seqs, connection, needsResync, timer, fetch, socket,
                   checking, frames, blind, logVars>>

\* fanOut to the feed: sent at once where the access decision is cached, else when the
\* two queries have answered.
Overheard(e) ==
    /\ IF feed THEN Seen /\ (\/ frames' = Append(frames, e) /\ UNCHANGED checking
                             \/ checking' = checking \cup {e} /\ UNCHANGED frames)
       ELSE Unseen /\ UNCHANGED <<frames, checking>>
    /\ UNCHANGED <<loaded, board, seqs, connection, needsResync, timer, socket, feed>>

\* A publication that failed, or an event its publisher gave up, tells the office nothing.
NotHeard ==
    /\ Unseen
    /\ UNCHANGED <<loaded, board, seqs, connection, needsResync, timer, socket, feed,
                   checking, frames>>

Allow(e) ==
    /\ e \in checking
    /\ checking' = checking \ {e} /\ frames' = Append(frames, e)
    /\ UNCHANGED <<loaded, board, seqs, connection, needsResync, timer, fetch, socket, feed,
                   blind, logVars>>

\* moveCard: a known card is moved, or removed when its task has settled.
Moved(e) == IF loaded /\ board[e.task] # Last THEN [board EXCEPT ![e.task] = e.says] ELSE board

\* scheduleResync
SchedulesNothing == UNCHANGED timer
Schedules == timer' = TRUE

\* A frame arrives.  The reducer drops one it has passed; a resync is scheduled anyway.
Arrive ==
    /\ frames # <<>>
    /\ LET e == Head(frames) IN
         IF e.seq <= seqs[e.task] THEN UNCHANGED <<board, seqs, needsResync>>
         ELSE /\ seqs' = [seqs EXCEPT ![e.task] = e.seq]
              /\ board' = Moved(e) /\ needsResync' = TRUE
    /\ frames' = Tail(frames) /\ Schedules
    /\ UNCHANGED <<loaded, connection, fetch, socket, feed, checking, blind, logVars>>

DropOffice ==
    /\ socket \in {"connecting", "open"}
    /\ Fault
    /\ socket' = "lost" /\ connection' = "reconnecting"
    /\ feed' = FALSE /\ frames' = <<>> /\ checking' = {}
    /\ Unseen
    /\ UNCHANGED <<loaded, board, seqs, needsResync, timer, logButBudget>>

ReconnectOffice ==
    /\ socket = "lost" /\ socket' = "connecting"
    /\ UNCHANGED <<loaded, board, seqs, connection, needsResync, timer, fetch, feed,
                   checking, frames, blind, logVars>>

Work ==
    \/ Resync \/ OfficeOpen \/ Feed \/ Arrive \/ ReconnectOffice
    \/ \E f \in Fetches : ReadBoard(f) \/ Land(f)
    \/ \E e \in checking : Allow(e)

Upset == DropOffice \/ \E f \in Fetches : FailSnapshot(f)

(* ------------------------------ properties ------------------------------ *)

OfficeType ==
    /\ loaded \in BOOLEAN /\ board \in [Tasks -> Statuses] /\ seqs \in [Tasks -> Nat]
    /\ connection \in {"connecting", "live", "reconnecting", "synchronizing"}
    /\ needsResync \in BOOLEAN /\ timer \in BOOLEAN
    /\ fetch \in [Fetches -> [pc: {"idle", "sent", "back"}, cards: [Tasks -> Statuses],
                              fresh: BOOLEAN]]
    /\ socket \in {"none", "connecting", "open", "lost"} /\ feed \in BOOLEAN
    /\ checking \subseteq Event /\ frames \in Seq(Event)
    /\ blind \in BOOLEAN

Quiet ==
    /\ \A p \in Publishers : pub[p].pc \in {"idle", "failed"}
    /\ checking = {} /\ frames = <<>> /\ ~timer
    /\ \A f \in Fetches : fetch[f].pc = "idle"

\* When nothing is under way, the office shows what the database holds, whatever order
\* frames and snapshots came in - unless something changed while it was not listening and
\* no board was read since.  `blind` says exactly when: events published without a
\* subscription or not at all, a dropped socket, a failed snapshot, or one that landed
\* after a newer one (store.ts:16-27, "a REST snapshot is the truth").
QuietOfficeIsCurrent ==
    (Quiet /\ ~blind) => board = status
=============================================================================
