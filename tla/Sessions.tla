------------------------------ MODULE Sessions ------------------------------
(***************************************************************************)
(* The sessions of one account: refresh tokens (TokenService), sign-in,    *)
(* refresh and password changes (AuthService), one-time links and mailed   *)
(* codes (UserLinksService), and a browser whose tabs share the stored     *)
(* tokens (lib/api.ts).                                                    *)
(*                                                                         *)
(* A request is served in its statements; those of several requests        *)
(* interleave as READ COMMITTED lets them: a statement sees what is        *)
(* committed when it starts, an UPDATE waits for a locked row and looks    *)
(* again.  Whoever asks knows the right password or not, has the mail or   *)
(* not: what is guessed is a choice.  Audit rows and expiry of links are   *)
(* left out; so is the idle window of the stored session.                  *)
(***************************************************************************)
EXTENDS Naturals, FiniteSets

CONSTANTS Ops,        \* requests the API serves at once
          MaxOps,     \* bound: requests of a behaviour
          MaxTokens,  \* bound: refresh tokens
          MaxLinks,   \* bound: links and codes
          MaxTries,   \* MAX_CODE_ATTEMPTS (5)
          Tabs,       \* tabs of the browser
          Calls,      \* API calls a tab has open at once
          NoOp

ASSUME SessionsAssumption ==
    /\ MaxOps \in Nat /\ MaxTokens \in Nat \ {0} /\ MaxLinks \in Nat /\ MaxTries \in Nat \ {0}
    /\ NoOp \notin Ops \cup Tabs

VARIABLES user,     \* the users row: active, and which password it has
          tokens,   \* refresh_tokens, in the order of their issue
          links,    \* user_tokens: reset links and sign-in challenges
          device,   \* trusted_devices: the browser's row
          op,       \* the requests being served
          begun,    \* requests so far
          swept,    \* the last password whose change has revoked the sessions
          stored,   \* localStorage: the refresh token held, 0 for none
          expired,  \* access tokens that have expired, by their refresh token
          inflight, \* refreshInFlight of each tab
          call      \* the tabs' API calls

vars == <<user, tokens, links, device, op, begun, swept, stored, expired, inflight, call>>
browser == <<stored, expired, inflight, call>>

TokenIds == 1..MaxTokens
LinkIds == 1..MaxLinks
\* What tokens, codes, browsers and the requests that bring them go back to: the password
\* that was proved, and the last change that came over them while they were in no table
\* it sweeps.
Token == [st: {"none", "live", "replaced", "revoked"}, version: Nat, outlived: Nat]
Link == [st: {"none", "live", "used"}, purpose: {"reset", "login"}, tries: 0..MaxTries, uses: Nat,
         version: Nat, outlived: Nat]
Device == [known: BOOLEAN, version: Nat, outlived: Nat]
Kinds == {"login", "resend", "verify", "refresh", "change", "reset", "issue", "redeem", "logout"}
Served == [pc: {"idle", "look", "open", "token", "trust", "commit", "account", "store", "insert",
                "consume", "count", "password", "revoke", "forget", "done", "refused", "replay"},
           kind: Kinds, token: 0..MaxTokens, link: 0..MaxLinks, right: BOOLEAN,
           locks: SUBSET LinkIds, answer: 0..MaxTokens, active: BOOLEAN, version: Nat,
           outlived: Nat, tab: Tabs \cup {NoOp}]

Quiet == [pc |-> "idle", kind |-> "login", token |-> 0, link |-> 0, right |-> TRUE,
          locks |-> {}, answer |-> 0, active |-> TRUE, version |-> 0, outlived |-> 0,
          tab |-> NoOp]
Unknown == [known |-> FALSE, version |-> 0, outlived |-> 0]

Init ==
    /\ user = [active |-> TRUE, version |-> 0]
    /\ tokens = [k \in TokenIds |-> [st |-> IF k = 1 THEN "live" ELSE "none", version |-> 0,
                                   outlived |-> 0]]
    /\ links = [l \in LinkIds |-> [st |-> "none", purpose |-> "reset", tries |-> 0, uses |-> 0,
                                  version |-> 0, outlived |-> 0]]
    /\ device = Unknown
    /\ op = [o \in Ops |-> Quiet] /\ begun = 0 /\ swept = 0
    /\ stored = 1 /\ expired = {} /\ inflight = [b \in Tabs |-> NoOp]
    /\ call = [b \in Tabs |-> [c \in Calls |-> 0]]

Issued == {k \in TokenIds : tokens[k].st # "none"}
NextToken == Cardinality(Issued) + 1
Sent == {l \in LinkIds : links[l].st # "none"}
NextLink == Cardinality(Sent) + 1
Live(l) == l \in LinkIds /\ links[l].st = "live"
IsCode(l) == links[l].purpose = "login"
Code(l) == Live(l) /\ IsCode(l)
\* Rows of user_tokens an open transaction has updated.
Locked(l) == \E o \in Ops : l \in op[o].locks

\* Of a request that was refused, only the tab that waits for it still matters.
Step(o, pc) ==
    op' = [op EXCEPT ![o] = IF pc = "refused" THEN [Quiet EXCEPT !.pc = pc, !.tab = op[o].tab]
                            ELSE [op[o] EXCEPT !.pc = pc]]
\* The request has read the credential c.
Holds(o, pc, c) ==
    op' = [op EXCEPT ![o].pc = pc, ![o].version = c.version, ![o].outlived = c.outlived]
Begin(o, kind) ==
    [Quiet EXCEPT !.kind = kind, !.active = user.active]
Begins(o, new) ==
    /\ op[o].pc = "idle" /\ begun < MaxOps
    /\ begun' = begun + 1
    /\ op' = [op EXCEPT ![o] = new]
    /\ UNCHANGED <<user, tokens, links, device, swept, stored, expired, call>>

(* ---------------------------- issuing tokens ---------------------------- *)

\* issueRefreshToken: one row.
NewToken(o) == [st |-> "live", version |-> op[o].version, outlived |-> op[o].outlived]

\* The requests of people: sign in, type a code, change the password or have an
\* administrator reset it, ask for a link, follow one, sign out here or everywhere.
Ask(o) ==
    /\ \/ Begins(o, [Begin(o, "login") EXCEPT !.pc = "look"])
       \/ \E l \in LinkIds, r \in BOOLEAN :
              /\ links[l].st # "none" /\ links[l].purpose = "login"
              /\ Begins(o, [Begin(o, "verify") EXCEPT !.pc = "look", !.link = l, !.right = r])
       \/ \E l \in LinkIds :
              /\ links[l].st # "none" /\ links[l].purpose = "login"
              /\ Begins(o, [Begin(o, "resend") EXCEPT !.pc = "look", !.link = l])
       \/ Begins(o, [Begin(o, "change") EXCEPT !.pc = "look"])
       \/ Begins(o, [Begin(o, "issue") EXCEPT !.pc = "store"])
       \/ \E l \in LinkIds :
              /\ links[l].st # "none" /\ links[l].purpose = "reset"
              /\ Begins(o, [Begin(o, "redeem") EXCEPT !.pc = "consume", !.link = l])
       \/ Begins(o, [Begin(o, "reset") EXCEPT !.pc = "password"])
       \/ \E k \in {0, stored} :
              Begins(o, [Begin(o, "logout") EXCEPT !.pc = "revoke", !.token = k])
    /\ UNCHANGED inflight

\* login: the row is read and the right password verified; a browser that is trusted goes
\* on, any other gets a challenge, or goes on when mail is off.
Login(o) ==
    /\ op[o].pc = "look" /\ op[o].kind = "login"
    /\ IF ~user.active THEN Step(o, "refused")
       ELSE \E pc \in {"open", "store"} :
                Holds(o, pc, [version |-> user.version, outlived |-> 0])
    /\ UNCHANGED <<user, tokens, links, device, begun, swept, browser>>

\* openSession: lastLoginAt is written and the account read by one statement.
AlwaysOpen == TRUE
MayOpen == user.active
OpenSession(o) ==
    /\ op[o].pc = "open"
    /\ Step(o, IF MayOpen THEN "token" ELSE "refused")
    /\ UNCHANGED <<user, tokens, links, device, begun, swept, browser>>

IssuePair(o) ==
    /\ op[o].pc = "token" /\ NextToken \in TokenIds
    /\ tokens' = [tokens EXCEPT ![NextToken] = NewToken(o)]
    /\ op' = [op EXCEPT ![o].pc = IF op[o].kind = "verify" THEN "trust" ELSE "done",
                        ![o].answer = NextToken]
    /\ UNCHANGED <<user, links, device, begun, swept, browser>>

TrustDevice(o) ==
    /\ op[o].pc = "trust"
    /\ device' = [known |-> TRUE, version |-> op[o].version, outlived |-> op[o].outlived]
    /\ Step(o, "done")
    /\ UNCHANGED <<user, tokens, links, begun, swept, browser>>

(* ------------------------------- refresh -------------------------------- *)

\* rotate, inside its transaction: the presented token is looked up among those not
\* revoked.  For one that is not there every session is revoked - and the transaction
\* is then left by throwing, which rolls that back.
RotateLook(o) ==
    /\ op[o].pc = "look" /\ op[o].kind = "refresh"
    /\ IF tokens[op[o].token].st = "live" THEN Holds(o, "commit", tokens[op[o].token])
       ELSE Step(o, "replay")
    /\ UNCHANGED <<user, tokens, links, device, begun, swept, browser>>

\* The replacement is inserted and the presented row marked, whatever became of it since.
RotateCommit(o) ==
    /\ op[o].pc = "commit" /\ NextToken \in TokenIds
    /\ tokens' = [tokens EXCEPT ![NextToken] = NewToken(o),
                                ![op[o].token].st = "replaced"]
    /\ op' = [op EXCEPT ![o].pc = "account", ![o].answer = NextToken]
    /\ UNCHANGED <<user, links, device, begun, swept, browser>>

\* refresh: the account is read after the rotation.
RefreshAccount(o) ==
    /\ op[o].pc = "account"
    /\ Step(o, IF user.active THEN "done" ELSE "refused")
    /\ UNCHANGED <<user, tokens, links, device, begun, swept, browser>>

(* ----------------------------- links, codes ----------------------------- *)

\* store: a transaction that spends the earlier unused ones of the purpose it sees, ...
Purpose(o) == IF op[o].kind \in {"login", "resend"} THEN "login" ELSE "reset"
StoreSpend(o) ==
    /\ op[o].pc = "store"
    /\ LET old == {l \in Sent : links[l].st = "live" /\ links[l].purpose = Purpose(o)} IN
         /\ \A l \in old : ~Locked(l)
         /\ op' = [op EXCEPT ![o].pc = "insert", ![o].locks = old]
    /\ UNCHANGED <<user, tokens, links, device, begun, swept, browser>>

\* ... and inserts the new one.  A sign-in whose code cannot be mailed goes on without.
StoreInsert(o) ==
    /\ op[o].pc = "insert" /\ NextLink \in LinkIds
    /\ links' = [l \in LinkIds |->
                   IF l = NextLink
                   THEN [st |-> "live", purpose |-> Purpose(o), tries |-> 0, uses |-> 0,
                         version |-> op[o].version, outlived |-> op[o].outlived]
                   ELSE IF l \in op[o].locks THEN [links[l] EXCEPT !.st = "used"] ELSE links[l]]
    /\ \E next \in {"done"} \cup IF op[o].kind = "login" THEN {"open"} ELSE {} :
           op' = [op EXCEPT ![o].pc = next, ![o].locks = {}]
    /\ UNCHANGED <<user, tokens, device, begun, swept, browser>>

\* What the statement that spends a link asks of it.
SpendableOnceSeen(l) == l \in Sent
Spendable(l) == Live(l) /\ ~Locked(l)
Spent(l) == links' = [links EXCEPT ![l].st = "used", ![l].uses = @ + 1]

\* redeem: consumed by the statement that checks it.
Redeem(o) ==
    /\ op[o].pc = "consume" /\ op[o].kind = "redeem" /\ ~Locked(op[o].link)
    /\ IF Spendable(op[o].link) THEN Spent(op[o].link) /\ Step(o, "password")
       ELSE Step(o, "refused") /\ UNCHANGED links
    /\ UNCHANGED <<user, tokens, device, begun, swept, browser>>

\* resendLogin: a challenge that is still live is replaced by another.
Resend(o) ==
    /\ op[o].pc = "look" /\ op[o].kind = "resend"
    /\ IF Code(op[o].link) THEN Holds(o, "store", links[op[o].link]) ELSE Step(o, "refused")
    /\ UNCHANGED <<user, tokens, links, device, begun, swept, browser>>

\* completeLogin: the challenge is looked up, then consumed if the code is right, else a
\* try is counted.
CodeLook(o) ==
    /\ op[o].pc = "look" /\ op[o].kind = "verify"
    /\ Step(o, IF Code(op[o].link) THEN "consume" ELSE "refused")
    /\ UNCHANGED <<user, tokens, links, device, begun, swept, browser>>

CodeConsume(o) ==
    /\ op[o].pc = "consume" /\ op[o].kind = "verify" /\ ~Locked(op[o].link)
    /\ IF op[o].right /\ Spendable(op[o].link) /\ IsCode(op[o].link)
       THEN Spent(op[o].link) /\ Holds(o, "open", links[op[o].link])
       ELSE Step(o, "count") /\ UNCHANGED links
    /\ UNCHANGED <<user, tokens, device, begun, swept, browser>>

\* One statement, and only while the challenge is live; the last try spends it.
OnlyCounted(l) == [links[l] EXCEPT !.tries = @ + 1]
CountTry(l) ==
    [links[l] EXCEPT !.tries = @ + 1,
                     !.st = IF links[l].tries + 1 >= MaxTries THEN "used" ELSE @]
CodeCount(o) ==
    /\ op[o].pc = "count" /\ ~Locked(op[o].link)
    /\ links' = [links EXCEPT ![op[o].link] = IF Code(op[o].link) THEN CountTry(op[o].link) ELSE @]
    /\ Step(o, "refused")
    /\ UNCHANGED <<user, tokens, device, begun, swept, browser>>

(* ------------------------- passwords, sign-out -------------------------- *)

\* changePassword: the account is read and the current password verified.
ChangeLook(o) ==
    /\ op[o].pc = "look" /\ op[o].kind = "change"
    /\ Step(o, IF user.active THEN "password" ELSE "refused")
    /\ UNCHANGED <<user, tokens, links, device, begun, swept, browser>>

SetPassword(o) ==
    /\ op[o].pc = "password"
    /\ user' = [user EXCEPT !.version = @ + 1]
    /\ op' = [op EXCEPT ![o] = [Quiet EXCEPT !.pc = "revoke", !.kind = "change",
                                             !.version = user.version + 1]]
    /\ UNCHANGED <<tokens, links, device, begun, swept, browser>>

\* revokeAllForUser: every token not revoked, ...
AllButTheNewest == [k \in TokenIds |->
                 IF tokens[k].st = "live" /\ k + 1 # NextToken
                 THEN [tokens[k] EXCEPT !.st = "revoked"] ELSE tokens[k]]
AllRevoked == [k \in TokenIds |->
                 IF tokens[k].st = "live" THEN [tokens[k] EXCEPT !.st = "revoked"] ELSE tokens[k]]
\* What this does not reach, a request that has read its credential and the codes that are
\* out, outlives the change.
Holding(r) == \/ r.pc \in {"open", "token", "trust", "commit"}
              \/ r.pc \in {"store", "insert"} /\ r.kind # "issue"
Outlive(c, v) == IF c.version < v /\ c.outlived < v THEN [c EXCEPT !.outlived = v] ELSE c
RevokeAll(o) ==
    /\ op[o].pc = "revoke" /\ op[o].token = 0
    /\ tokens' = AllRevoked
    /\ op' = [x \in Ops |-> IF x = o THEN [op[o] EXCEPT !.pc = "forget"]
                           ELSE IF Holding(op[x]) THEN Outlive(op[x], op[o].version) ELSE op[x]]
    /\ links' = [l \in LinkIds |-> IF Live(l) THEN Outlive(links[l], op[o].version) ELSE links[l]]
    /\ UNCHANGED <<user, device, begun, swept, browser>>

\* ... and every trusted browser.
ForgetDevices(o) ==
    /\ op[o].pc = "forget"
    /\ device' = Unknown
    /\ swept' = IF op[o].version > swept THEN op[o].version ELSE swept
    /\ Step(o, "done")
    /\ UNCHANGED <<user, tokens, links, begun, browser>>

\* logout with its refresh token: that session alone.
RevokeOne(o) ==
    /\ op[o].pc = "revoke" /\ op[o].token # 0
    /\ tokens' = [tokens EXCEPT ![op[o].token].st = IF @ = "live" THEN "revoked" ELSE @]
    /\ Step(o, "done")
    /\ UNCHANGED <<user, links, device, begun, swept, browser>>

\* An administrator deactivates the account (MeController.update).
Deactivate ==
    /\ user.active
    /\ user' = [user EXCEPT !.active = FALSE]
    /\ UNCHANGED <<tokens, links, device, op, begun, swept, browser>>

Answer(o) ==
    /\ op[o].pc \in {"done", "refused", "replay"} /\ op[o].tab = NoOp
    /\ op' = [op EXCEPT ![o] = Quiet]
    /\ UNCHANGED <<user, tokens, links, device, begun, swept, browser>>

Serve(o) ==
    \/ Login(o) \/ OpenSession(o) \/ IssuePair(o) \/ TrustDevice(o)
    \/ RotateLook(o) \/ RotateCommit(o) \/ RefreshAccount(o)
    \/ StoreSpend(o) \/ StoreInsert(o) \/ Redeem(o) \/ Resend(o) \/ CodeLook(o)
    \/ CodeConsume(o) \/ CodeCount(o)
    \/ ChangeLook(o) \/ SetPassword(o) \/ RevokeAll(o) \/ ForgetDevices(o) \/ RevokeOne(o)
    \/ Answer(o)

(* ------------------------------ the browser ----------------------------- *)

\* An access token reaches its end.
Expire ==
    /\ stored # 0
    /\ expired' = expired \cup {stored}
    /\ UNCHANGED <<user, tokens, links, device, op, begun, swept, stored, inflight, call>>

\* A call is sent with the stored access token.
Send(b, c) ==
    /\ call[b][c] = 0 /\ stored # 0
    /\ call' = [call EXCEPT ![b][c] = stored]
    /\ UNCHANGED <<user, tokens, links, device, op, begun, swept, stored, expired, inflight>>

\* It is answered, or refused with a refresh already failed.
Finish(b, c) ==
    /\ call[b][c] # 0
    /\ call[b][c] \notin expired \/ stored = 0
    /\ call' = [call EXCEPT ![b][c] = 0]
    /\ UNCHANGED <<user, tokens, links, device, op, begun, swept, stored, expired, inflight>>

\* A 401: the call waits for the refresh in flight, or starts one.
Unshared(b) == TRUE
NoneInFlight(b) == inflight[b] = NoOp
HoldsToken == stored # 0
Refresh(b, c, o) ==
    /\ call[b][c] \in expired /\ HoldsToken /\ NoneInFlight(b)
    /\ Begins(o, [Begin(o, "refresh") EXCEPT !.pc = "look", !.token = stored, !.tab = b])
    /\ inflight' = [inflight EXCEPT ![b] = o]

\* attemptRefresh ends: the new pair is stored, or the session cleared; the calls that
\* waited are sent again.
Refreshed(o) ==
    /\ op[o].tab # NoOp /\ op[o].pc \in {"done", "refused", "replay"}
    /\ stored' = IF op[o].pc = "done" THEN op[o].answer ELSE 0
    /\ LET b == op[o].tab IN
         /\ inflight' = [inflight EXCEPT ![b] = IF @ = o THEN NoOp ELSE @]
         /\ call' = [call EXCEPT ![b] = [c \in Calls |->
                       IF call[b][c] \in expired THEN stored' ELSE call[b][c]]]
    /\ op' = [op EXCEPT ![o] = Quiet]
    /\ UNCHANGED <<user, tokens, links, device, begun, swept, expired>>

Browse ==
    \/ Expire
    \/ \E b \in Tabs, c \in Calls :
           Send(b, c) \/ Finish(b, c) \/ \E o \in Ops : Refresh(b, c, o)
    \/ \E o \in Ops : Refreshed(o)

Next == (\E o \in Ops : Ask(o) \/ Serve(o)) \/ Deactivate \/ Browse

Spec == Init /\ [][Next]_vars

(* ------------------------------ properties ------------------------------ *)

\* The types; only a `store` under way holds rows of user_tokens locked, a refresh always
\* presents a token, and no code is tried more often than MAX_CODE_ATTEMPTS.
TypeOK ==
    /\ user \in [active: BOOLEAN, version: Nat]
    /\ tokens \in [TokenIds -> Token] /\ links \in [LinkIds -> Link]
    /\ device \in Device /\ begun \in Nat /\ swept \in Nat
    /\ op \in [Ops -> Served]
    /\ \A o \in Ops : /\ op[o].kind = "refresh" => op[o].token \in TokenIds
                      /\ op[o].locks # {} => op[o].pc = "insert"
    /\ stored \in 0..MaxTokens /\ expired \subseteq TokenIds
    /\ inflight \in [Tabs -> Ops \cup {NoOp}] /\ call \in [Tabs -> [Calls -> 0..MaxTokens]]

\* A link sets one password and a code opens one session, however many requests bring it
\* at once; and a challenge that was opened had tries left (user-links.service.ts:154-156,
\* 216-220).
UsedOnce ==
    \A l \in LinkIds : /\ links[l].uses <= 1
                       /\ links[l].uses = 1 => links[l].tries < MaxTries

\* No request that came after the account was deactivated is answered with tokens, though
\* the password, the code and the refresh token it brings were all good before
\* (auth.service.ts:258, "A deactivation between the password and the code wins").
DeactivationWins ==
    \A o \in Ops : (op[o].pc = "done" /\ op[o].answer # 0) => op[o].active

\* Once a password change has been answered, a refresh token that can be rotated, and a
\* browser that is trusted, goes back to a sign-in with that password or a later one, even
\* when other changes, sign-ins and rotations ran meanwhile (token.service.ts:171-175,
\* auth.service.ts:310-316).  But for those that outlived the change: a rotation that had
\* read its token, a sign-in that had verified its password, and a code that was mailed,
\* before the sessions were revoked.
Outlasts(c, v) == c.version >= v \/ c.outlived >= v
OldSessionsEnd ==
    /\ \A k \in TokenIds : tokens[k].st = "live" => Outlasts(tokens[k], swept)
    /\ device.known => Outlasts(device, swept)

\* The tab never presents a token it has already exchanged, however many of its calls are
\* refused at once: one refresh is shared by all (api.ts:176-180).
NeverReplaysItself ==
    \A o \in Ops : op[o].pc = "replay" => tokens[op[o].token].st # "replaced"

\* "This refresh token has already been used. All sessions have been signed out."
\* (token.service.ts:131): a token presented twice ends every session of its account.
ReplaySignsOut ==
    \A o \in Ops : (op[o].pc = "replay" /\ tokens[op[o].token].st = "replaced") =>
        \A k \in TokenIds : tokens[k].st # "live"
=============================================================================
