--------------------------- MODULE Sessions_proofs --------------------------
(***************************************************************************)
(* Theorems about Sessions, for any requests, tokens, links, tries, tabs   *)
(* and calls: what a password change, a deactivation and a used link mean, *)
(* and that a browser with one tab never presents a token it has exchanged,*)
(* however many calls it has open, whoever else signs in, changes the      *)
(* password or revokes the sessions meanwhile.                             *)
(***************************************************************************)
EXTENDS Sessions, FiniteSetTheorems, TLAPS

-----------------------------------------------------------------------------
(* What a request is while it is served: the fields a statement may move.   *)

Pcs == {"idle", "look", "open", "token", "trust", "commit", "account", "store", "insert",
        "consume", "count", "password", "revoke", "forget", "done", "refused", "replay"}

\* What a request r says of itself in every state.
Formed(r) ==
    /\ r \in Served
    /\ r.kind = "refresh" => r.token \in TokenIds
    /\ r.locks # {} => r.pc = "insert"
    /\ r.answer # 0 => r.pc \in {"account", "trust", "done"}
    /\ r.pc \in {"open", "token", "trust", "account"} => r.locks = {}

\* A place where no request is served is well formed.
LEMMA QuietServed == Quiet \in Served /\ Formed(Quiet)
PROOF BY SessionsAssumption DEF Quiet, Served, Kinds, Formed

\* What is kept of a refused request.
Refused(t) == [Quiet EXCEPT !.pc = "refused", !.tab = t]

\* So is what is kept of a refused one.
LEMMA RefusedServed ==
    ASSUME NEW t \in Tabs \cup {NoOp}
    PROVE  /\ Refused(t) \in Served /\ Formed(Refused(t))
           /\ Refused(t).pc = "refused" /\ Refused(t).kind = "login"
           /\ Refused(t).locks = {} /\ Refused(t).answer = 0
           /\ Refused(t).active = TRUE /\ Refused(t).version = 0
<1> DEFINE r == [Quiet EXCEPT !.pc = "refused"]
<1>1. r \in Served /\ r.pc = "refused" /\ r.kind = "login" /\ r.locks = {} /\ r.answer = 0
      /\ r.active = TRUE /\ r.version = 0
  BY QuietServed DEF Quiet, Served
<1>2. Refused(t) = [r EXCEPT !.tab = t] BY DEF Refused
<1> HIDE DEF r
<1>3. /\ [r EXCEPT !.tab = t] \in Served
      /\ [r EXCEPT !.tab = t].pc = "refused" /\ [r EXCEPT !.tab = t].kind = "login"
      /\ [r EXCEPT !.tab = t].locks = {} /\ [r EXCEPT !.tab = t].answer = 0
      /\ [r EXCEPT !.tab = t].active = TRUE /\ [r EXCEPT !.tab = t].version = 0
  BY <1>1 DEF Served
<1> QED BY <1>2, <1>3 DEF Formed

\* A request that goes on to its next statement, holding no rows, stays well formed.
LEMMA StepFormed ==
    ASSUME NEW o \in Ops, NEW pc \in Pcs, op \in [Ops -> Served], Formed(op[o]), Step(o, pc),
           pc \notin {"idle", "insert"}, op[o].locks = {},
           op[o].answer # 0 => pc \in {"account", "trust", "done", "refused"}
    PROVE  /\ op' = [op EXCEPT ![o] = op'[o]]
           /\ op'[o] \in Served /\ Formed(op'[o])
           /\ op'[o].pc = pc
           /\ op'[o].locks = {}
           /\ pc # "refused" => op'[o] = [op[o] EXCEPT !.pc = pc]
           /\ pc = "refused" => op'[o] = Refused(op[o].tab)
<1>1. op[o] \in Served OBVIOUS
<1>2. CASE pc = "refused"
  <2>1. op' = [op EXCEPT ![o] = Refused(op[o].tab)] BY <1>2 DEF Step, Refused
  <2>2. op[o].tab \in Tabs \cup {NoOp} BY <1>1 DEF Served
  <2> QED BY <1>2, <2>1, <2>2, RefusedServed
<1>3. CASE pc # "refused"
  <2>1. op' = [op EXCEPT ![o] = [op[o] EXCEPT !.pc = pc]] BY <1>3 DEF Step
  <2>2. [op[o] EXCEPT !.pc = pc] \in Served BY <1>1 DEF Served, Pcs
  <2>3. /\ [op[o] EXCEPT !.pc = pc].kind = op[o].kind
        /\ [op[o] EXCEPT !.pc = pc].token = op[o].token
        /\ [op[o] EXCEPT !.pc = pc].locks = op[o].locks
        /\ [op[o] EXCEPT !.pc = pc].answer = op[o].answer
        /\ [op[o] EXCEPT !.pc = pc].pc = pc
    BY <1>1 DEF Served
  <2> QED BY <1>3, <2>1, <2>2, <2>3 DEF Formed
<1> QED BY <1>2, <1>3

-----------------------------------------------------------------------------
(* The inductive invariant.                                                 *)

\* What is so of a request r while the account is u: it came before the deactivation if it
\* may still be given tokens, and no change that is under way sets a later password.
Good(r, u) ==
    /\ Formed(r)
    /\ u.active => r.active
    /\ r.pc \in {"token", "trust"} => r.active
    /\ (r.pc = "done" /\ r.answer # 0) => r.active
    /\ r.pc \in {"revoke", "forget"} => r.version <= u.version

Requests == op \in [Ops -> Served] /\ \A o \in Ops : Good(op[o], user)

\* A link that is live has opened nothing yet and has a try left.
Links ==
    /\ links \in [LinkIds -> Link]
    /\ \A l \in LinkIds : Live(l) => links[l].uses = 0 /\ links[l].tries < MaxTries
    /\ UsedOnce

Account ==
    /\ user \in [active: BOOLEAN, version: Nat]
    /\ tokens \in [TokenIds -> Token]
    /\ device \in Device /\ swept \in Nat /\ swept <= user.version
    /\ device.known => Outlasts(device, swept)

\* Nothing that may still open a session goes back to a time before the password v, but
\* for what outlived the change to it.
Ended(v) ==
    /\ \A k \in TokenIds : tokens[k].st = "live" => Outlasts(tokens[k], v)
    /\ \A l \in LinkIds : Code(l) => Outlasts(links[l], v)
    /\ \A o \in Ops : Holding(op[o]) => Outlasts(op[o], v)

\* So it is for the last change that was answered, and for one that has yet to forget the
\* browsers.
Swept ==
    /\ Ended(swept)
    /\ \A o \in Ops : op[o].pc = "forget" => Ended(op[o].version)

Browser ==
    /\ begun \in Nat
    /\ stored \in 0..MaxTokens /\ expired \subseteq TokenIds
    /\ inflight \in [Tabs -> Ops \cup {NoOp}] /\ call \in [Tabs -> [Calls -> 0..MaxTokens]]

IInv == Requests /\ Links /\ Account /\ Swept /\ Browser

\* The invariant holds of the requests again when one moved, the account's password only
\* grew and nobody reactivated it.
LEMMA RequestsGoOn ==
    ASSUME Requests, Account,
           NEW o \in Ops, NEW r \in Served, op' = [op EXCEPT ![o] = r],
           user' \in [active: BOOLEAN, version: Nat],
           user'.version >= user.version, user'.active => user.active,
           Good(r, user')
    PROVE  Requests'
<1>1. op' \in [Ops -> Served] BY DEF Requests
<1>2. ASSUME NEW x \in Ops, x # o PROVE Good(op'[x], user')
  <2>1. op'[x] = op[x] /\ Good(op[x], user) /\ op[x] \in Served BY <1>2 DEF Requests
  <2>2. op[x].pc \in {"revoke", "forget"} => op[x].version <= user'.version
    BY <2>1 DEF Good, Served, Account
  <2> QED BY <2>1, <2>2 DEF Good
<1> QED BY <1>1, <1>2 DEF Requests

\* The same for a request that only goes on to its next statement.
LEMMA StepGoesOn ==
    ASSUME Requests, Account,
           NEW o \in Ops, NEW pc \in Pcs, Step(o, pc),
           pc \notin {"idle", "insert", "revoke", "forget"}, op[o].locks = {},
           op[o].answer # 0 => pc \in {"account", "trust", "done", "refused"},
           user' = user,
           pc \in {"token", "trust"} => op[o].active,
           pc = "done" /\ op[o].answer # 0 => op[o].active
    PROVE  Requests'
<1> DEFINE r == op'[o]
<1>1. op \in [Ops -> Served] /\ Formed(op[o]) /\ Good(op[o], user)
  BY DEF Requests, Good
<1>2. /\ op' = [op EXCEPT ![o] = r]
      /\ r \in Served /\ Formed(r) /\ r.pc = pc
      /\ pc # "refused" => r = [op[o] EXCEPT !.pc = pc]
      /\ pc = "refused" => r = Refused(op[o].tab)
  BY <1>1, StepFormed
<1>3. user \in [active: BOOLEAN, version: Nat] BY DEF Account
<1>4. Good(r, user')
  <2>1. CASE pc = "refused"
    <3>1. op[o].tab \in Tabs \cup {NoOp} BY <1>1 DEF Served
    <3>2. r.active = TRUE /\ r.version = 0 BY <1>2, <2>1, <3>1, RefusedServed
    <3> QED BY <1>2, <1>3, <2>1, <3>2 DEF Good
  <2>2. CASE pc # "refused"
    <3>1. r.active = op[o].active /\ r.version = op[o].version /\ r.answer = op[o].answer
      BY <1>1, <1>2, <2>2 DEF Served
    <3> QED BY <1>1, <1>2, <2>2, <3>1 DEF Good
  <2> QED BY <2>1, <2>2
<1>5. user'.version >= user.version /\ user' \in [active: BOOLEAN, version: Nat]
  BY <1>3
<1> HIDE DEF r
<1> QED BY <1>2, <1>4, <1>5, RequestsGoOn

\* What a request is that has read the credential c.
Holder(r, pc, c) == [r EXCEPT !.pc = pc, !.version = c.version, !.outlived = c.outlived]

\* It is still a request, and differs in what it holds alone.
LEMMA HolderServed ==
    ASSUME op \in [Ops -> Served], NEW o \in Ops, NEW pc \in Pcs, NEW c,
           c.version \in Nat, c.outlived \in Nat, Holds(o, pc, c)
    PROVE  /\ op' = [op EXCEPT ![o] = Holder(op[o], pc, c)]
           /\ Holder(op[o], pc, c) \in Served
           /\ Holder(op[o], pc, c).pc = pc /\ Holder(op[o], pc, c).kind = op[o].kind
           /\ Holder(op[o], pc, c).token = op[o].token
           /\ Holder(op[o], pc, c).locks = op[o].locks
           /\ Holder(op[o], pc, c).answer = op[o].answer
           /\ Holder(op[o], pc, c).active = op[o].active
           /\ Holder(op[o], pc, c).tab = op[o].tab
           /\ Holder(op[o], pc, c).version = c.version
           /\ Holder(op[o], pc, c).outlived = c.outlived
<1>1. op[o] \in Served OBVIOUS
<1>2. op' = [op EXCEPT ![o] = Holder(op[o], pc, c)] BY DEF Holds, Holder
<1> QED BY <1>1, <1>2 DEF Holder, Served, Pcs

\* It stays well formed too.
LEMMA HoldsGoesOn ==
    ASSUME Requests, Account, NEW o \in Ops, NEW pc \in {"open", "store", "commit"}, NEW c,
           c.version \in Nat, c.outlived \in Nat, Holds(o, pc, c),
           op[o].locks = {}, op[o].answer = 0, user' = user
    PROVE  Requests'
<1> DEFINE r == Holder(op[o], pc, c)
<1>1. op \in [Ops -> Served] /\ Formed(op[o]) /\ Good(op[o], user) /\ pc \in Pcs
  BY DEF Requests, Good, Pcs
<1>2. /\ op' = [op EXCEPT ![o] = r] /\ r \in Served /\ r.pc = pc /\ r.kind = op[o].kind
      /\ r.token = op[o].token /\ r.locks = {} /\ r.answer = 0 /\ r.active = op[o].active
  BY <1>1, HolderServed
<1> HIDE DEF r
<1>3. user \in [active: BOOLEAN, version: Nat] BY DEF Account
<1>4. Good(r, user') BY <1>1, <1>2 DEF Good, Formed
<1>5. user'.version >= user.version /\ user' \in [active: BOOLEAN, version: Nat]
  BY <1>3
<1> QED BY <1>2, <1>4, <1>5, RequestsGoOn

\* A request as it is taken up.
LEMMA BeginServed ==
    ASSUME NEW o \in Ops, NEW kind \in Kinds, user \in [active: BOOLEAN, version: Nat]
    PROVE  /\ Begin(o, kind) \in Served /\ Begin(o, kind).kind = kind
           /\ Begin(o, kind).answer = 0 /\ Begin(o, kind).locks = {}
           /\ Begin(o, kind).token = 0 /\ Begin(o, kind).version = 0
           /\ Begin(o, kind).active = user.active /\ Begin(o, kind).tab = NoOp
<1> DEFINE r == [Quiet EXCEPT !.kind = kind]
<1>1. r \in Served /\ r.kind = kind /\ r.answer = 0 /\ r.locks = {} /\ r.token = 0
      /\ r.version = 0 /\ r.tab = NoOp
  BY QuietServed DEF Quiet, Served
<1>2. Begin(o, kind) = [r EXCEPT !.active = user.active] BY DEF Begin
<1>3. user.active \in BOOLEAN OBVIOUS
<1> HIDE DEF r
<1>4. /\ [r EXCEPT !.active = user.active] \in Served
      /\ [r EXCEPT !.active = user.active].kind = kind
      /\ [r EXCEPT !.active = user.active].answer = 0
      /\ [r EXCEPT !.active = user.active].locks = {}
      /\ [r EXCEPT !.active = user.active].token = 0
      /\ [r EXCEPT !.active = user.active].version = 0
      /\ [r EXCEPT !.active = user.active].active = user.active
      /\ [r EXCEPT !.active = user.active].tab = NoOp
  BY <1>1, <1>3 DEF Served
<1> QED BY <1>2, <1>4

\* A request that has been answered leaves nothing behind.
LEMMA QuietGoesOn ==
    ASSUME Requests, Account, NEW o \in Ops,
           op' = [op EXCEPT ![o] = Quiet], user' = user
    PROVE  Requests'
<1>1. user \in [active: BOOLEAN, version: Nat] BY DEF Account
<1>2. Quiet.pc = "idle" /\ Quiet.active = TRUE /\ Quiet.version = 0 BY DEF Quiet
<1>3. Good(Quiet, user') BY <1>1, <1>2, QuietServed DEF Good
<1>4. user'.version >= user.version /\ user' \in [active: BOOLEAN, version: Nat] BY <1>1
<1> QED BY <1>3, <1>4, QuietServed, RequestsGoOn

\* A request that is taken up is no worse than the account is.
LEMMA Taken ==
    ASSUME Requests, Account, NEW o \in Ops, NEW new \in Served,
           op' = [op EXCEPT ![o] = new], user' = user,
           new.kind = "refresh" => new.token \in TokenIds,
           new.pc \in {"look", "store", "consume", "password", "revoke"},
           new.locks = {}, new.answer = 0, new.version = 0, new.active = user.active
    PROVE  Requests'
<1>1. user \in [active: BOOLEAN, version: Nat] BY DEF Account
<1>2. Good(new, user') BY <1>1 DEF Good, Formed
<1>3. user'.version >= user.version /\ user' \in [active: BOOLEAN, version: Nat] BY <1>1
<1> QED BY <1>2, <1>3, RequestsGoOn

\* The forms a new request takes.
Plain(r, pc) == [r EXCEPT !.pc = pc]
Linked(r, pc, l) == [r EXCEPT !.pc = pc, !.link = l]
Typed(r, pc, l, right) == [r EXCEPT !.pc = pc, !.link = l, !.right = right]
Leaving(r, pc, k) == [r EXCEPT !.pc = pc, !.token = k]
Renewing(r, pc, k, b) == [r EXCEPT !.pc = pc, !.token = k, !.tab = b]

\* Each of them is well formed and keeps the rest of the request.
LEMMA PlainServed ==
    ASSUME NEW r \in Served, NEW pc \in Pcs
    PROVE  /\ Plain(r, pc) \in Served
           /\ Plain(r, pc).pc = pc /\ Plain(r, pc).kind = r.kind
           /\ Plain(r, pc).locks = r.locks /\ Plain(r, pc).answer = r.answer
           /\ Plain(r, pc).version = r.version /\ Plain(r, pc).active = r.active
           /\ Plain(r, pc).tab = r.tab
PROOF BY DEF Plain, Served, Pcs

LEMMA LinkedServed ==
    ASSUME NEW r \in Served, NEW pc \in Pcs, NEW l \in 0..MaxLinks
    PROVE  /\ Linked(r, pc, l) \in Served
           /\ Linked(r, pc, l).pc = pc /\ Linked(r, pc, l).kind = r.kind
           /\ Linked(r, pc, l).locks = r.locks /\ Linked(r, pc, l).answer = r.answer
           /\ Linked(r, pc, l).version = r.version /\ Linked(r, pc, l).active = r.active
           /\ Linked(r, pc, l).tab = r.tab
PROOF BY DEF Linked, Served, Pcs

LEMMA TypedServed ==
    ASSUME NEW r \in Served, NEW pc \in Pcs, NEW l \in 0..MaxLinks, NEW right \in BOOLEAN
    PROVE  /\ Typed(r, pc, l, right) \in Served
           /\ Typed(r, pc, l, right).pc = pc /\ Typed(r, pc, l, right).kind = r.kind
           /\ Typed(r, pc, l, right).locks = r.locks /\ Typed(r, pc, l, right).answer = r.answer
           /\ Typed(r, pc, l, right).version = r.version /\ Typed(r, pc, l, right).active = r.active
           /\ Typed(r, pc, l, right).tab = r.tab
PROOF BY DEF Typed, Served, Pcs

LEMMA LeavingServed ==
    ASSUME NEW r \in Served, NEW pc \in Pcs, NEW k \in 0..MaxTokens
    PROVE  /\ Leaving(r, pc, k) \in Served
           /\ Leaving(r, pc, k).pc = pc /\ Leaving(r, pc, k).kind = r.kind
           /\ Leaving(r, pc, k).locks = r.locks /\ Leaving(r, pc, k).answer = r.answer
           /\ Leaving(r, pc, k).version = r.version /\ Leaving(r, pc, k).active = r.active
           /\ Leaving(r, pc, k).tab = r.tab
PROOF BY DEF Leaving, Served, Pcs

LEMMA RenewingServed ==
    ASSUME NEW r \in Served, NEW pc \in Pcs, NEW k \in 0..MaxTokens, NEW b \in Tabs \cup {NoOp}
    PROVE  /\ Renewing(r, pc, k, b) \in Served
           /\ Renewing(r, pc, k, b).pc = pc /\ Renewing(r, pc, k, b).kind = r.kind
           /\ Renewing(r, pc, k, b).locks = r.locks /\ Renewing(r, pc, k, b).answer = r.answer
           /\ Renewing(r, pc, k, b).version = r.version /\ Renewing(r, pc, k, b).active = r.active
           /\ Renewing(r, pc, k, b).token = k
PROOF BY DEF Renewing, Served, Pcs

\* What a request that is no refresh is when it is taken up.
FreshRequest(r) ==
    /\ r.kind # "refresh" /\ r.pc \in {"look", "store", "consume", "password", "revoke"}
    /\ r.pc = "store" => r.kind = "issue"
    /\ r.locks = {} /\ r.answer = 0 /\ r.version = 0 /\ r.active = user.active /\ r.tab = NoOp

\* Whatever people ask: what is taken up is well formed, fresh, and of no tab.
LEMMA AskForm ==
    ASSUME Account, Browser, NEW o \in Ops, Ask(o)
    PROVE  \E new \in Served : Begins(o, new) /\ FreshRequest(new)
<1>1. user \in [active: BOOLEAN, version: Nat] BY DEF Account
<1>2. stored \in 0..MaxTokens BY DEF Browser
<1>3. LinkIds \subseteq 0..MaxLinks BY SessionsAssumption DEF LinkIds
<1> DEFINE Others == Kinds \ {"refresh"}
<1>5. ASSUME NEW kind \in Others, NEW pc \in {"look", "store", "password"},
             Begins(o, Plain(Begin(o, kind), pc)), pc = "store" => kind = "issue"
      PROVE  \E new \in Served : Begins(o, new) /\ FreshRequest(new)
  <2>1. /\ Begin(o, kind) \in Served /\ Begin(o, kind).kind = kind
        /\ Begin(o, kind).answer = 0 /\ Begin(o, kind).locks = {}
        /\ Begin(o, kind).version = 0 /\ Begin(o, kind).active = user.active
        /\ Begin(o, kind).tab = NoOp
    BY <1>1, BeginServed DEF Kinds
  <2>3. /\ Plain(Begin(o, kind), pc) \in Served
        /\ Plain(Begin(o, kind), pc).pc = pc /\ Plain(Begin(o, kind), pc).kind = kind
        /\ Plain(Begin(o, kind), pc).locks = {} /\ Plain(Begin(o, kind), pc).answer = 0
        /\ Plain(Begin(o, kind), pc).version = 0 /\ Plain(Begin(o, kind), pc).active = user.active
        /\ Plain(Begin(o, kind), pc).tab = NoOp
    <3>1. pc \in Pcs BY <1>3 DEF Pcs
    <3> QED BY <2>1, <3>1, PlainServed
  <2> QED BY <1>5, <2>3 DEF Kinds, FreshRequest
<1>6. ASSUME NEW kind \in Others, NEW pc \in {"look", "consume"}, NEW l \in LinkIds,
             Begins(o, Linked(Begin(o, kind), pc, l))
      PROVE  \E new \in Served : Begins(o, new) /\ FreshRequest(new)
  <2>1. /\ Begin(o, kind) \in Served /\ Begin(o, kind).kind = kind
        /\ Begin(o, kind).answer = 0 /\ Begin(o, kind).locks = {}
        /\ Begin(o, kind).version = 0 /\ Begin(o, kind).active = user.active
        /\ Begin(o, kind).tab = NoOp
    BY <1>1, BeginServed DEF Kinds
  <2>3. /\ Linked(Begin(o, kind), pc, l) \in Served
        /\ Linked(Begin(o, kind), pc, l).pc = pc
        /\ Linked(Begin(o, kind), pc, l).kind = kind
        /\ Linked(Begin(o, kind), pc, l).locks = {}
        /\ Linked(Begin(o, kind), pc, l).answer = 0
        /\ Linked(Begin(o, kind), pc, l).version = 0
        /\ Linked(Begin(o, kind), pc, l).active = user.active
        /\ Linked(Begin(o, kind), pc, l).tab = NoOp
    <3>1. pc \in Pcs /\ l \in 0..MaxLinks BY <1>3 DEF Pcs
    <3> QED BY <2>1, <3>1, LinkedServed
  <2> QED BY <1>6, <2>3 DEF Kinds, FreshRequest
<1>7. ASSUME NEW l \in LinkIds, NEW right \in BOOLEAN,
             Begins(o, Typed(Begin(o, "verify"), "look", l, right))
      PROVE  \E new \in Served : Begins(o, new) /\ FreshRequest(new)
  <2>1. /\ Begin(o, "verify") \in Served /\ Begin(o, "verify").kind = "verify"
        /\ Begin(o, "verify").answer = 0 /\ Begin(o, "verify").locks = {}
        /\ Begin(o, "verify").version = 0 /\ Begin(o, "verify").active = user.active
        /\ Begin(o, "verify").tab = NoOp
    BY <1>1, BeginServed DEF Kinds
  <2>3. /\ Typed(Begin(o, "verify"), "look", l, right) \in Served
        /\ Typed(Begin(o, "verify"), "look", l, right).pc = "look"
        /\ Typed(Begin(o, "verify"), "look", l, right).kind = "verify"
        /\ Typed(Begin(o, "verify"), "look", l, right).locks = {}
        /\ Typed(Begin(o, "verify"), "look", l, right).answer = 0
        /\ Typed(Begin(o, "verify"), "look", l, right).version = 0
        /\ Typed(Begin(o, "verify"), "look", l, right).active = user.active
        /\ Typed(Begin(o, "verify"), "look", l, right).tab = NoOp
    <3>1. "look" \in Pcs /\ l \in 0..MaxLinks BY <1>3 DEF Pcs
    <3> QED BY <2>1, <3>1, TypedServed
  <2> QED BY <1>7, <2>3 DEF Kinds, FreshRequest
<1>8. ASSUME NEW k \in {0, stored}, Begins(o, Leaving(Begin(o, "logout"), "revoke", k))
      PROVE  \E new \in Served : Begins(o, new) /\ FreshRequest(new)
  <2>1. /\ Begin(o, "logout") \in Served /\ Begin(o, "logout").kind = "logout"
        /\ Begin(o, "logout").answer = 0 /\ Begin(o, "logout").locks = {}
        /\ Begin(o, "logout").version = 0 /\ Begin(o, "logout").active = user.active
        /\ Begin(o, "logout").tab = NoOp
    BY <1>1, BeginServed DEF Kinds
  <2>2. k \in 0..MaxTokens BY <1>2, SessionsAssumption
  <2>3. /\ Leaving(Begin(o, "logout"), "revoke", k) \in Served
        /\ Leaving(Begin(o, "logout"), "revoke", k).pc = "revoke"
        /\ Leaving(Begin(o, "logout"), "revoke", k).kind = "logout"
        /\ Leaving(Begin(o, "logout"), "revoke", k).locks = {}
        /\ Leaving(Begin(o, "logout"), "revoke", k).answer = 0
        /\ Leaving(Begin(o, "logout"), "revoke", k).version = 0
        /\ Leaving(Begin(o, "logout"), "revoke", k).active = user.active
        /\ Leaving(Begin(o, "logout"), "revoke", k).tab = NoOp
    <3>1. "revoke" \in Pcs BY <1>3 DEF Pcs
    <3> QED BY <2>1, <3>1, <2>2, LeavingServed
  <2> QED BY <1>8, <2>3 DEF Kinds, FreshRequest
<1>9. \/ \E kind \in Others, pc \in {"look", "store", "password"} :
             Begins(o, Plain(Begin(o, kind), pc)) /\ (pc = "store" => kind = "issue")
      \/ \E kind \in Others, pc \in {"look", "consume"}, l \in LinkIds :
             Begins(o, Linked(Begin(o, kind), pc, l))
      \/ \E l \in LinkIds, right \in BOOLEAN :
             Begins(o, Typed(Begin(o, "verify"), "look", l, right))
      \/ \E k \in {0, stored} : Begins(o, Leaving(Begin(o, "logout"), "revoke", k))
  BY ZenonT(60) DEF Ask, Kinds, Plain, Linked, Typed, Leaving
<1> QED BY <1>5, <1>6, <1>7, <1>8, <1>9

\* So no request that begins breaks the invariant.
LEMMA AskGoesOn ==
    ASSUME Requests, Account, Browser, NEW o \in Ops, Ask(o)
    PROVE  Requests'
BY AskForm, Taken DEF Begins, FreshRequest

\* Two requests that differ only in the change they outlived.
SameButOutlived(r, q) ==
    /\ r \in Served /\ q \in Served
    /\ r.pc = q.pc /\ r.kind = q.kind /\ r.token = q.token /\ r.locks = q.locks
    /\ r.answer = q.answer /\ r.active = q.active /\ r.version = q.version /\ r.tab = q.tab

\* That is all a sweep does to a request it does not reach; what the request outlived
\* before, it still does.
LEMMA OutlivesServed ==
    ASSUME NEW q \in Served, NEW v \in Nat
    PROVE  /\ SameButOutlived(q, q) /\ SameButOutlived(Outlive(q, v), q)
           /\ Outlasts(Outlive(q, v), v)
           /\ \A w \in Nat : Outlasts(q, w) => Outlasts(Outlive(q, v), w)
<1> DEFINE r == [q EXCEPT !.outlived = v]
<1>1. SameButOutlived(q, q) BY DEF SameButOutlived
<1>2. SameButOutlived(r, q) /\ r.outlived = v BY DEF SameButOutlived, Served
<1>3. q.version \in Nat /\ q.outlived \in Nat BY DEF Served
<1>4. Outlive(q, v) = IF q.version < v /\ q.outlived < v THEN r ELSE q BY DEF Outlive
<1> HIDE DEF r
<1> QED BY <1>1, <1>2, <1>3, <1>4 DEF Outlasts, SameButOutlived

\* Nor does it do more to a code that is out.
LEMMA OutlivesLink ==
    ASSUME NEW q \in Link, NEW v \in Nat
    PROVE  /\ Outlive(q, v) \in Link
           /\ Outlive(q, v).st = q.st /\ Outlive(q, v).purpose = q.purpose
           /\ Outlive(q, v).uses = q.uses /\ Outlive(q, v).tries = q.tries
           /\ Outlasts(Outlive(q, v), v)
           /\ \A w \in Nat : Outlasts(q, w) => Outlasts(Outlive(q, v), w)
<1> DEFINE r == [q EXCEPT !.outlived = v]
<1>1. /\ r \in Link /\ r.st = q.st /\ r.purpose = q.purpose /\ r.uses = q.uses
      /\ r.tries = q.tries /\ r.version = q.version /\ r.outlived = v
  BY DEF Link
<1>2. q.version \in Nat /\ q.outlived \in Nat BY DEF Link
<1>3. Outlive(q, v) = IF q.version < v /\ q.outlived < v THEN r ELSE q BY DEF Outlive
<1> HIDE DEF r
<1> QED BY <1>1, <1>2, <1>3 DEF Outlasts

\* Every statement of a request keeps the invariant of the requests.
LEMMA ServeGoesOn ==
    ASSUME Requests, Links, Account, Browser, NEW o \in Ops, Serve(o)
    PROVE  Requests'
<1>1. op \in [Ops -> Served] /\ op[o] \in Served /\ Good(op[o], user) /\ Formed(op[o])
  BY DEF Requests, Good
<1>2. /\ op[o].pc \notin {"account", "trust", "done"} => op[o].answer = 0
      /\ op[o].pc # "insert" => op[o].locks = {}
  BY <1>1 DEF Formed
<1>3. user \in [active: BOOLEAN, version: Nat] BY DEF Account
<1>4. ASSUME Login(o) PROVE Requests'
  <2>1. user' = user /\ op[o].locks = {} /\ op[o].answer = 0 BY <1>1, <1>2, <1>4 DEF Login
  <2>2. ASSUME NEW pc \in {"open", "store"}, NEW c \in {[version |-> user.version, outlived |-> 0]}, Holds(o, pc, c) PROVE Requests'
    <3>1. c.version \in Nat /\ c.outlived \in Nat BY <1>3 DEF Token, Link
    <3> QED BY <2>1, <2>2, <3>1, HoldsGoesOn
  <2>3. ASSUME NEW pc \in {"refused"}, Step(o, pc) PROVE Requests'
    <3>1. /\ pc \in Pcs /\ pc \notin {"idle", "insert", "revoke", "forget"}
          /\ pc \notin {"token", "trust", "done"}
      BY DEF Pcs
    <3> QED BY <2>1, <2>3, <3>1, StepGoesOn
  <2>4. \/ \E pc \in {"open", "store"}, c \in {[version |-> user.version, outlived |-> 0]} : Holds(o, pc, c)
        \/ \E pc \in {"refused"} : Step(o, pc)
    BY <1>4 DEF Login
  <2> QED BY <2>2, <2>3, <2>4
<1>5. ASSUME OpenSession(o) PROVE Requests'
  <2>1. PICK pc \in {"token", "refused"} : Step(o, pc) /\ (pc = "token" => user.active)
    BY <1>5 DEF OpenSession, MayOpen
  <2>2. /\ pc \in Pcs /\ pc \notin {"idle", "insert", "revoke", "forget"} /\ op[o].locks = {}
        /\ user' = user
        /\ op[o].answer # 0 => pc \in {"account", "trust", "done", "refused"}
        /\ pc \in {"token", "trust"} => op[o].active
        /\ pc = "done" /\ op[o].answer # 0 => op[o].active
    BY <1>1, <1>2, <1>5, <2>1 DEF OpenSession, Pcs, Good
  <2> QED BY <2>1, <2>2, StepGoesOn
<1>6. ASSUME TrustDevice(o) PROVE Requests'
  <2>1. PICK pc \in {"done"} : Step(o, pc) BY <1>6 DEF TrustDevice
  <2>2. /\ pc \in Pcs /\ pc \notin {"idle", "insert", "revoke", "forget"} /\ op[o].locks = {}
        /\ user' = user
        /\ op[o].answer # 0 => pc \in {"account", "trust", "done", "refused"}
        /\ pc \in {"token", "trust"} => op[o].active
        /\ pc = "done" /\ op[o].answer # 0 => op[o].active
    BY <1>1, <1>2, <1>6, <2>1 DEF TrustDevice, Pcs, Good
  <2> QED BY <2>1, <2>2, StepGoesOn
<1>7. ASSUME RotateLook(o) PROVE Requests'
  <2>1. user' = user /\ op[o].locks = {} /\ op[o].answer = 0 BY <1>1, <1>2, <1>7 DEF RotateLook
  <2>2. ASSUME NEW pc \in {"commit"}, NEW c \in Token, Holds(o, pc, c) PROVE Requests'
    <3>1. c.version \in Nat /\ c.outlived \in Nat BY <1>3 DEF Token, Link
    <3> QED BY <2>1, <2>2, <3>1, HoldsGoesOn
  <2>3. ASSUME NEW pc \in {"replay"}, Step(o, pc) PROVE Requests'
    <3>1. /\ pc \in Pcs /\ pc \notin {"idle", "insert", "revoke", "forget"}
          /\ pc \notin {"token", "trust", "done"}
      BY DEF Pcs
    <3> QED BY <2>1, <2>3, <3>1, StepGoesOn
  <2>4. \/ \E pc \in {"commit"}, c \in Token : Holds(o, pc, c)
        \/ \E pc \in {"replay"} : Step(o, pc)
    <3>1. op[o].kind = "refresh" BY <1>7 DEF RotateLook
    <3>2. tokens[op[o].token] \in Token BY <1>1, <3>1 DEF Formed, Account
    <3> QED BY <1>7, <3>2 DEF RotateLook
  <2> QED BY <2>2, <2>3, <2>4
<1>8. ASSUME RefreshAccount(o) PROVE Requests'
  <2>1. PICK pc \in {"done", "refused"} : Step(o, pc) /\ (pc = "done" => user.active)
    BY <1>8 DEF RefreshAccount
  <2>2. /\ pc \in Pcs /\ pc \notin {"idle", "insert", "revoke", "forget"} /\ op[o].locks = {}
        /\ user' = user
        /\ op[o].answer # 0 => pc \in {"account", "trust", "done", "refused"}
        /\ pc \in {"token", "trust"} => op[o].active
        /\ pc = "done" /\ op[o].answer # 0 => op[o].active
    BY <1>1, <1>2, <1>8, <2>1 DEF RefreshAccount, Pcs, Good
  <2> QED BY <2>1, <2>2, StepGoesOn
<1>9. ASSUME Redeem(o) PROVE Requests'
  <2>1. PICK pc \in {"password", "refused"} : Step(o, pc) BY <1>9 DEF Redeem
  <2>2. /\ pc \in Pcs /\ pc \notin {"idle", "insert", "revoke", "forget"} /\ op[o].locks = {}
        /\ user' = user
        /\ op[o].answer # 0 => pc \in {"account", "trust", "done", "refused"}
        /\ pc \in {"token", "trust"} => op[o].active
        /\ pc = "done" /\ op[o].answer # 0 => op[o].active
    BY <1>1, <1>2, <1>9, <2>1 DEF Redeem, Pcs, Good
  <2> QED BY <2>1, <2>2, StepGoesOn
<1>10. ASSUME Resend(o) PROVE Requests'
  <2>1. user' = user /\ op[o].locks = {} /\ op[o].answer = 0 BY <1>1, <1>2, <1>10 DEF Resend
  <2>2. ASSUME NEW pc \in {"store"}, NEW c \in Link, Holds(o, pc, c) PROVE Requests'
    <3>1. c.version \in Nat /\ c.outlived \in Nat BY <1>3 DEF Token, Link
    <3> QED BY <2>1, <2>2, <3>1, HoldsGoesOn
  <2>3. ASSUME NEW pc \in {"refused"}, Step(o, pc) PROVE Requests'
    <3>1. /\ pc \in Pcs /\ pc \notin {"idle", "insert", "revoke", "forget"}
          /\ pc \notin {"token", "trust", "done"}
      BY DEF Pcs
    <3> QED BY <2>1, <2>3, <3>1, StepGoesOn
  <2>4. \/ \E pc \in {"store"}, c \in Link : Holds(o, pc, c)
        \/ \E pc \in {"refused"} : Step(o, pc)
    <3>1. Code(op[o].link) => links[op[o].link] \in Link BY DEF Code, Live, Links
    <3> QED BY <1>10, <3>1 DEF Resend
  <2> QED BY <2>2, <2>3, <2>4
<1>11. ASSUME CodeLook(o) PROVE Requests'
  <2>1. PICK pc \in {"consume", "refused"} : Step(o, pc) BY <1>11 DEF CodeLook
  <2>2. /\ pc \in Pcs /\ pc \notin {"idle", "insert", "revoke", "forget"} /\ op[o].locks = {}
        /\ user' = user
        /\ op[o].answer # 0 => pc \in {"account", "trust", "done", "refused"}
        /\ pc \in {"token", "trust"} => op[o].active
        /\ pc = "done" /\ op[o].answer # 0 => op[o].active
    BY <1>1, <1>2, <1>11, <2>1 DEF CodeLook, Pcs, Good
  <2> QED BY <2>1, <2>2, StepGoesOn
<1>12. ASSUME CodeConsume(o) PROVE Requests'
  <2>1. user' = user /\ op[o].locks = {} /\ op[o].answer = 0 BY <1>1, <1>2, <1>12 DEF CodeConsume
  <2>2. ASSUME NEW pc \in {"open"}, NEW c \in Link, Holds(o, pc, c) PROVE Requests'
    <3>1. c.version \in Nat /\ c.outlived \in Nat BY <1>3 DEF Token, Link
    <3> QED BY <2>1, <2>2, <3>1, HoldsGoesOn
  <2>3. ASSUME NEW pc \in {"count"}, Step(o, pc) PROVE Requests'
    <3>1. /\ pc \in Pcs /\ pc \notin {"idle", "insert", "revoke", "forget"}
          /\ pc \notin {"token", "trust", "done"}
      BY DEF Pcs
    <3> QED BY <2>1, <2>3, <3>1, StepGoesOn
  <2>4. \/ \E pc \in {"open"}, c \in Link : Holds(o, pc, c)
        \/ \E pc \in {"count"} : Step(o, pc)
    <3>1. Spendable(op[o].link) => links[op[o].link] \in Link
      BY DEF Spendable, Live, Links
    <3> QED BY <1>12, <3>1 DEF CodeConsume
  <2> QED BY <2>2, <2>3, <2>4
<1>13. ASSUME CodeCount(o) PROVE Requests'
  <2>1. PICK pc \in {"refused"} : Step(o, pc) BY <1>13 DEF CodeCount
  <2>2. /\ pc \in Pcs /\ pc \notin {"idle", "insert", "revoke", "forget"} /\ op[o].locks = {}
        /\ user' = user
        /\ op[o].answer # 0 => pc \in {"account", "trust", "done", "refused"}
        /\ pc \in {"token", "trust"} => op[o].active
        /\ pc = "done" /\ op[o].answer # 0 => op[o].active
    BY <1>1, <1>2, <1>13, <2>1 DEF CodeCount, Pcs, Good
  <2> QED BY <2>1, <2>2, StepGoesOn
<1>14. ASSUME ChangeLook(o) PROVE Requests'
  <2>1. PICK pc \in {"password", "refused"} : Step(o, pc) BY <1>14 DEF ChangeLook
  <2>2. /\ pc \in Pcs /\ pc \notin {"idle", "insert", "revoke", "forget"} /\ op[o].locks = {}
        /\ user' = user
        /\ op[o].answer # 0 => pc \in {"account", "trust", "done", "refused"}
        /\ pc \in {"token", "trust"} => op[o].active
        /\ pc = "done" /\ op[o].answer # 0 => op[o].active
    BY <1>1, <1>2, <1>14, <2>1 DEF ChangeLook, Pcs, Good
  <2> QED BY <2>1, <2>2, StepGoesOn
<1>15. ASSUME RevokeAll(o) PROVE Requests'
  <2>1. user' = user /\ op[o].pc = "revoke" BY <1>15 DEF RevokeAll
  <2>2. ASSUME NEW x \in Ops PROVE op'[x] \in Served /\ Good(op'[x], user')
    <3>1. op[x] \in Served /\ Good(op[x], user) /\ op[o].version \in Nat
      BY <1>1 DEF Requests, Served
    <3>2. CASE x = o
      <4>1. op'[o] = [op[o] EXCEPT !.pc = "forget"] BY <1>15 DEF RevokeAll
      <4>2. /\ op'[o] \in Served /\ op'[o].pc = "forget" /\ op'[o].kind = op[o].kind
            /\ op'[o].token = op[o].token /\ op'[o].locks = op[o].locks
            /\ op'[o].answer = op[o].answer /\ op'[o].active = op[o].active
            /\ op'[o].version = op[o].version
        BY <1>1, <4>1 DEF Served
      <4> QED BY <1>1, <1>2, <2>1, <3>2, <4>2 DEF Good, Formed
    <3>3. CASE x # o
      <4>1. op'[x] \in {op[x], Outlive(op[x], op[o].version)} BY <1>15, <3>3 DEF RevokeAll
      <4>2. SameButOutlived(op'[x], op[x]) BY <3>1, <4>1, OutlivesServed
      <4> QED BY <2>1, <3>1, <4>2 DEF Good, Formed, SameButOutlived
    <3> QED BY <3>2, <3>3
  <2>3. op' = [x \in Ops |-> op'[x]] BY <1>15 DEF RevokeAll
  <2> QED BY <2>2, <2>3 DEF Requests
<1>16. ASSUME ForgetDevices(o) PROVE Requests'
  <2>1. PICK pc \in {"done"} : Step(o, pc) BY <1>16 DEF ForgetDevices
  <2>2. /\ pc \in Pcs /\ pc \notin {"idle", "insert", "revoke", "forget"} /\ op[o].locks = {}
        /\ user' = user
        /\ op[o].answer # 0 => pc \in {"account", "trust", "done", "refused"}
        /\ pc \in {"token", "trust"} => op[o].active
        /\ pc = "done" /\ op[o].answer # 0 => op[o].active
    BY <1>1, <1>2, <1>16, <2>1 DEF ForgetDevices, Pcs, Good
  <2> QED BY <2>1, <2>2, StepGoesOn
<1>17. ASSUME RevokeOne(o) PROVE Requests'
  <2>1. PICK pc \in {"done"} : Step(o, pc) BY <1>17 DEF RevokeOne
  <2>2. /\ pc \in Pcs /\ pc \notin {"idle", "insert", "revoke", "forget"} /\ op[o].locks = {}
        /\ user' = user
        /\ op[o].answer # 0 => pc \in {"account", "trust", "done", "refused"}
        /\ pc \in {"token", "trust"} => op[o].active
        /\ pc = "done" /\ op[o].answer # 0 => op[o].active
    <3>1. tokens \in [TokenIds -> Token] BY DEF Account
    <3>2. \A k \in TokenIds : tokens'[k].st = "live" => tokens'[k] = tokens[k]
      BY <1>17, <3>1 DEF RevokeOne, Token
    <3> QED BY <1>1, <1>2, <1>17, <2>1, <3>2 DEF RevokeOne, Pcs, Good
  <2> QED BY <2>1, <2>2, StepGoesOn
<1>18. ASSUME IssuePair(o) PROVE Requests'
  <2> DEFINE pc == IF op[o].kind = "verify" THEN "trust" ELSE "done"
             r == [op[o] EXCEPT !.pc = pc, !.answer = NextToken]
  <2>1. op' = [op EXCEPT ![o] = r] BY <1>1, <1>18 DEF IssuePair
  <2>2. NextToken \in TokenIds /\ NextToken \in 0..MaxTokens /\ NextToken # 0 /\ pc \in Pcs
    BY <1>18, SessionsAssumption DEF IssuePair, TokenIds, Pcs
  <2>3. op[o].pc = "token" /\ op[o].active /\ op[o].locks = {}
    BY <1>1, <1>2, <1>18 DEF IssuePair, Good
  <2>4. /\ r \in Served /\ r.pc = pc /\ r.answer = NextToken
        /\ r.kind = op[o].kind /\ r.token = op[o].token /\ r.locks = op[o].locks
        /\ r.active = op[o].active /\ r.version = op[o].version
    BY <1>1, <2>2 DEF Served, Pcs
  <2>5. user' = user /\ user'.version >= user.version /\ user' \in [active: BOOLEAN, version: Nat]
    BY <1>3, <1>18 DEF IssuePair
  <2>7. pc \in {"trust", "done"} OBVIOUS
  <2>8. Good(r, user') BY <1>1, <2>3, <2>4, <2>5, <2>7 DEF Good, Formed
  <2> HIDE DEF r
  <2> QED BY <2>1, <2>4, <2>5, <2>8, RequestsGoOn
<1>19. ASSUME RotateCommit(o) PROVE Requests'
  <2> DEFINE r == [op[o] EXCEPT !.pc = "account", !.answer = NextToken]
  <2>1. op' = [op EXCEPT ![o] = r] BY <1>1, <1>19 DEF RotateCommit
  <2>2. NextToken \in TokenIds /\ NextToken \in 0..MaxTokens
    BY <1>19, SessionsAssumption DEF RotateCommit, TokenIds
  <2>3. op[o].pc = "commit" /\ op[o].locks = {} BY <1>1, <1>2, <1>19 DEF RotateCommit
  <2>4. /\ r \in Served /\ r.pc = "account" /\ r.answer = NextToken
        /\ r.kind = op[o].kind /\ r.token = op[o].token /\ r.locks = op[o].locks
        /\ r.active = op[o].active /\ r.version = op[o].version
    BY <1>1, <2>2 DEF Served
  <2>5. user' = user /\ user'.version >= user.version /\ user' \in [active: BOOLEAN, version: Nat]
    BY <1>3, <1>19 DEF RotateCommit
  <2>7. Good(r, user') BY <1>1, <2>3, <2>4, <2>5 DEF Good, Formed
  <2> HIDE DEF r
  <2> QED BY <2>1, <2>4, <2>5, <2>7, RequestsGoOn
<1>20. ASSUME StoreSpend(o) PROVE Requests'
  <2> DEFINE old == {l \in Sent : links[l].st = "live" /\ links[l].purpose = Purpose(o)}
             r == [op[o] EXCEPT !.pc = "insert", !.locks = old]
  <2>1. op' = [op EXCEPT ![o] = r] BY <1>1, <1>20 DEF StoreSpend
  <2>2. old \in SUBSET LinkIds BY DEF Sent
  <2>3. op[o].pc = "store" BY <1>20 DEF StoreSpend
  <2> HIDE DEF old
  <2>4. /\ r \in Served /\ r.pc = "insert" /\ r.answer = op[o].answer
        /\ r.kind = op[o].kind /\ r.token = op[o].token /\ r.locks = old
        /\ r.active = op[o].active /\ r.version = op[o].version
    BY <1>1, <2>2 DEF Served
  <2>5. user' = user /\ tokens' = tokens BY <1>20 DEF StoreSpend
  <2>6. user'.version >= user.version /\ user' \in [active: BOOLEAN, version: Nat]
    BY <1>3, <2>5
  <2>7. Good(r, user') BY <1>1, <1>2, <2>3, <2>4, <2>5 DEF Good, Formed
  <2> HIDE DEF r
  <2> QED BY <2>1, <2>4, <2>5, <2>6, <2>7, RequestsGoOn
<1>21. ASSUME StoreInsert(o) PROVE Requests'
  <2>1. PICK next \in {"done", "open"} : op' = [op EXCEPT ![o].pc = next, ![o].locks = {}]
    BY <1>21 DEF StoreInsert
  <2> DEFINE r == [op[o] EXCEPT !.pc = next, !.locks = {}]
  <2>2. op' = [op EXCEPT ![o] = r] BY <1>1, <2>1
  <2>3. op[o].pc = "insert" BY <1>21 DEF StoreInsert
  <2>4. /\ r \in Served /\ r.pc = next /\ r.answer = op[o].answer
        /\ r.kind = op[o].kind /\ r.token = op[o].token /\ r.locks = {}
        /\ r.active = op[o].active /\ r.version = op[o].version
    BY <1>1 DEF Served
  <2>5. user' = user /\ tokens' = tokens BY <1>21 DEF StoreInsert
  <2>6. user'.version >= user.version /\ user' \in [active: BOOLEAN, version: Nat]
    BY <1>3, <2>5
  <2>7. Good(r, user') BY <1>1, <1>2, <2>3, <2>4, <2>5 DEF Good, Formed
  <2> HIDE DEF r
  <2> QED BY <2>2, <2>4, <2>5, <2>6, <2>7, RequestsGoOn
<1>22. ASSUME SetPassword(o) PROVE Requests'
  <2> DEFINE q == [Quiet EXCEPT !.pc = "revoke", !.kind = "change"]
             v == user.version + 1
             r == [q EXCEPT !.version = v]
  <2>1. op' = [op EXCEPT ![o] = r] BY <1>22 DEF SetPassword
  <2>2. q \in Served /\ q.pc = "revoke" /\ q.kind = "change" /\ q.answer = 0 /\ q.locks = {}
        /\ q.active = TRUE
    BY QuietServed DEF Quiet, Served, Kinds
  <2>3. v \in Nat BY <1>3
  <2>4. user' = [user EXCEPT !.version = v] /\ tokens' = tokens BY <1>22 DEF SetPassword
  <2>5. user'.version = v /\ user'.active = user.active /\ user' \in [active: BOOLEAN, version: Nat]
        /\ v >= user.version
    BY <1>3, <2>3, <2>4
  <2> HIDE DEF q
  <2>6. /\ r \in Served /\ r.pc = "revoke" /\ r.kind = "change" /\ r.answer = 0 /\ r.locks = {}
        /\ r.active = TRUE /\ r.version = v
    BY <2>2, <2>3 DEF Served
  <2> HIDE DEF v
  <2>7. Good(r, user') BY <2>3, <2>5, <2>6 DEF Good, Formed
  <2> HIDE DEF r
  <2> QED BY <2>1, <2>4, <2>5, <2>6, <2>7, RequestsGoOn
<1>23. ASSUME Answer(o) PROVE Requests'
  <2>1. user' = user /\ tokens' = tokens /\ op' = [op EXCEPT ![o] = Quiet] BY <1>23 DEF Answer
  <2> QED BY <2>1, QuietGoesOn
<1> QED
  BY <1>4, <1>5, <1>6, <1>7, <1>8, <1>9, <1>10, <1>11, <1>12, <1>13, <1>14, <1>15, <1>16, <1>17,
     <1>18, <1>19, <1>20, <1>21, <1>22, <1>23 DEF Serve

\* A link is spent by one request and tried only while it is live.
LEMMA LinksStay ==
    ASSUME Requests, Links, [Next]_vars
    PROVE  Links'
<1>1. links \in [LinkIds -> Link] BY DEF Links
<1>2. ASSUME links' \in [LinkIds -> Link],
             \A l \in LinkIds : \/ links'[l].st = links[l].st /\ links'[l].uses = links[l].uses
                                   /\ links'[l].tries = links[l].tries
                                \/ links'[l].st = "used" /\ links'[l].uses = links[l].uses
                                   /\ links'[l].tries = links[l].tries
                                \/ links'[l].st = "used" /\ links'[l].uses = 1
                                   /\ links'[l].tries < MaxTries
                                \/ links'[l].uses = 0
                                   /\ (links'[l].st = "live" => links'[l].tries < MaxTries)
      PROVE  Links'
  <2>1. ASSUME NEW l \in LinkIds
        PROVE  /\ links'[l].st = "live" => links'[l].uses = 0 /\ links'[l].tries < MaxTries
               /\ links'[l].uses <= 1
               /\ links'[l].uses = 1 => links'[l].tries < MaxTries
    BY <1>2, <2>1 DEF Links, Live, UsedOnce
  <2> QED BY <1>2, <2>1 DEF Links, Live, UsedOnce
<1>3. ASSUME NEW o \in Ops, StoreInsert(o) PROVE Links'
  <2>1. Purpose(o) \in {"reset", "login"} BY DEF Purpose
  <2> DEFINE new == [st |-> "live", purpose |-> Purpose(o), tries |-> 0, uses |-> 0,
                     version |-> op[o].version, outlived |-> op[o].outlived]
             Put(l) == IF l = NextLink THEN new
                       ELSE IF l \in op[o].locks THEN [links[l] EXCEPT !.st = "used"] ELSE links[l]
  <2>2. links' = [l \in LinkIds |-> Put(l)] BY <1>3 DEF StoreInsert
  <2>3. new \in Link /\ new.uses = 0 /\ new.tries = 0 /\ MaxTries > 0
    <3>1. op[o].version \in Nat /\ op[o].outlived \in Nat BY DEF Requests, Served
    <3> QED BY <2>1, <3>1, SessionsAssumption DEF Link
  <2>4. ASSUME NEW l \in LinkIds
        PROVE  /\ Put(l) \in Link
               /\ \/ Put(l).st = links[l].st /\ Put(l).uses = links[l].uses
                     /\ Put(l).tries = links[l].tries
                  \/ Put(l).st = "used" /\ Put(l).uses = links[l].uses
                     /\ Put(l).tries = links[l].tries
                  \/ Put(l).uses = 0 /\ (Put(l).st = "live" => Put(l).tries < MaxTries)
    <3>1. links[l] \in Link BY <1>1
    <3>2. [links[l] EXCEPT !.st = "used"] \in Link
          /\ [links[l] EXCEPT !.st = "used"].st = "used"
          /\ [links[l] EXCEPT !.st = "used"].uses = links[l].uses
          /\ [links[l] EXCEPT !.st = "used"].tries = links[l].tries
      BY <3>1 DEF Link
    <3>3. CASE l = NextLink BY <2>3, <3>3
    <3>4. CASE l # NextLink BY <3>1, <3>2, <3>4
    <3> QED BY <3>3, <3>4
  <2> HIDE DEF Put
  <2> QED BY <1>2, <2>2, <2>4
<1>4. ASSUME NEW l \in LinkIds, Spendable(l), Spent(l) PROVE Links'
  <2>1. links[l] \in Link /\ links[l].uses = 0 /\ links[l].tries < MaxTries
    BY <1>1, <1>4 DEF Links, Spendable
  <2> DEFINE new == [links[l] EXCEPT !.st = "used", !.uses = 1]
  <2>2. links' = [links EXCEPT ![l] = new] BY <1>1, <1>4, <2>1 DEF Spent, Link
  <2>3. new \in Link /\ new.st = "used" /\ new.uses = 1 /\ new.tries = links[l].tries
    BY <2>1 DEF Link
  <2> HIDE DEF new
  <2> QED BY <1>1, <1>2, <2>1, <2>2, <2>3
<1>5. ASSUME links' = links PROVE Links' BY <1>1, <1>2, <1>5
<1>6. ASSUME NEW o \in Ops, Redeem(o) PROVE Links'
  <2>1. CASE Spendable(op[o].link)
    <3>1. op[o].link \in LinkIds BY <2>1 DEF Spendable, Live
    <3> QED BY <1>4, <1>6, <2>1, <3>1 DEF Redeem
  <2>2. CASE ~Spendable(op[o].link) BY <1>5, <1>6, <2>2 DEF Redeem
  <2> QED BY <2>1, <2>2
<1>7. ASSUME NEW o \in Ops, CodeConsume(o) PROVE Links'
  <2> DEFINE right == op[o].right /\ Spendable(op[o].link) /\ IsCode(op[o].link)
  <2>1. CASE right
    <3>1. op[o].link \in LinkIds BY <2>1 DEF Spendable, Live
    <3> QED BY <1>4, <1>7, <2>1, <3>1 DEF CodeConsume
  <2>2. CASE ~right BY <1>5, <1>7, <2>2 DEF CodeConsume
  <2> QED BY <2>1, <2>2
<1>8. ASSUME NEW o \in Ops, CodeCount(o) PROVE Links'
  <2> DEFINE k == op[o].link
  <2>1. CASE Code(k)
    <3>1. k \in LinkIds /\ links[k] \in Link /\ links[k].uses = 0 /\ links[k].tries < MaxTries
      BY <1>1, <2>1 DEF Links, Live, Code
    <3>2. links' = [links EXCEPT ![k] = CountTry(k)] BY <1>8, <2>1 DEF CodeCount
    <3> DEFINE n == links[k].tries + 1
               st == IF n >= MaxTries THEN "used" ELSE links[k].st
               new == [links[k] EXCEPT !.tries = n, !.st = st]
    <3>3. CountTry(k) = new BY <3>1 DEF CountTry, Link
    <3>4. n \in 0..MaxTries /\ st \in {"none", "live", "used"} /\ (st = "live" => n < MaxTries)
      BY <3>1, SessionsAssumption DEF Link
    <3> HIDE DEF n, st
    <3>5. new \in Link /\ new.uses = 0 /\ new.st = st /\ new.tries = n BY <3>1, <3>4 DEF Link
    <3> HIDE DEF new
    <3> QED BY <1>1, <1>2, <3>1, <3>2, <3>3, <3>4, <3>5
  <2>2. CASE ~Code(k) BY <1>1, <1>2, <1>8, <2>2 DEF CodeCount
  <2> QED BY <2>1, <2>2
<1>9. ASSUME UNCHANGED vars PROVE Links' BY <1>5, <1>9 DEF vars
<1>10. ASSUME NEW o \in Ops, Ask(o) PROVE Links' BY <1>5, <1>10 DEF Ask, Begins
<1>14. ASSUME NEW o \in Ops, RevokeAll(o) PROVE Links'
  <2>1. op[o].version \in Nat BY DEF Requests, Served
  <2>2. ASSUME NEW l \in LinkIds
        PROVE  /\ links'[l] \in Link
               /\ links'[l].st = links[l].st /\ links'[l].uses = links[l].uses
               /\ links'[l].tries = links[l].tries
    <3>1. links[l] \in Link BY <1>1
    <3>2. links'[l] \in {links[l], Outlive(links[l], op[o].version)} BY <1>14 DEF RevokeAll
    <3> QED BY <2>1, <3>1, <3>2, OutlivesLink
  <2>3. links' = [l \in LinkIds |-> links'[l]] BY <1>14 DEF RevokeAll
  <2>4. links' \in [LinkIds -> Link] BY <2>2, <2>3
  <2> QED BY <1>2, <2>2, <2>4
<1>11. ASSUME NEW o \in Ops, Serve(o) PROVE Links'
  BY <1>3, <1>5, <1>6, <1>7, <1>8, <1>11, <1>14
     DEF Serve, Login, OpenSession, IssuePair, TrustDevice, RotateLook, RotateCommit,
         RefreshAccount, StoreSpend, Resend, CodeLook, ChangeLook, SetPassword,
         ForgetDevices, RevokeOne, Answer
<1>12. ASSUME Deactivate PROVE Links' BY <1>5, <1>12 DEF Deactivate
<1>13. ASSUME Browse PROVE Links'
  BY <1>5, <1>13 DEF Browse, Expire, Send, Finish, Refresh, Refreshed, Begins
<1> QED BY <1>9, <1>10, <1>11, <1>12, <1>13 DEF Next

\* The rows keep their types; a browser is trusted for a sign-in, or not at all.
LEMMA AccountStays ==
    ASSUME Requests, Account, Swept, [Next]_vars
    PROVE  Account'
<1>1. /\ user \in [active: BOOLEAN, version: Nat] /\ tokens \in [TokenIds -> Token]
      /\ device \in Device /\ swept \in Nat /\ swept <= user.version
      /\ device.known => Outlasts(device, swept)
  BY DEF Account
<1>2. ASSUME user' = user, swept' = swept, device' = device, tokens' \in [TokenIds -> Token]
      PROVE  Account'
  BY <1>1, <1>2 DEF Account
<1>3. ASSUME user' = user, swept' = swept, device' = device, tokens' = tokens PROVE Account'
  BY <1>1, <1>2, <1>3
<1>4. ASSUME NEW o \in Ops PROVE NewToken(o) \in Token
  BY DEF Requests, Served, NewToken, Token
<1>5. ASSUME NEW o \in Ops, IssuePair(o) PROVE Account'
  <2>1. tokens' = [tokens EXCEPT ![NextToken] = NewToken(o)] BY <1>5 DEF IssuePair
  <2>2. tokens' \in [TokenIds -> Token] BY <1>1, <1>4, <2>1
  <2> QED BY <1>2, <1>5, <2>2 DEF IssuePair
<1>6. ASSUME NEW o \in Ops, RotateCommit(o) PROVE Account'
  <2> DEFINE t == [tokens EXCEPT ![NextToken] = NewToken(o)]
  <2>1. tokens' = [t EXCEPT ![op[o].token].st = "replaced"] BY <1>6 DEF RotateCommit
  <2>2. t \in [TokenIds -> Token] BY <1>1, <1>4
  <2> HIDE DEF t
  <2>4. tokens' \in [TokenIds -> Token] BY <2>1, <2>2 DEF Token
  <2> QED BY <1>2, <1>6, <2>4 DEF RotateCommit
<1>7. ASSUME NEW o \in Ops, TrustDevice(o) PROVE Account'
  <2>1. /\ user' = user /\ swept' = swept /\ tokens' = tokens /\ op[o].pc = "trust"
        /\ device' = [known |-> TRUE, version |-> op[o].version, outlived |-> op[o].outlived]
    BY <1>7 DEF TrustDevice, browser
  <2>2. op[o] \in Served /\ Formed(op[o]) BY DEF Requests, Good
  <2>4. Outlasts(op[o], swept) BY <2>1 DEF Swept, Ended, Holding
  <2>5. device' \in Device /\ Outlasts(device', swept)
    BY <2>1, <2>2, <2>4 DEF Served, Device, Outlasts
  <2> QED BY <1>1, <2>1, <2>5 DEF Account
<1>8. ASSUME NEW o \in Ops, SetPassword(o) PROVE Account'
  <2>1. /\ user' = [user EXCEPT !.version = user.version + 1]
        /\ swept' = swept /\ tokens' = tokens /\ device' = device
    BY <1>8 DEF SetPassword
  <2>2. user' \in [active: BOOLEAN, version: Nat] /\ user'.version = user.version + 1
    BY <1>1, <2>1
  <2> QED BY <1>1, <2>1, <2>2 DEF Account
<1>9. ASSUME NEW o \in Ops, RevokeAll(o) PROVE Account'
  <2>1. tokens' \in [TokenIds -> Token] BY <1>1, <1>9 DEF RevokeAll, AllRevoked, Token
  <2> QED BY <1>2, <1>9, <2>1 DEF RevokeAll
<1>10. ASSUME NEW o \in Ops, ForgetDevices(o) PROVE Account'
  <2>1. /\ user' = user /\ tokens' = tokens /\ device' = Unknown
        /\ swept' = IF op[o].version > swept THEN op[o].version ELSE swept
        /\ op[o].pc = "forget"
    BY <1>10 DEF ForgetDevices
  <2>2. op[o].version \in Nat /\ op[o].version <= user.version
    BY <2>1 DEF Requests, Good, Served
  <2>3. Unknown \in Device /\ Unknown.known = FALSE BY DEF Unknown, Device
  <2> QED BY <1>1, <2>1, <2>2, <2>3 DEF Account
<1>11. ASSUME NEW o \in Ops, RevokeOne(o) PROVE Account'
  <2>1. tokens' = [tokens EXCEPT ![op[o].token].st = IF @ = "live" THEN "revoked" ELSE @]
    BY <1>11 DEF RevokeOne
  <2>2. tokens' \in [TokenIds -> Token] BY <1>1, <2>1 DEF Token
  <2> QED BY <1>2, <1>11, <2>2 DEF RevokeOne
<1>12. ASSUME Deactivate PROVE Account'
  <2>1. /\ user' = [user EXCEPT !.active = FALSE]
        /\ swept' = swept /\ tokens' = tokens /\ device' = device
    BY <1>12 DEF Deactivate
  <2>2. user' \in [active: BOOLEAN, version: Nat] /\ user'.version = user.version
    BY <1>1, <2>1
  <2> QED BY <1>1, <2>1, <2>2 DEF Account
<1>13. ASSUME UNCHANGED vars PROVE Account' BY <1>3, <1>13 DEF vars
<1>14. ASSUME NEW o \in Ops, Ask(o) PROVE Account' BY <1>3, <1>14 DEF Ask, Begins
<1>15. ASSUME NEW o \in Ops, Serve(o) PROVE Account'
  BY <1>3, <1>5, <1>6, <1>7, <1>8, <1>9, <1>10, <1>11, <1>15
     DEF Serve, Login, OpenSession, RotateLook, RefreshAccount, StoreSpend, StoreInsert, Redeem,
         Resend, CodeLook, CodeConsume, CodeCount, ChangeLook, Answer
<1>16. ASSUME Browse PROVE Account'
  BY <1>3, <1>16 DEF Browse, Expire, Send, Finish, Refresh, Refreshed, Begins
<1> QED BY <1>12, <1>13, <1>14, <1>15, <1>16 DEF Next

\* The tabs hold tokens and wait for requests that exist.
LEMMA BrowserStays ==
    ASSUME Requests, Browser, NoOp \notin Ops, [Next]_vars
    PROVE  Browser'
<1>1. /\ begun \in Nat /\ stored \in 0..MaxTokens /\ expired \subseteq TokenIds
      /\ inflight \in [Tabs -> Ops \cup {NoOp}] /\ call \in [Tabs -> [Calls -> 0..MaxTokens]]
  BY DEF Browser
<1>2. ASSUME UNCHANGED browser, begun' = begun PROVE Browser' BY <1>1, <1>2 DEF browser, Browser
<1>3. ASSUME NEW o \in Ops, Ask(o) PROVE Browser'
  <2>1. /\ begun' = begun + 1 /\ stored' = stored /\ expired' = expired
        /\ inflight' = inflight /\ call' = call
    BY <1>3 DEF Ask, Begins
  <2> QED BY <1>1, <2>1 DEF Browser
<1>4. ASSUME NEW o \in Ops, Serve(o) PROVE Browser'
  BY <1>2, <1>4
     DEF Serve, Login, OpenSession, IssuePair, TrustDevice, RotateLook, RotateCommit,
         RefreshAccount, StoreSpend, StoreInsert, Redeem, Resend, CodeLook, CodeConsume,
         CodeCount, ChangeLook, SetPassword, RevokeAll, ForgetDevices, RevokeOne, Answer, browser
<1>5. ASSUME Deactivate PROVE Browser' BY <1>2, <1>5 DEF Deactivate, browser
<1>6. ASSUME Expire PROVE Browser'
  <2>1. stored \in TokenIds BY <1>1, <1>6, SessionsAssumption DEF Expire, TokenIds
  <2> QED BY <1>1, <1>6, <2>1 DEF Expire, Browser
<1>7. ASSUME NEW b \in Tabs, NEW c \in Calls, Send(b, c) PROVE Browser'
  BY <1>1, <1>7 DEF Send, Browser
<1>8. ASSUME NEW b \in Tabs, NEW c \in Calls, Finish(b, c) PROVE Browser'
  BY <1>1, <1>8, SessionsAssumption DEF Finish, Browser
<1>9. ASSUME NEW b \in Tabs, NEW c \in Calls, NEW o \in Ops, Refresh(b, c, o) PROVE Browser'
  BY <1>1, <1>9 DEF Refresh, Begins, Browser
<1>10. ASSUME NEW o \in Ops, Refreshed(o) PROVE Browser'
  <2>1. op[o] \in Served /\ op[o].tab \in Tabs BY <1>10 DEF Requests, Served, Refreshed
  <2>2. stored' \in 0..MaxTokens
    BY <1>10, <2>1, SessionsAssumption DEF Refreshed, Served
  <2> DEFINE b == op[o].tab
             new == [c \in Calls |-> IF call[b][c] \in expired THEN stored' ELSE call[b][c]]
  <2>3. inflight' = [inflight EXCEPT ![b] = IF @ = o THEN NoOp ELSE @] BY <1>10 DEF Refreshed
  <2>4. call' = [call EXCEPT ![b] = new] BY <1>10 DEF Refreshed
  <2>5. new \in [Calls -> 0..MaxTokens] BY <1>1, <2>1, <2>2
  <2> HIDE DEF new
  <2>6. call' \in [Tabs -> [Calls -> 0..MaxTokens]] BY <1>1, <2>4, <2>5
  <2>7. inflight' \in [Tabs -> Ops \cup {NoOp}] BY <1>1, <2>3
  <2>8. expired' = expired /\ begun' = begun BY <1>10 DEF Refreshed
  <2> QED BY <1>1, <2>2, <2>6, <2>7, <2>8 DEF Browser
<1>11. ASSUME UNCHANGED vars PROVE Browser' BY <1>2, <1>11 DEF vars, browser
<1> QED BY <1>3, <1>4, <1>5, <1>6, <1>7, <1>8, <1>9, <1>10, <1>11 DEF Next, Browse

\* The requests stay what they are, whoever moves.
LEMMA RequestsStay ==
    ASSUME Requests, Links, Account, Browser, [Next]_vars
    PROVE  Requests'
<1>1. user \in [active: BOOLEAN, version: Nat] BY DEF Account
<1>2. ASSUME UNCHANGED <<user, tokens, op>> PROVE Requests' BY <1>2 DEF Requests
<1>3. ASSUME NEW o \in Ops, Ask(o) PROVE Requests' BY <1>3, AskGoesOn
<1>4. ASSUME NEW o \in Ops, Serve(o) PROVE Requests' BY <1>4, ServeGoesOn
<1>5. ASSUME Deactivate PROVE Requests'
  <2>1. user' = [user EXCEPT !.active = FALSE] /\ tokens' = tokens /\ op' = op
    BY <1>5 DEF Deactivate
  <2>2. user'.active = FALSE /\ user'.version = user.version BY <1>1, <2>1
  <2>3. ASSUME NEW o \in Ops PROVE Good(op[o], user')
    <3>1. Good(op[o], user) BY DEF Requests
    <3> QED BY <2>1, <2>2, <3>1 DEF Good
  <2> QED BY <2>1, <2>3 DEF Requests
<1>6. ASSUME NEW b \in Tabs, NEW c \in Calls, NEW o \in Ops, Refresh(b, c, o) PROVE Requests'
  <2> DEFINE new == Renewing(Begin(o, "refresh"), "look", stored, b)
  <2>1. Begins(o, new) BY <1>6 DEF Refresh, Renewing
  <2>2. stored \in 0..MaxTokens /\ stored \in TokenIds
    BY <1>6, SessionsAssumption DEF Browser, Refresh, HoldsToken, TokenIds
  <2>3. "look" \in Pcs /\ "refresh" \in Kinds /\ b \in Tabs \cup {NoOp} BY DEF Pcs, Kinds
  <2>4. /\ Begin(o, "refresh") \in Served /\ Begin(o, "refresh").answer = 0
        /\ Begin(o, "refresh").locks = {} /\ Begin(o, "refresh").version = 0
        /\ Begin(o, "refresh").active = user.active
    BY <1>1, <2>3, BeginServed
  <2>5. /\ new \in Served /\ new.pc = "look" /\ new.token = stored
        /\ new.locks = {} /\ new.answer = 0 /\ new.version = 0 /\ new.active = user.active
    BY <2>2, <2>3, <2>4, RenewingServed
  <2>6. op' = [op EXCEPT ![o] = new] /\ user' = user /\ tokens' = tokens BY <2>1 DEF Begins
  <2> HIDE DEF new
  <2> QED BY <2>2, <2>5, <2>6, Taken
<1>7. ASSUME NEW o \in Ops, Refreshed(o) PROVE Requests'
  BY <1>7, QuietGoesOn DEF Refreshed
<1>8. ASSUME UNCHANGED vars PROVE Requests' BY <1>2, <1>8 DEF vars
<1>9. ASSUME NEW b \in Tabs, NEW c \in Calls, Expire \/ Send(b, c) \/ Finish(b, c)
      PROVE  Requests'
  BY <1>2, <1>9 DEF Expire, Send, Finish
<1>10. ASSUME Expire PROVE Requests' BY <1>2, <1>10 DEF Expire
<1> QED BY <1>3, <1>4, <1>5, <1>6, <1>7, <1>8, <1>9, <1>10 DEF Next, Browse

\* A request that moves leaves what has ended so, if it holds nothing of before and leaves
\* no token and no code of before.
LEMMA EndedGoesOn ==
    ASSUME Requests, NEW v, Ended(v), NEW o \in Ops, NEW r, op' = [op EXCEPT ![o] = r],
           Holding(r) => Outlasts(r, v),
           \A k \in TokenIds : tokens'[k].st = "live" =>
               tokens'[k] = tokens[k] \/ Outlasts(tokens'[k], v),
           \A l \in LinkIds : Code(l)' => links'[l] = links[l] \/ Outlasts(links'[l], v)
    PROVE  Ended(v)'
<1>1. op' \in [Ops -> Served \cup {r}] /\ op'[o] = r /\ \A x \in Ops \ {o} : op'[x] = op[x]
  BY DEF Requests
<1>2. \A x \in Ops : Holding(op'[x]) => Outlasts(op'[x], v) BY <1>1 DEF Ended
<1>3. \A k \in TokenIds : tokens'[k].st = "live" => Outlasts(tokens'[k], v) BY DEF Ended
<1>4. \A l \in LinkIds : Code(l)' => Outlasts(links'[l], v)
  BY DEF Ended, Code, Live, IsCode
<1> QED BY <1>2, <1>3, <1>4 DEF Ended

\* The same when the tokens and the links stay as they are, or fewer are left.
FewerLeft ==
    /\ \A k \in TokenIds : tokens'[k].st = "live" => tokens'[k] = tokens[k]
    /\ \A l \in LinkIds : links'[l].st = "live" => links'[l] = links[l]

\* So it is with a request that goes on to its next statement with what it held.
LEMMA StepEnded ==
    ASSUME Requests, NEW v, Ended(v), NEW o \in Ops, NEW pc, Step(o, pc), FewerLeft,
           pc \in {"open", "token", "trust", "commit", "store", "insert"} =>
               op[o].pc \in {"open", "token", "trust", "commit"}
    PROVE  Ended(v)'
<1>1. op[o] \in Served BY DEF Requests
<1> DEFINE r == IF pc = "refused" THEN Refused(op[o].tab) ELSE [op[o] EXCEPT !.pc = pc]
<1>2. op' = [op EXCEPT ![o] = r]
  <2>1. CASE pc = "refused" BY <2>1 DEF Step, Refused
  <2>2. CASE pc # "refused" BY <2>2 DEF Step
  <2> QED BY <2>1, <2>2
<1>3. Holding(r) => Outlasts(r, v)
  <2>1. CASE pc = "refused"
    <3>1. op[o].tab \in Tabs \cup {NoOp} BY <1>1 DEF Served
    <3> QED BY <2>1, <3>1, RefusedServed DEF Holding
  <2>2. CASE pc # "refused"
    <3>1. /\ r.pc = pc /\ r.kind = op[o].kind /\ r.version = op[o].version
          /\ r.outlived = op[o].outlived
      BY <1>1, <2>2 DEF Served
    <3> HIDE DEF r
    <3> QED BY <3>1 DEF Holding, Ended, Outlasts
  <2> QED BY <2>1, <2>2
<1> HIDE DEF r
<1> QED BY <1>2, <1>3, EndedGoesOn DEF FewerLeft, Code, Live

\* Or with a credential that has itself outlasted it.
LEMMA HoldsEnded ==
    ASSUME Requests, NEW v, Ended(v), NEW o \in Ops, NEW pc \in Pcs, NEW c,
           c.version \in Nat, c.outlived \in Nat, Holds(o, pc, c), Outlasts(c, v), FewerLeft
    PROVE  Ended(v)'
<1> DEFINE r == Holder(op[o], pc, c)
<1>1. op \in [Ops -> Served] BY DEF Requests
<1>2. op' = [op EXCEPT ![o] = r] /\ r.version = c.version /\ r.outlived = c.outlived
  BY <1>1, HolderServed
<1> HIDE DEF r
<1>3. Outlasts(r, v) BY <1>2 DEF Outlasts
<1> QED BY <1>2, <1>3, EndedGoesOn DEF FewerLeft, Code, Live

\* Every statement but the sweep itself leaves what has ended so: a sign-in proves the
\* password of the moment, and whatever else is issued goes back to what was brought.
LEMMA ServeEnded ==
    ASSUME Requests, Links, Account, NEW v \in Nat, Ended(v), v <= user.version,
           NEW o \in Ops, Serve(o), ~RevokeAll(o)
    PROVE  Ended(v)'
<1>1. op \in [Ops -> Served] /\ op[o] \in Served /\ Formed(op[o]) BY DEF Requests, Good
<1>2. tokens \in [TokenIds -> Token] /\ links \in [LinkIds -> Link]
      /\ user \in [active: BOOLEAN, version: Nat]
  BY DEF Account, Links
<1>3. ASSUME UNCHANGED <<tokens, links>> PROVE FewerLeft BY <1>3 DEF FewerLeft
<1>4. ASSUME NEW pc, Step(o, pc), UNCHANGED <<tokens, links>>,
             pc \in {"open", "token", "trust", "commit", "store", "insert"} =>
                 op[o].pc \in {"open", "token", "trust", "commit"}
      PROVE  Ended(v)'
  BY <1>3, <1>4, StepEnded
<1>5. ASSUME Login(o) PROVE Ended(v)'
  <2>1. CASE ~user.active BY <1>4, <1>5, <2>1 DEF Login
  <2>2. CASE user.active
    <3> DEFINE c == [version |-> user.version, outlived |-> 0]
    <3>1. PICK pc \in {"open", "store"} : Holds(o, pc, c) BY <1>5, <2>2 DEF Login
    <3>2. c.version \in Nat /\ c.outlived \in Nat /\ Outlasts(c, v) BY <1>2 DEF Outlasts
    <3>3. FewerLeft /\ pc \in Pcs BY <1>3, <1>5 DEF Login, Pcs
    <3> HIDE DEF c
    <3> QED BY <3>1, <3>2, <3>3, HoldsEnded
  <2> QED BY <2>1, <2>2
<1>6. ASSUME RotateLook(o) PROVE Ended(v)'
  <2>1. CASE tokens[op[o].token].st = "live"
    <3> DEFINE c == tokens[op[o].token]
    <3>1. op[o].token \in TokenIds BY <1>1, <1>6 DEF RotateLook, Formed
    <3>2. Holds(o, "commit", c) /\ "commit" \in Pcs BY <1>6, <2>1 DEF RotateLook, Pcs
    <3>3. c.version \in Nat /\ c.outlived \in Nat BY <1>2, <3>1 DEF Token
    <3>4. Outlasts(c, v) /\ FewerLeft BY <1>3, <1>6, <2>1, <3>1 DEF Ended, RotateLook
    <3> HIDE DEF c
    <3> QED BY <3>2, <3>3, <3>4, HoldsEnded
  <2>2. CASE tokens[op[o].token].st # "live" BY <1>4, <1>6, <2>2 DEF RotateLook
  <2> QED BY <2>1, <2>2
<1>7. ASSUME Resend(o) PROVE Ended(v)'
  <2>1. CASE Code(op[o].link)
    <3> DEFINE c == links[op[o].link]
    <3>1. op[o].link \in LinkIds BY <2>1 DEF Code, Live
    <3>2. Holds(o, "store", c) /\ "store" \in Pcs BY <1>7, <2>1 DEF Resend, Pcs
    <3>3. c.version \in Nat /\ c.outlived \in Nat BY <1>2, <3>1 DEF Link
    <3>4. Outlasts(c, v) /\ FewerLeft BY <1>3, <1>7, <2>1, <3>1 DEF Ended, Resend
    <3> HIDE DEF c
    <3> QED BY <3>2, <3>3, <3>4, HoldsEnded
  <2>2. CASE ~Code(op[o].link) BY <1>4, <1>7, <2>2 DEF Resend
  <2> QED BY <2>1, <2>2
<1>8. ASSUME NEW l \in LinkIds, Spent(l), tokens' = tokens PROVE FewerLeft
  BY <1>2, <1>8 DEF Spent, FewerLeft, Link
<1>9. ASSUME CodeConsume(o) PROVE Ended(v)'
  <2> DEFINE right == op[o].right /\ Spendable(op[o].link) /\ IsCode(op[o].link)
  <2>1. CASE right
    <3> DEFINE c == links[op[o].link]
    <3>1. op[o].link \in LinkIds /\ Code(op[o].link) BY <2>1 DEF Spendable, Code, Live
    <3>2. Holds(o, "open", c) /\ "open" \in Pcs BY <1>9, <2>1 DEF CodeConsume, Pcs
    <3>3. c.version \in Nat /\ c.outlived \in Nat BY <1>2, <3>1 DEF Link
    <3>4. Outlasts(c, v) BY <3>1 DEF Ended
    <3>5. FewerLeft BY <1>8, <1>9, <2>1, <3>1 DEF CodeConsume
    <3> HIDE DEF c
    <3> QED BY <3>2, <3>3, <3>4, <3>5, HoldsEnded
  <2>2. CASE ~right
    <3>1. Step(o, "count") /\ UNCHANGED <<tokens, links>> BY <1>9, <2>2 DEF CodeConsume
    <3> QED BY <1>4, <3>1
  <2> QED BY <2>1, <2>2
<1>10. ASSUME Redeem(o) PROVE Ended(v)'
  <2>1. CASE Spendable(op[o].link)
    <3>1. op[o].link \in LinkIds BY <2>1 DEF Spendable, Live
    <3>2. Step(o, "password") /\ FewerLeft BY <1>8, <1>10, <2>1, <3>1 DEF Redeem
    <3> QED BY <3>2, StepEnded
  <2>2. CASE ~Spendable(op[o].link)
    <3>1. Step(o, "refused") /\ UNCHANGED <<tokens, links>> BY <1>10, <2>2 DEF Redeem
    <3> QED BY <1>4, <3>1
  <2> QED BY <2>1, <2>2
<1>11. ASSUME CodeCount(o) PROVE Ended(v)'
  <2> DEFINE k == op[o].link
  <2>1. Step(o, "refused") /\ tokens' = tokens BY <1>11 DEF CodeCount
  <2>2. CASE Code(k)
    <3>1. k \in LinkIds /\ links' = [links EXCEPT ![k] = CountTry(k)]
      BY <1>11, <2>2 DEF CodeCount, Code, Live
    <3>2. links[k] \in Link /\ Outlasts(links[k], v) BY <1>2, <2>2, <3>1 DEF Ended
    <3> DEFINE n == links[k].tries + 1
               st == IF n >= MaxTries THEN "used" ELSE links[k].st
               new == [links[k] EXCEPT !.tries = n, !.st = st]
    <3>3. CountTry(k) = new BY <3>2 DEF CountTry, Link
    <3> HIDE DEF n, st
    <3>4. new.version = links[k].version /\ new.outlived = links[k].outlived
      BY <3>2 DEF Link
    <3> HIDE DEF new
    <3>5. Outlasts(new, v) BY <3>2, <3>4 DEF Outlasts
    <3>6. \A l \in LinkIds : links'[l] = links[l] \/ Outlasts(links'[l], v)
      BY <1>2, <3>1, <3>3, <3>5
    <3>7. op' = [op EXCEPT ![o] = Refused(op[o].tab)] BY <2>1 DEF Step, Refused
    <3>8. op[o].tab \in Tabs \cup {NoOp} BY <1>1 DEF Served
    <3>9. ~Holding(Refused(op[o].tab)) BY <3>8, RefusedServed DEF Holding
    <3> QED BY <2>1, <3>6, <3>7, <3>9, EndedGoesOn
  <2>3. CASE ~Code(k)
    <3>1. \A l \in LinkIds : links'[l] = links[l] BY <1>2, <1>11, <2>3 DEF CodeCount
    <3>2. FewerLeft BY <2>1, <3>1 DEF FewerLeft
    <3> QED BY <2>1, <3>2, StepEnded
  <2> QED BY <2>2, <2>3
<1>12. ASSUME OpenSession(o) PROVE Ended(v)'
  BY <1>4, <1>12 DEF OpenSession
<1>13. ASSUME TrustDevice(o) \/ RefreshAccount(o) \/ CodeLook(o) \/ ChangeLook(o)
              \/ ForgetDevices(o)
      PROVE  Ended(v)'
  BY <1>4, <1>13 DEF TrustDevice, RefreshAccount, CodeLook, ChangeLook, ForgetDevices
<1>14. ASSUME RevokeOne(o) PROVE Ended(v)'
  <2>1. FewerLeft BY <1>2, <1>14 DEF RevokeOne, FewerLeft, Token
  <2> QED BY <1>14, <2>1, StepEnded DEF RevokeOne
<1>15. ASSUME op[o].pc \in {"token", "commit"} PROVE Outlasts(NewToken(o), v)
  BY <1>15 DEF Ended, Holding, Outlasts, NewToken
<1>16. ASSUME IssuePair(o) PROVE Ended(v)'
  <2> DEFINE pc == IF op[o].kind = "verify" THEN "trust" ELSE "done"
             r == [op[o] EXCEPT !.pc = pc, !.answer = NextToken]
  <2>1. op' = [op EXCEPT ![o] = r] BY <1>1, <1>16 DEF IssuePair
  <2>2. /\ r.pc = pc /\ r.kind = op[o].kind /\ r.version = op[o].version
        /\ r.outlived = op[o].outlived
    BY <1>1 DEF Served
  <2>3. op[o].pc = "token" BY <1>16 DEF IssuePair
  <2>4. Holding(r) => Outlasts(r, v) BY <2>2, <2>3 DEF Holding, Ended, Outlasts
  <2>5. \A k \in TokenIds : tokens'[k] = tokens[k] \/ Outlasts(tokens'[k], v)
    BY <1>2, <1>15, <1>16, <2>3 DEF IssuePair
  <2>6. links' = links BY <1>16 DEF IssuePair
  <2> HIDE DEF r
  <2> QED BY <2>1, <2>4, <2>5, <2>6, EndedGoesOn
<1>17. ASSUME RotateCommit(o) PROVE Ended(v)'
  <2> DEFINE r == [op[o] EXCEPT !.pc = "account", !.answer = NextToken]
             t == [tokens EXCEPT ![NextToken] = NewToken(o)]
  <2>1. op' = [op EXCEPT ![o] = r] BY <1>1, <1>17 DEF RotateCommit
  <2>2. r.pc = "account" BY <1>1 DEF Served
  <2>3. op[o].pc = "commit" BY <1>17 DEF RotateCommit
  <2>4. ~Holding(r) BY <2>2 DEF Holding
  <2>5. \A k \in TokenIds : t[k] = tokens[k] \/ Outlasts(t[k], v) BY <1>2, <1>15, <2>3
  <2>6. t \in [TokenIds -> Token]
    <3>1. NewToken(o) \in Token BY <1>1 DEF Served, NewToken, Token
    <3> QED BY <1>2, <3>1
  <2>7. tokens' = [t EXCEPT ![op[o].token].st = "replaced"] BY <1>17 DEF RotateCommit
  <2> HIDE DEF t
  <2>8. \A k \in TokenIds : tokens'[k].st = "live" => tokens'[k] = t[k]
    BY <2>6, <2>7 DEF Token
  <2>9. \A k \in TokenIds : tokens'[k].st = "live" =>
            tokens'[k] = tokens[k] \/ Outlasts(tokens'[k], v)
    BY <2>5, <2>8
  <2>10. links' = links BY <1>17 DEF RotateCommit
  <2> HIDE DEF r
  <2> QED BY <2>1, <2>4, <2>9, <2>10, EndedGoesOn
<1>18. ASSUME StoreSpend(o) PROVE Ended(v)'
  <2> DEFINE old == {l \in Sent : links[l].st = "live" /\ links[l].purpose = Purpose(o)}
             r == [op[o] EXCEPT !.pc = "insert", !.locks = old]
  <2>1. op' = [op EXCEPT ![o] = r] BY <1>1, <1>18 DEF StoreSpend
  <2> HIDE DEF old
  <2>2. /\ r.pc = "insert" /\ r.kind = op[o].kind /\ r.version = op[o].version
        /\ r.outlived = op[o].outlived
    BY <1>1 DEF Served
  <2>3. op[o].pc = "store" /\ tokens' = tokens /\ links' = links BY <1>18 DEF StoreSpend
  <2>4. Holding(r) => Outlasts(r, v) BY <2>2, <2>3 DEF Holding, Ended, Outlasts
  <2> HIDE DEF r
  <2> QED BY <2>1, <2>3, <2>4, EndedGoesOn
<1>19. ASSUME StoreInsert(o) PROVE Ended(v)'
  <2>1. PICK next \in {"done", "open"} :
               op' = [op EXCEPT ![o].pc = next, ![o].locks = {}]
               /\ (next = "open" => op[o].kind = "login")
    BY <1>19 DEF StoreInsert
  <2> DEFINE r == [op[o] EXCEPT !.pc = next, !.locks = {}]
  <2>2. op' = [op EXCEPT ![o] = r] BY <1>1, <2>1
  <2>3. /\ r.pc = next /\ r.kind = op[o].kind /\ r.version = op[o].version
        /\ r.outlived = op[o].outlived
    BY <1>1 DEF Served
  <2>4. op[o].pc = "insert" /\ tokens' = tokens BY <1>19 DEF StoreInsert
  <2> HIDE DEF r
  <2>5. Holding(r) => Outlasts(r, v) BY <2>1, <2>3, <2>4 DEF Holding, Ended, Outlasts
  <2>6. ASSUME NEW l \in LinkIds, Code(l)' PROVE links'[l] = links[l] \/ Outlasts(links'[l], v)
    <3> DEFINE new == [st |-> "live", purpose |-> Purpose(o), tries |-> 0, uses |-> 0,
                       version |-> op[o].version, outlived |-> op[o].outlived]
    <3>1. links'[l] = IF l = NextLink THEN new
                      ELSE IF l \in op[o].locks THEN [links[l] EXCEPT !.st = "used"] ELSE links[l]
      BY <1>19 DEF StoreInsert
    <3>2. links'[l].st = "live" /\ links'[l].purpose = "login" BY <2>6 DEF Code, Live, IsCode
    <3>3. CASE l = NextLink
      <4>1. op[o].kind # "issue" BY <3>1, <3>2, <3>3 DEF Purpose
      <4>2. Outlasts(op[o], v) BY <2>4, <4>1 DEF Ended, Holding
      <4> QED BY <3>1, <3>3, <4>2 DEF Outlasts
    <3>4. CASE l # NextLink BY <1>2, <3>1, <3>2, <3>4 DEF Link
    <3> QED BY <3>3, <3>4
  <2> QED BY <2>2, <2>4, <2>5, <2>6, EndedGoesOn
<1>20. ASSUME SetPassword(o) PROVE Ended(v)'
  <2> DEFINE q == [Quiet EXCEPT !.pc = "revoke", !.kind = "change"]
             r == [q EXCEPT !.version = user.version + 1]
  <2>1. op' = [op EXCEPT ![o] = r] BY <1>20 DEF SetPassword
  <2>2. q.pc = "revoke" /\ q \in Served BY QuietServed DEF Quiet, Served, Kinds
  <2> HIDE DEF q
  <2>3. r.pc = "revoke" BY <2>2 DEF Served
  <2> HIDE DEF r
  <2>4. ~Holding(r) /\ tokens' = tokens /\ links' = links BY <1>20, <2>3 DEF Holding, SetPassword
  <2> QED BY <2>1, <2>4, EndedGoesOn
<1>21. ASSUME Answer(o) PROVE Ended(v)'
  <2>1. op' = [op EXCEPT ![o] = Quiet] /\ tokens' = tokens /\ links' = links BY <1>21 DEF Answer
  <2>2. ~Holding(Quiet) BY DEF Quiet, Holding
  <2> QED BY <2>1, <2>2, EndedGoesOn
<1> QED
  BY <1>5, <1>6, <1>7, <1>9, <1>10, <1>11, <1>12, <1>13, <1>14, <1>16, <1>17, <1>18, <1>19,
     <1>20, <1>21 DEF Serve

\* So does every other step.
LEMMA NextEnded ==
    ASSUME Requests, Links, Account, Browser, NEW v \in Nat, Ended(v), v <= user.version,
           [Next]_vars, \A o \in Ops : ~RevokeAll(o)
    PROVE  Ended(v)'
<1>1. user \in [active: BOOLEAN, version: Nat] BY DEF Account
<1>2. ASSUME UNCHANGED <<op, tokens, links>> PROVE Ended(v)'
  BY <1>2 DEF Ended, Code, Live, IsCode
<1>3. ASSUME NEW o \in Ops, NEW r, op' = [op EXCEPT ![o] = r], UNCHANGED <<tokens, links>>,
             r.pc \notin {"open", "token", "trust", "commit", "insert"},
             r.pc = "store" => r.kind = "issue"
      PROVE  Ended(v)'
  <2>1. ~Holding(r) BY <1>3 DEF Holding
  <2> QED BY <1>3, <2>1, EndedGoesOn
<1>4. ASSUME NEW o \in Ops, Ask(o) PROVE Ended(v)'
  <2>1. PICK r \in Served : Begins(o, r) /\ FreshRequest(r) BY <1>4, AskForm
  <2>2. op' = [op EXCEPT ![o] = r] /\ UNCHANGED <<tokens, links>> BY <2>1 DEF Begins
  <2> QED BY <1>3, <2>1, <2>2 DEF FreshRequest
<1>5. ASSUME NEW b \in Tabs, NEW c \in Calls, NEW o \in Ops, Refresh(b, c, o) PROVE Ended(v)'
  <2> DEFINE new == Renewing(Begin(o, "refresh"), "look", stored, b)
  <2>1. Begins(o, new) BY <1>5 DEF Refresh, Renewing
  <2>2. stored \in 0..MaxTokens BY DEF Browser
  <2>3. "look" \in Pcs /\ "refresh" \in Kinds /\ b \in Tabs \cup {NoOp} BY DEF Pcs, Kinds
  <2>4. Begin(o, "refresh") \in Served BY <1>1, <2>3, BeginServed
  <2>5. new.pc = "look" BY <2>2, <2>3, <2>4, RenewingServed
  <2>6. op' = [op EXCEPT ![o] = new] /\ UNCHANGED <<tokens, links>> BY <2>1 DEF Begins
  <2> HIDE DEF new
  <2> QED BY <1>3, <2>5, <2>6
<1>6. ASSUME NEW o \in Ops, Refreshed(o) PROVE Ended(v)'
  <2>1. op' = [op EXCEPT ![o] = Quiet] /\ UNCHANGED <<tokens, links>> BY <1>6 DEF Refreshed
  <2>2. Quiet.pc = "idle" BY DEF Quiet
  <2> QED BY <1>3, <2>1, <2>2
<1>7. ASSUME NEW o \in Ops, Serve(o) PROVE Ended(v)' BY <1>7, ServeEnded
<1>8. ASSUME Deactivate PROVE Ended(v)' BY <1>2, <1>8 DEF Deactivate
<1>9. ASSUME Expire PROVE Ended(v)' BY <1>2, <1>9 DEF Expire
<1>10. ASSUME NEW b \in Tabs, NEW c \in Calls, Send(b, c) \/ Finish(b, c) PROVE Ended(v)'
  BY <1>2, <1>10 DEF Send, Finish
<1>11. ASSUME UNCHANGED vars PROVE Ended(v)' BY <1>2, <1>11 DEF vars
<1> QED BY <1>4, <1>5, <1>6, <1>7, <1>8, <1>9, <1>10, <1>11 DEF Next, Browse

\* The sweep ends what went before its own password, and undoes no earlier end.
LEMMA RevokeEnds ==
    ASSUME Requests, Links, Account, NEW o \in Ops, RevokeAll(o),
           NEW w \in Nat, w = op[o].version \/ Ended(w)
    PROVE  Ended(w)'
<1> DEFINE v == op[o].version
<1>1. op \in [Ops -> Served] /\ v \in Nat BY DEF Requests, Served
<1>2. tokens \in [TokenIds -> Token] /\ links \in [LinkIds -> Link] BY DEF Account, Links
<1>3. \A k \in TokenIds : tokens'[k].st # "live"
  BY <1>2 DEF RevokeAll, AllRevoked, Token
<1>4. ASSUME NEW l \in LinkIds, Code(l)' PROVE Outlasts(links'[l], w)
  <2>1. links[l] \in Link BY <1>2
  <2>2. links'[l] = IF Live(l) THEN Outlive(links[l], v) ELSE links[l] BY DEF RevokeAll
  <2>3. Live(l) /\ IsCode(l)
    BY <1>1, <1>4, <2>1, <2>2, OutlivesLink DEF Code, Live, IsCode
  <2> QED BY <1>1, <2>1, <2>2, <2>3, OutlivesLink DEF Ended, Code
<1>5. ASSUME NEW x \in Ops, Holding(op'[x]) PROVE Outlasts(op'[x], w)
  <2>1. op[x] \in Served /\ op[o] \in Served BY <1>1
  <2>2. x # o
    <3>1. op'[o] = [op[o] EXCEPT !.pc = "forget"] BY DEF RevokeAll
    <3>2. op'[o].pc = "forget" BY <2>1, <3>1 DEF Served
    <3> QED BY <1>5, <3>2 DEF Holding
  <2>3. op'[x] = IF Holding(op[x]) THEN Outlive(op[x], v) ELSE op[x] BY <2>2 DEF RevokeAll
  <2>4. Holding(op[x]) BY <1>5, <2>3
  <2> QED BY <1>1, <2>1, <2>3, <2>4, OutlivesServed DEF Ended
<1> QED BY <1>3, <1>4, <1>5 DEF Ended

\* A request that will forget the browsers has revoked the tokens, in this step or before.
LEMMA ForgetFollows ==
    ASSUME Requests, Account, Browser, [Next]_vars, NEW x \in Ops, op'[x].pc = "forget"
    PROVE  /\ op'[x].version = op[x].version
           /\ op[x].pc = "forget" \/ RevokeAll(x)
<1>1. op \in [Ops -> Served] BY DEF Requests
<1>2. user \in [active: BOOLEAN, version: Nat] BY DEF Account
<1>3. ASSUME op' = op PROVE op'[x].version = op[x].version /\ op[x].pc = "forget" BY <1>3
<1>4. ASSUME NEW o \in Ops, NEW r, op' = [op EXCEPT ![o] = r], r.pc # "forget"
      PROVE  op'[x].version = op[x].version /\ op[x].pc = "forget"
  BY <1>1, <1>4
<1>5. ASSUME NEW o \in Ops, NEW pc, Step(o, pc), pc # "forget"
      PROVE  op'[x].version = op[x].version /\ op[x].pc = "forget"
  <2> DEFINE q == [Quiet EXCEPT !.pc = pc, !.tab = op[o].tab]
             r == [op[o] EXCEPT !.pc = pc]
  <2>1. op' = [op EXCEPT ![o] = q] \/ op' = [op EXCEPT ![o] = r] BY <1>5 DEF Step
  <2>2. q.pc = pc BY DEF Quiet
  <2>3. r.pc = pc BY <1>1 DEF Served
  <2> HIDE DEF q, r
  <2> QED BY <1>4, <1>5, <2>1, <2>2, <2>3
<1>6. ASSUME NEW o \in Ops, NEW pc, NEW c, Holds(o, pc, c), pc # "forget"
      PROVE  op'[x].version = op[x].version /\ op[x].pc = "forget"
  <2>1. op' = [op EXCEPT ![o] = Holder(op[o], pc, c)] BY <1>1, <1>6 DEF Holds, Holder
  <2>2. Holder(op[o], pc, c).pc = pc BY <1>1 DEF Holder, Served
  <2> QED BY <1>4, <1>6, <2>1, <2>2
<1>7. ASSUME NEW o \in Ops, Ask(o) PROVE op'[x].version = op[x].version /\ op[x].pc = "forget"
  <2>1. PICK r \in Served : Begins(o, r) /\ FreshRequest(r) BY <1>7, AskForm
  <2> QED BY <1>4, <2>1 DEF Begins, FreshRequest
<1>8. ASSUME NEW o \in Ops, Serve(o)
      PROVE  op'[x].version = op[x].version /\ (op[x].pc = "forget" \/ RevokeAll(x))
  <2>1. CASE Login(o) BY <1>5, <1>6, <2>1 DEF Login
  <2>2. CASE RotateLook(o) \/ Resend(o) \/ CodeConsume(o)
    BY <1>5, <1>6, <2>2 DEF RotateLook, Resend, CodeConsume
  <2>3. CASE OpenSession(o) \/ TrustDevice(o) \/ RefreshAccount(o) \/ CodeLook(o)
             \/ ChangeLook(o)
    BY <1>5, <2>3 DEF OpenSession, TrustDevice, RefreshAccount, CodeLook, ChangeLook
  <2>4. CASE ForgetDevices(o) \/ Redeem(o) \/ CodeCount(o) \/ RevokeOne(o)
    BY <1>5, <2>4 DEF ForgetDevices, Redeem, CodeCount, RevokeOne
  <2>5. CASE IssuePair(o)
    <3> DEFINE pc == IF op[o].kind = "verify" THEN "trust" ELSE "done"
               r == [op[o] EXCEPT !.pc = pc, !.answer = NextToken]
    <3>1. op' = [op EXCEPT ![o] = r] BY <1>1, <2>5 DEF IssuePair
    <3>2. r.pc = pc BY <1>1 DEF Served
    <3>3. r.pc # "forget" BY <3>2
    <3> HIDE DEF r
    <3> QED BY <1>4, <3>1, <3>3
  <2>6. CASE RotateCommit(o)
    <3> DEFINE r == [op[o] EXCEPT !.pc = "account", !.answer = NextToken]
    <3>1. op' = [op EXCEPT ![o] = r] BY <1>1, <2>6 DEF RotateCommit
    <3>2. r.pc = "account" BY <1>1 DEF Served
    <3> HIDE DEF r
    <3> QED BY <1>4, <3>1, <3>2
  <2>7. CASE StoreSpend(o)
    <3> DEFINE r == [op[o] EXCEPT !.pc = "insert", !.locks =
                       {l \in Sent : links[l].st = "live" /\ links[l].purpose = Purpose(o)}]
    <3>1. op' = [op EXCEPT ![o] = r] BY <1>1, <2>7 DEF StoreSpend
    <3>2. r.pc = "insert" BY <1>1 DEF Served
    <3> HIDE DEF r
    <3> QED BY <1>4, <3>1, <3>2
  <2>8. CASE StoreInsert(o)
    <3>1. PICK next \in {"done", "open"} : op' = [op EXCEPT ![o].pc = next, ![o].locks = {}]
      BY <2>8 DEF StoreInsert
    <3> DEFINE r == [op[o] EXCEPT !.pc = next, !.locks = {}]
    <3>2. op' = [op EXCEPT ![o] = r] BY <1>1, <3>1
    <3>3. r.pc = next BY <1>1 DEF Served
    <3> HIDE DEF r
    <3> QED BY <1>4, <3>2, <3>3
  <2>9. CASE SetPassword(o)
    <3> DEFINE q == [Quiet EXCEPT !.pc = "revoke", !.kind = "change"]
               r == [q EXCEPT !.version = user.version + 1]
    <3>1. op' = [op EXCEPT ![o] = r] BY <2>9 DEF SetPassword
    <3>2. q.pc = "revoke" /\ q \in Served BY QuietServed DEF Quiet, Served, Kinds
    <3> HIDE DEF q
    <3>3. r.pc = "revoke" BY <3>2 DEF Served
    <3> HIDE DEF r
    <3> QED BY <1>4, <3>1, <3>3
  <2>10. CASE Answer(o)
    <3>1. op' = [op EXCEPT ![o] = Quiet] /\ Quiet.pc = "idle" BY <2>10 DEF Answer, Quiet
    <3> QED BY <1>4, <3>1
  <2>11. CASE RevokeAll(o)
    <3>1. CASE x = o
      <4>1. op'[o] = [op[o] EXCEPT !.pc = "forget"] BY <2>11 DEF RevokeAll
      <4>2. op'[o].version = op[o].version BY <1>1, <4>1 DEF Served
      <4> QED BY <2>11, <3>1, <4>2
    <3>2. CASE x # o
      <4>1. op'[x] \in {op[x], Outlive(op[x], op[o].version)} BY <2>11, <3>2 DEF RevokeAll
      <4>2. op[x] \in Served /\ op[o].version \in Nat BY <1>1 DEF Served
      <4>3. SameButOutlived(op'[x], op[x]) BY <4>1, <4>2, OutlivesServed
      <4> QED BY <4>3 DEF SameButOutlived
    <3> QED BY <3>1, <3>2
  <2> QED
    BY <1>8, <2>1, <2>2, <2>3, <2>4, <2>5, <2>6, <2>7, <2>8, <2>9, <2>10, <2>11 DEF Serve
<1>9. ASSUME NEW b \in Tabs, NEW c \in Calls, NEW o \in Ops, Refresh(b, c, o)
      PROVE  op'[x].version = op[x].version /\ op[x].pc = "forget"
  <2> DEFINE new == Renewing(Begin(o, "refresh"), "look", stored, b)
  <2>1. Begins(o, new) BY <1>9 DEF Refresh, Renewing
  <2>2. stored \in 0..MaxTokens BY DEF Browser
  <2>3. "look" \in Pcs /\ "refresh" \in Kinds /\ b \in Tabs \cup {NoOp} BY DEF Pcs, Kinds
  <2>4. Begin(o, "refresh") \in Served BY <1>2, <2>3, BeginServed
  <2>5. new.pc = "look" BY <2>2, <2>3, <2>4, RenewingServed
  <2>6. op' = [op EXCEPT ![o] = new] BY <2>1 DEF Begins
  <2> HIDE DEF new
  <2> QED BY <1>4, <2>5, <2>6
<1>10. ASSUME NEW o \in Ops, Refreshed(o)
       PROVE  op'[x].version = op[x].version /\ op[x].pc = "forget"
  <2>1. op' = [op EXCEPT ![o] = Quiet] /\ Quiet.pc = "idle" BY <1>10 DEF Refreshed, Quiet
  <2> QED BY <1>4, <2>1
<1>11. ASSUME NEW b \in Tabs, NEW c \in Calls, Send(b, c) \/ Finish(b, c) PROVE op' = op
  BY <1>11 DEF Send, Finish
<1>12. ASSUME Deactivate \/ Expire \/ UNCHANGED vars PROVE op' = op
  BY <1>12 DEF Deactivate, Expire, vars
<1> QED BY <1>3, <1>7, <1>8, <1>9, <1>10, <1>11, <1>12 DEF Next, Browse

\* What has ended stays so, whoever moves.
LEMMA SweptStays ==
    ASSUME Requests, Links, Account, Browser, Swept, [Next]_vars
    PROVE  Swept'
<1>1. /\ swept \in Nat /\ swept <= user.version
      /\ \A x \in Ops : op[x].version \in Nat
      /\ \A x \in Ops : op[x].pc = "forget" => op[x].version <= user.version
  BY DEF Requests, Account, Served, Good
<1>2. ASSUME NEW w \in Nat, Ended(w), w <= user.version PROVE Ended(w)'
  <2>1. CASE \E o \in Ops : RevokeAll(o) BY <1>2, <2>1, RevokeEnds
  <2>2. CASE \A o \in Ops : ~RevokeAll(o) BY <1>2, <2>2, NextEnded
  <2> QED BY <2>1, <2>2
<1>3. ASSUME NEW x \in Ops, op'[x].pc = "forget", NEW w \in Nat, w = op'[x].version
      PROVE  Ended(w)'
  <2>1. w = op[x].version /\ (op[x].pc = "forget" \/ RevokeAll(x)) BY <1>3, ForgetFollows
  <2>2. CASE op[x].pc = "forget" BY <1>1, <1>2, <2>1, <2>2 DEF Swept
  <2>3. CASE RevokeAll(x) BY <2>1, <2>3, RevokeEnds
  <2> QED BY <2>1, <2>2, <2>3
<1>4. swept' = swept \/ \E x \in Ops : op[x].pc = "forget" /\ swept' = op[x].version
  BY DEF Next, Ask, Begins, Serve, Login, OpenSession, IssuePair, TrustDevice, RotateLook,
         RotateCommit, RefreshAccount, StoreSpend, StoreInsert, Redeem, Resend, CodeLook,
         CodeConsume, CodeCount, ChangeLook, SetPassword, RevokeAll, ForgetDevices, RevokeOne,
         Answer, Deactivate, Browse, Expire, Send, Finish, Refresh, Refreshed, vars, browser
<1>5. ASSUME NEW w \in Nat, w = swept' PROVE Ended(w)'
  BY <1>1, <1>2, <1>4, <1>5 DEF Swept
<1>6. swept' \in Nat BY <1>1, <1>4
<1>7. \A x \in Ops : op'[x].pc = "forget" => op'[x].version \in Nat
  BY <1>1, ForgetFollows
<1>8. Ended(swept)' BY <1>5, <1>6 DEF Ended
<1>9. \A x \in Ops : op'[x].pc = "forget" => Ended(op[x].version)'
  BY <1>3, <1>7 DEF Ended
<1> QED BY <1>8, <1>9 DEF Swept

-----------------------------------------------------------------------------
(* The theorems.                                                            *)

\* Nothing is served yet, one token is live, no link was sent.
LEMMA Initially == Init => IInv
<1> SUFFICES ASSUME Init PROVE IInv OBVIOUS
<1>1. user = [active |-> TRUE, version |-> 0] /\ swept = 0 /\ device = Unknown BY DEF Init
<1>2. Requests
  <2>1. Quiet.pc = "idle" /\ Quiet.active = TRUE /\ Quiet.version = 0 BY DEF Quiet
  <2>2. Good(Quiet, user) BY <1>1, <2>1, QuietServed DEF Good
  <2>3. op = [o \in Ops |-> Quiet] BY DEF Init
  <2> QED BY <2>2, <2>3, QuietServed DEF Requests
<1>3. Links BY SessionsAssumption DEF Init, Links, Link, Live, UsedOnce
<1>4. Account
  <2>1. tokens \in [TokenIds -> Token]
    BY DEF Init, Token
  <2>2. Unknown \in Device /\ Unknown.known = FALSE BY DEF Unknown, Device
  <2> QED BY <1>1, <2>1, <2>2 DEF Account
<1>5. Browser BY SessionsAssumption DEF Init, Browser
<1>6. Swept
  <2>1. \A k \in TokenIds : tokens[k].version = 0 BY DEF Init
  <2>2. \A l \in LinkIds : ~Code(l) BY DEF Init, Code, Live
  <2>3. \A o \in Ops : op[o].pc = "idle" BY DEF Init, Quiet
  <2> QED BY <1>1, <2>1, <2>2, <2>3 DEF Swept, Ended, Holding, Outlasts
<1> QED BY <1>2, <1>3, <1>4, <1>5, <1>6 DEF IInv

\* The invariant is one: every step of a request, of an administrator or of a tab keeps it.
THEOREM Inductive == Spec => []IInv
<1>1. IInv /\ [Next]_vars => IInv'
  BY RequestsStay, LinksStay, AccountStays, SweptStays, BrowserStays, SessionsAssumption DEF IInv
<1> QED BY <1>1, Initially, PTL DEF Spec

\* However many requests are served at once: only a `store` under way holds rows locked, a
\* refresh presents a token, and no code is tried more often than it may be.
THEOREM TypeCorrect == Spec => []TypeOK
<1>1. IInv => TypeOK
  BY DEF IInv, Requests, Good, Formed, Links, Account, Browser, TypeOK
<1> QED BY <1>1, Inductive, PTL

\* A link sets one password and a code opens one session, and one with no try left none.
THEOREM LinksUsedOnce == Spec => []UsedOnce
<1>1. IInv => UsedOnce BY DEF IInv, Links
<1> QED BY <1>1, Inductive, PTL

\* Nothing asked for after the deactivation is answered with tokens.
THEOREM DeactivationFinal == Spec => []DeactivationWins
<1>1. IInv => DeactivationWins BY DEF IInv, Requests, Good, DeactivationWins
<1> QED BY <1>1, Inductive, PTL

\* A password change that has been answered leaves no session and no trusted browser of an
\* earlier password, but for what outlived it.
THEOREM PasswordEndsSessions == Spec => []OldSessionsEnd
<1>1. IInv => OldSessionsEnd BY DEF IInv, Account, Swept, Ended, OldSessionsEnd
<1> QED BY <1>1, Inductive, PTL

-----------------------------------------------------------------------------
(* One tab.                                                                 *)

\* The tokens have been issued in the order of their numbers.
InOrder == \E n \in 0..MaxTokens : Issued = 1..n

\* Token k may be presented: it was issued and has not been exchanged.
Fresh(t, k) == k \in TokenIds /\ t[k].st \notin {"none", "replaced"}

\* The refresh r, served as o, is the one its tab waits for; it presents the stored token,
\* and what it will answer with is fresh.
Shared(o, r, t, held, waits) ==
    /\ r.pc \in {"commit", "account", "replay"} => r.kind = "refresh"
    /\ r.kind = "refresh" => /\ r.tab \in Tabs /\ r.token = held
                             /\ r.pc \in {"look", "commit", "replay", "account", "done"}
                             /\ r.pc \in {"look", "commit", "replay"} => Fresh(t, held)
                             /\ r.pc \in {"account", "done"} => Fresh(t, r.answer)
    /\ r.tab \in Tabs => waits[r.tab] = o /\ (r.kind = "refresh" \/ r.pc = "refused")

OneTab ==
    /\ InOrder
    /\ \A o \in Ops : Shared(o, op[o], tokens, stored, inflight)
    /\ \A b \in Tabs : inflight[b] = NoOp /\ stored # 0 => Fresh(tokens, stored)

\* The next token is one that has not been issued.
LEMMA NextIsNew ==
    ASSUME InOrder, NextToken \in TokenIds
    PROVE  /\ NextToken \notin Issued
           /\ \A k \in TokenIds : k < NextToken <=> k \in Issued
<1>1. PICK n \in 0..MaxTokens : Issued = 1..n BY DEF InOrder
<1>2. n \in Nat BY <1>1, SessionsAssumption
<1>3. Cardinality(1..n) = n BY <1>2, FS_Interval
<1>4. NextToken = n + 1 BY <1>1, <1>3 DEF NextToken
<1> QED BY <1>1, <1>2, <1>4, SessionsAssumption DEF TokenIds

\* A token that is issued comes next in the order.
LEMMA OrderKept ==
    ASSUME InOrder, NextToken \in TokenIds,
           {k \in TokenIds : tokens'[k].st # "none"} = Issued \cup {NextToken}
    PROVE  InOrder'
<1>1. PICK n \in 0..MaxTokens : Issued = 1..n BY DEF InOrder
<1>2. n \in Nat BY <1>1, SessionsAssumption
<1>3. Cardinality(1..n) = n BY <1>2, FS_Interval
<1>4. NextToken = n + 1 BY <1>1, <1>3 DEF NextToken
<1>5. n + 1 \in 0..MaxTokens BY <1>1, <1>4, SessionsAssumption DEF TokenIds
<1>6. Issued' = 1..(n + 1)
  <2>1. Issued' = Issued \cup {n + 1} BY <1>4 DEF Issued
  <2>2. 1..(n + 1) = (1..n) \cup {n + 1} BY <1>2
  <2> QED BY <1>1, <2>1, <2>2
<1> QED BY <1>5, <1>6 DEF InOrder

\* The invariant stays when one request moves, the tab waits and holds what it did, and
\* every fresh token is still fresh.
LEMMA OneTabGoesOn ==
    ASSUME OneTab, NEW o \in Ops, NEW r, op \in [Ops -> Served], op' = [op EXCEPT ![o] = r],
           stored' = stored, inflight' = inflight, InOrder',
           \A k \in TokenIds : Fresh(tokens, k) => Fresh(tokens', k),
           Shared(o, r, tokens', stored, inflight)
    PROVE  OneTab'
<1>1. ASSUME NEW x \in Ops PROVE Shared(x, op'[x], tokens', stored', inflight')
  <2>1. CASE x = o BY <2>1
  <2>2. CASE x # o
    <3>1. op'[x] = op[x] /\ Shared(x, op[x], tokens, stored, inflight) BY <2>2 DEF OneTab
    <3> QED BY <3>1 DEF Shared, Fresh
  <2> QED BY <2>1, <2>2
<1>2. ASSUME NEW b \in Tabs, inflight'[b] = NoOp, stored' # 0 PROVE Fresh(tokens', stored')
  BY <1>2 DEF OneTab, Fresh
<1> QED BY <1>1, <1>2 DEF OneTab

\* The same for a request that only goes on to its next statement.
LEMMA StepKeepsTab ==
    ASSUME Requests, OneTab, NEW o \in Ops, NEW pc \in Pcs, Step(o, pc),
           stored' = stored, inflight' = inflight, InOrder',
           \A k \in TokenIds : Fresh(tokens, k) => Fresh(tokens', k),
           op[o].pc # "refused",
           pc \in {"commit", "account", "replay"} => op[o].kind = "refresh",
           op[o].kind = "refresh" =>
               /\ pc \in {"commit", "replay", "account", "done", "refused"}
               /\ pc \in {"commit", "replay"} => op[o].pc = "look"
               /\ pc \in {"account", "done"} => op[o].pc = "account"
    PROVE  OneTab'
<1>1. op \in [Ops -> Served] /\ op[o] \in Served BY DEF Requests
<1>2. Shared(o, op[o], tokens, stored, inflight) BY DEF OneTab
<1>3. CASE pc = "refused"
  <2>1. op' = [op EXCEPT ![o] = Refused(op[o].tab)] BY <1>3 DEF Step, Refused
  <2>2. op[o].tab \in Tabs \cup {NoOp} BY <1>1 DEF Served
  <2>3. /\ Refused(op[o].tab).pc = "refused" /\ Refused(op[o].tab).kind = "login"
    BY <2>2, RefusedServed
  <2>4. Refused(op[o].tab).tab = op[o].tab BY <2>2 DEF Refused, Quiet
  <2>5. Shared(o, Refused(op[o].tab), tokens', stored, inflight)
    BY <1>2, <2>3, <2>4 DEF Shared
  <2> QED BY <1>1, <2>1, <2>5, OneTabGoesOn
<1>4. CASE pc # "refused"
  <2> DEFINE r == [op[o] EXCEPT !.pc = pc]
  <2>1. op' = [op EXCEPT ![o] = r] BY <1>4 DEF Step
  <2>2. r.pc = pc /\ r.kind = op[o].kind /\ r.tab = op[o].tab /\ r.token = op[o].token
        /\ r.answer = op[o].answer
    BY <1>1 DEF Served
  <2> HIDE DEF r
  <2>3. Shared(o, r, tokens', stored, inflight)
    <3>1. CASE op[o].kind = "refresh"
      BY <1>2, <1>4, <2>2, <3>1 DEF Shared, Fresh
    <3>2. CASE op[o].kind # "refresh" BY <1>2, <1>4, <2>2, <3>2 DEF Shared
    <3> QED BY <3>1, <3>2
  <2> QED BY <1>1, <2>1, <2>3, OneTabGoesOn
<1> QED BY <1>3, <1>4

\* Or has read what it brings.
LEMMA HoldsKeepsTab ==
    ASSUME Requests, OneTab, NEW o \in Ops, NEW pc \in {"open", "store", "commit"}, NEW c,
           c.version \in Nat, c.outlived \in Nat, Holds(o, pc, c),
           stored' = stored, inflight' = inflight, InOrder', op[o].pc # "refused",
           \A k \in TokenIds : Fresh(tokens, k) => Fresh(tokens', k),
           pc = "commit" => op[o].kind = "refresh" /\ op[o].pc = "look",
           pc # "commit" => op[o].kind # "refresh"
    PROVE  OneTab'
<1> DEFINE r == Holder(op[o], pc, c)
<1>1. op \in [Ops -> Served] /\ pc \in Pcs BY DEF Requests, Pcs
<1>2. /\ op' = [op EXCEPT ![o] = r] /\ r.pc = pc /\ r.kind = op[o].kind
      /\ r.token = op[o].token /\ r.answer = op[o].answer /\ r.tab = op[o].tab
  BY <1>1, HolderServed
<1> HIDE DEF r
<1>3. Shared(o, op[o], tokens, stored, inflight) BY DEF OneTab
<1>4. Shared(o, r, tokens', stored, inflight)
  <2>1. CASE pc = "commit" BY <1>2, <1>3, <2>1 DEF Shared, Fresh
  <2>2. CASE pc # "commit" BY <1>2, <1>3, <2>2 DEF Shared
  <2> QED BY <2>1, <2>2
<1> QED BY <1>1, <1>2, <1>4, OneTabGoesOn

\* One that waits for no tab, now or before.
LEMMA PlainKeepsTab ==
    ASSUME Requests, OneTab, NEW o \in Ops, NEW r \in Served, op' = [op EXCEPT ![o] = r],
           stored' = stored, inflight' = inflight, InOrder',
           \A k \in TokenIds : Fresh(tokens, k) => Fresh(tokens', k),
           r.kind # "refresh", r.tab = NoOp, r.pc \notin {"commit", "account", "replay"},
           NoOp \notin Tabs
    PROVE  OneTab'
<1>1. Shared(o, r, tokens', stored, inflight) BY DEF Shared
<1>2. op \in [Ops -> Served] BY DEF Requests
<1> QED BY <1>1, <1>2, OneTabGoesOn

\* What becomes of the tokens: one that is issued is new, and only a rotation makes one
\* replaced.
LEMMA TokensMove ==
    ASSUME Account, InOrder, tokens' = tokens \/ tokens' = AllRevoked
               \/ (NextToken \in TokenIds /\ \E o \in Ops :
                       tokens' = [tokens EXCEPT ![NextToken] = NewToken(o)])
               \/ \E k \in 0..MaxTokens :
                      tokens' = [tokens EXCEPT ![k].st = IF @ = "live" THEN "revoked" ELSE @]
    PROVE  InOrder' /\ \A k \in TokenIds : Fresh(tokens, k) => Fresh(tokens', k)
<1>1. tokens \in [TokenIds -> Token] BY DEF Account
<1>2. ASSUME \A k \in TokenIds : /\ tokens'[k].st = "none" <=> tokens[k].st = "none"
                                 /\ tokens'[k].st = "replaced" <=> tokens[k].st = "replaced"
      PROVE  InOrder' /\ \A k \in TokenIds : Fresh(tokens, k) => Fresh(tokens', k)
  <2>1. Issued' = Issued BY <1>2 DEF Issued
  <2> QED BY <1>2, <2>1 DEF InOrder, Fresh
<1>3. CASE tokens' = tokens BY <1>2, <1>3
<1>4. CASE tokens' = AllRevoked BY <1>1, <1>2, <1>4 DEF AllRevoked, Token
<1>5. ASSUME NextToken \in TokenIds, NEW o \in Ops,
             tokens' = [tokens EXCEPT ![NextToken] = NewToken(o)]
      PROVE  InOrder' /\ \A k \in TokenIds : Fresh(tokens, k) => Fresh(tokens', k)
  <2>1. NextToken \notin Issued BY <1>5, NextIsNew
  <2>3. \A k \in TokenIds : k # NextToken => tokens'[k] = tokens[k] BY <1>1, <1>5
  <2>4. tokens'[NextToken].st = "live" BY <1>1, <1>5 DEF NewToken
  <2>5. {k \in TokenIds : tokens'[k].st # "none"} = Issued \cup {NextToken}
    BY <1>5, <2>3, <2>4 DEF Issued
  <2> QED BY <1>5, <2>1, <2>3, <2>4, <2>5, OrderKept DEF Fresh, Issued
<1>6. ASSUME NEW j \in 0..MaxTokens,
             tokens' = [tokens EXCEPT ![j].st = IF @ = "live" THEN "revoked" ELSE @]
      PROVE  InOrder' /\ \A k \in TokenIds : Fresh(tokens, k) => Fresh(tokens', k)
  BY <1>1, <1>2, <1>6 DEF Token
<1> QED BY <1>3, <1>4, <1>5, <1>6

\* Every statement of a request keeps it, when there is one tab.
LEMMA ServeKeepsTab ==
    ASSUME Requests, Links, Account, OneTab, NEW b, Tabs = {b}, NEW o \in Ops, Serve(o)
    PROVE  OneTab'
<1>1. op \in [Ops -> Served] /\ op[o] \in Served BY DEF Requests
<1>2. Shared(o, op[o], tokens, stored, inflight) /\ InOrder BY DEF OneTab
<1>3. NoOp \notin Tabs BY SessionsAssumption
<1>4. ASSUME Login(o) PROVE OneTab'
  <2>1. stored' = stored /\ inflight' = inflight /\ tokens' = tokens /\ op[o].pc \in {"look", "consume"}
    BY <1>4 DEF Login, browser
  <2>2. InOrder' /\ \A k \in TokenIds : Fresh(tokens, k) => Fresh(tokens', k)
    BY <1>2, <2>1, TokensMove
  <2>3. ASSUME NEW pc \in {"open", "store"}, NEW c \in {[version |-> user.version, outlived |-> 0]}, Holds(o, pc, c) PROVE OneTab'
    <3>1. c.version \in Nat /\ c.outlived \in Nat BY DEF Account, Token, Link
    <3>2. pc = "commit" => op[o].kind = "refresh" /\ op[o].pc = "look"
      BY <1>4, <2>3 DEF Login
    <3>3. pc # "commit" => op[o].kind # "refresh"
      BY <1>4, <2>3 DEF Login
    <3> QED BY <2>1, <2>2, <2>3, <3>1, <3>2, <3>3, HoldsKeepsTab
  <2>4. ASSUME NEW pc \in {"refused"}, Step(o, pc) PROVE OneTab'
    <3>1. /\ pc \in Pcs /\ op[o].pc # "refused"
          /\ pc \in {"commit", "account", "replay"} => op[o].kind = "refresh"
          /\ op[o].kind = "refresh" =>
                 /\ pc \in {"commit", "replay", "account", "done", "refused"}
                 /\ pc \in {"commit", "replay"} => op[o].pc = "look"
                 /\ pc \in {"account", "done"} => op[o].pc = "account"
      BY <1>4, <2>4 DEF Login, Pcs
    <3> QED BY <2>1, <2>2, <2>4, <3>1, StepKeepsTab
  <2>5. \/ \E pc \in {"open", "store"}, c \in {[version |-> user.version, outlived |-> 0]} : Holds(o, pc, c)
        \/ \E pc \in {"refused"} : Step(o, pc)
    BY <1>4 DEF Login
  <2> QED BY <2>3, <2>4, <2>5
<1>5. ASSUME OpenSession(o) PROVE OneTab'
  <2>1. PICK pc \in {"token", "refused"} : Step(o, pc) BY <1>5 DEF OpenSession
  <2>2. stored' = stored /\ inflight' = inflight BY <1>5 DEF OpenSession, browser
  <2>3. InOrder' /\ \A k \in TokenIds : Fresh(tokens, k) => Fresh(tokens', k)
    BY <1>1, <1>2, <1>5, TokensMove DEF OpenSession, Served
  <2>4. pc \in Pcs BY <2>1 DEF Pcs
  <2>5. /\ op[o].pc # "refused"
        /\ pc \in {"commit", "account", "replay"} => op[o].kind = "refresh"
        /\ op[o].kind = "refresh" =>
               /\ pc \in {"commit", "replay", "account", "done", "refused"}
               /\ pc \in {"commit", "replay"} => op[o].pc = "look"
               /\ pc \in {"account", "done"} => op[o].pc = "account"
    BY <1>2, <1>5, <2>1 DEF OpenSession, Shared
  <2> QED BY <2>1, <2>2, <2>3, <2>4, <2>5, StepKeepsTab
<1>6. ASSUME TrustDevice(o) PROVE OneTab'
  <2>1. PICK pc \in {"done"} : Step(o, pc) BY <1>6 DEF TrustDevice
  <2>2. stored' = stored /\ inflight' = inflight BY <1>6 DEF TrustDevice, browser
  <2>3. InOrder' /\ \A k \in TokenIds : Fresh(tokens, k) => Fresh(tokens', k)
    BY <1>1, <1>2, <1>6, TokensMove DEF TrustDevice, Served
  <2>4. pc \in Pcs BY <2>1 DEF Pcs
  <2>5. /\ op[o].pc # "refused"
        /\ pc \in {"commit", "account", "replay"} => op[o].kind = "refresh"
        /\ op[o].kind = "refresh" =>
               /\ pc \in {"commit", "replay", "account", "done", "refused"}
               /\ pc \in {"commit", "replay"} => op[o].pc = "look"
               /\ pc \in {"account", "done"} => op[o].pc = "account"
    BY <1>2, <1>6, <2>1 DEF TrustDevice, Shared
  <2> QED BY <2>1, <2>2, <2>3, <2>4, <2>5, StepKeepsTab
<1>7. ASSUME RotateLook(o) PROVE OneTab'
  <2>1. stored' = stored /\ inflight' = inflight /\ tokens' = tokens /\ op[o].pc \in {"look", "consume"}
    BY <1>7 DEF RotateLook, browser
  <2>2. InOrder' /\ \A k \in TokenIds : Fresh(tokens, k) => Fresh(tokens', k)
    BY <1>2, <2>1, TokensMove
  <2>3. ASSUME NEW pc \in {"commit"}, NEW c \in Token, Holds(o, pc, c) PROVE OneTab'
    <3>1. c.version \in Nat /\ c.outlived \in Nat BY DEF Account, Token, Link
    <3>2. pc = "commit" => op[o].kind = "refresh" /\ op[o].pc = "look"
      BY <1>7, <2>3 DEF RotateLook
    <3>3. pc # "commit" => op[o].kind # "refresh"
      BY <1>7, <2>3 DEF RotateLook
    <3> QED BY <2>1, <2>2, <2>3, <3>1, <3>2, <3>3, HoldsKeepsTab
  <2>4. ASSUME NEW pc \in {"replay"}, Step(o, pc) PROVE OneTab'
    <3>1. /\ pc \in Pcs /\ op[o].pc # "refused"
          /\ pc \in {"commit", "account", "replay"} => op[o].kind = "refresh"
          /\ op[o].kind = "refresh" =>
                 /\ pc \in {"commit", "replay", "account", "done", "refused"}
                 /\ pc \in {"commit", "replay"} => op[o].pc = "look"
                 /\ pc \in {"account", "done"} => op[o].pc = "account"
      BY <1>7, <2>4 DEF RotateLook, Pcs
    <3> QED BY <2>1, <2>2, <2>4, <3>1, StepKeepsTab
  <2>5. \/ \E pc \in {"commit"}, c \in Token : Holds(o, pc, c)
        \/ \E pc \in {"replay"} : Step(o, pc)
    <3>1. op[o].kind = "refresh" BY <1>7 DEF RotateLook
    <3>2. tokens[op[o].token] \in Token BY <1>2, <3>1 DEF Requests, Good, Formed, Account
    <3> QED BY <1>7, <3>2 DEF RotateLook
  <2> QED BY <2>3, <2>4, <2>5
<1>8. ASSUME RefreshAccount(o) PROVE OneTab'
  <2>1. PICK pc \in {"done", "refused"} : Step(o, pc) BY <1>8 DEF RefreshAccount
  <2>2. stored' = stored /\ inflight' = inflight BY <1>8 DEF RefreshAccount, browser
  <2>3. InOrder' /\ \A k \in TokenIds : Fresh(tokens, k) => Fresh(tokens', k)
    BY <1>1, <1>2, <1>8, TokensMove DEF RefreshAccount, Served
  <2>4. pc \in Pcs BY <2>1 DEF Pcs
  <2>5. /\ op[o].pc # "refused"
        /\ pc \in {"commit", "account", "replay"} => op[o].kind = "refresh"
        /\ op[o].kind = "refresh" =>
               /\ pc \in {"commit", "replay", "account", "done", "refused"}
               /\ pc \in {"commit", "replay"} => op[o].pc = "look"
               /\ pc \in {"account", "done"} => op[o].pc = "account"
    BY <1>2, <1>8, <2>1 DEF RefreshAccount, Shared
  <2> QED BY <2>1, <2>2, <2>3, <2>4, <2>5, StepKeepsTab
<1>9. ASSUME Redeem(o) PROVE OneTab'
  <2>1. PICK pc \in {"password", "refused"} : Step(o, pc) BY <1>9 DEF Redeem
  <2>2. stored' = stored /\ inflight' = inflight BY <1>9 DEF Redeem, browser
  <2>3. InOrder' /\ \A k \in TokenIds : Fresh(tokens, k) => Fresh(tokens', k)
    BY <1>1, <1>2, <1>9, TokensMove DEF Redeem, Served
  <2>4. pc \in Pcs BY <2>1 DEF Pcs
  <2>5. /\ op[o].pc # "refused"
        /\ pc \in {"commit", "account", "replay"} => op[o].kind = "refresh"
        /\ op[o].kind = "refresh" =>
               /\ pc \in {"commit", "replay", "account", "done", "refused"}
               /\ pc \in {"commit", "replay"} => op[o].pc = "look"
               /\ pc \in {"account", "done"} => op[o].pc = "account"
    BY <1>2, <1>9, <2>1 DEF Redeem, Shared
  <2> QED BY <2>1, <2>2, <2>3, <2>4, <2>5, StepKeepsTab
<1>10. ASSUME Resend(o) PROVE OneTab'
  <2>1. stored' = stored /\ inflight' = inflight /\ tokens' = tokens /\ op[o].pc \in {"look", "consume"}
    BY <1>10 DEF Resend, browser
  <2>2. InOrder' /\ \A k \in TokenIds : Fresh(tokens, k) => Fresh(tokens', k)
    BY <1>2, <2>1, TokensMove
  <2>3. ASSUME NEW pc \in {"store"}, NEW c \in Link, Holds(o, pc, c) PROVE OneTab'
    <3>1. c.version \in Nat /\ c.outlived \in Nat BY DEF Account, Token, Link
    <3>2. pc = "commit" => op[o].kind = "refresh" /\ op[o].pc = "look"
      BY <1>10, <2>3 DEF Resend
    <3>3. pc # "commit" => op[o].kind # "refresh"
      BY <1>10, <2>3 DEF Resend
    <3> QED BY <2>1, <2>2, <2>3, <3>1, <3>2, <3>3, HoldsKeepsTab
  <2>4. ASSUME NEW pc \in {"refused"}, Step(o, pc) PROVE OneTab'
    <3>1. /\ pc \in Pcs /\ op[o].pc # "refused"
          /\ pc \in {"commit", "account", "replay"} => op[o].kind = "refresh"
          /\ op[o].kind = "refresh" =>
                 /\ pc \in {"commit", "replay", "account", "done", "refused"}
                 /\ pc \in {"commit", "replay"} => op[o].pc = "look"
                 /\ pc \in {"account", "done"} => op[o].pc = "account"
      BY <1>10, <2>4 DEF Resend, Pcs
    <3> QED BY <2>1, <2>2, <2>4, <3>1, StepKeepsTab
  <2>5. \/ \E pc \in {"store"}, c \in Link : Holds(o, pc, c)
        \/ \E pc \in {"refused"} : Step(o, pc)
    <3>1. Code(op[o].link) => links[op[o].link] \in Link BY DEF Code, Live, Links
    <3> QED BY <1>10, <3>1 DEF Resend
  <2> QED BY <2>3, <2>4, <2>5
<1>11. ASSUME CodeLook(o) PROVE OneTab'
  <2>1. PICK pc \in {"consume", "refused"} : Step(o, pc) BY <1>11 DEF CodeLook
  <2>2. stored' = stored /\ inflight' = inflight BY <1>11 DEF CodeLook, browser
  <2>3. InOrder' /\ \A k \in TokenIds : Fresh(tokens, k) => Fresh(tokens', k)
    BY <1>1, <1>2, <1>11, TokensMove DEF CodeLook, Served
  <2>4. pc \in Pcs BY <2>1 DEF Pcs
  <2>5. /\ op[o].pc # "refused"
        /\ pc \in {"commit", "account", "replay"} => op[o].kind = "refresh"
        /\ op[o].kind = "refresh" =>
               /\ pc \in {"commit", "replay", "account", "done", "refused"}
               /\ pc \in {"commit", "replay"} => op[o].pc = "look"
               /\ pc \in {"account", "done"} => op[o].pc = "account"
    BY <1>2, <1>11, <2>1 DEF CodeLook, Shared
  <2> QED BY <2>1, <2>2, <2>3, <2>4, <2>5, StepKeepsTab
<1>12. ASSUME CodeConsume(o) PROVE OneTab'
  <2>1. stored' = stored /\ inflight' = inflight /\ tokens' = tokens /\ op[o].pc \in {"look", "consume"}
    BY <1>12 DEF CodeConsume, browser
  <2>2. InOrder' /\ \A k \in TokenIds : Fresh(tokens, k) => Fresh(tokens', k)
    BY <1>2, <2>1, TokensMove
  <2>3. ASSUME NEW pc \in {"open"}, NEW c \in Link, Holds(o, pc, c) PROVE OneTab'
    <3>1. c.version \in Nat /\ c.outlived \in Nat BY DEF Account, Token, Link
    <3>2. pc = "commit" => op[o].kind = "refresh" /\ op[o].pc = "look"
      BY <1>12, <2>3 DEF CodeConsume
    <3>3. pc # "commit" => op[o].kind # "refresh"
      BY <1>12, <2>3 DEF CodeConsume
    <3> QED BY <2>1, <2>2, <2>3, <3>1, <3>2, <3>3, HoldsKeepsTab
  <2>4. ASSUME NEW pc \in {"count"}, Step(o, pc) PROVE OneTab'
    <3>1. /\ pc \in Pcs /\ op[o].pc # "refused"
          /\ pc \in {"commit", "account", "replay"} => op[o].kind = "refresh"
          /\ op[o].kind = "refresh" =>
                 /\ pc \in {"commit", "replay", "account", "done", "refused"}
                 /\ pc \in {"commit", "replay"} => op[o].pc = "look"
                 /\ pc \in {"account", "done"} => op[o].pc = "account"
      BY <1>12, <2>4 DEF CodeConsume, Pcs
    <3> QED BY <2>1, <2>2, <2>4, <3>1, StepKeepsTab
  <2>5. \/ \E pc \in {"open"}, c \in Link : Holds(o, pc, c)
        \/ \E pc \in {"count"} : Step(o, pc)
    <3>1. Spendable(op[o].link) => links[op[o].link] \in Link
      BY DEF Spendable, Live, Links
    <3> QED BY <1>12, <3>1 DEF CodeConsume
  <2> QED BY <2>3, <2>4, <2>5
<1>13. ASSUME CodeCount(o) PROVE OneTab'
  <2>1. PICK pc \in {"refused"} : Step(o, pc) BY <1>13 DEF CodeCount
  <2>2. stored' = stored /\ inflight' = inflight BY <1>13 DEF CodeCount, browser
  <2>3. InOrder' /\ \A k \in TokenIds : Fresh(tokens, k) => Fresh(tokens', k)
    BY <1>1, <1>2, <1>13, TokensMove DEF CodeCount, Served
  <2>4. pc \in Pcs BY <2>1 DEF Pcs
  <2>5. /\ op[o].pc # "refused"
        /\ pc \in {"commit", "account", "replay"} => op[o].kind = "refresh"
        /\ op[o].kind = "refresh" =>
               /\ pc \in {"commit", "replay", "account", "done", "refused"}
               /\ pc \in {"commit", "replay"} => op[o].pc = "look"
               /\ pc \in {"account", "done"} => op[o].pc = "account"
    BY <1>2, <1>13, <2>1 DEF CodeCount, Shared
  <2> QED BY <2>1, <2>2, <2>3, <2>4, <2>5, StepKeepsTab
<1>14. ASSUME ChangeLook(o) PROVE OneTab'
  <2>1. PICK pc \in {"password", "refused"} : Step(o, pc) BY <1>14 DEF ChangeLook
  <2>2. stored' = stored /\ inflight' = inflight BY <1>14 DEF ChangeLook, browser
  <2>3. InOrder' /\ \A k \in TokenIds : Fresh(tokens, k) => Fresh(tokens', k)
    BY <1>1, <1>2, <1>14, TokensMove DEF ChangeLook, Served
  <2>4. pc \in Pcs BY <2>1 DEF Pcs
  <2>5. /\ op[o].pc # "refused"
        /\ pc \in {"commit", "account", "replay"} => op[o].kind = "refresh"
        /\ op[o].kind = "refresh" =>
               /\ pc \in {"commit", "replay", "account", "done", "refused"}
               /\ pc \in {"commit", "replay"} => op[o].pc = "look"
               /\ pc \in {"account", "done"} => op[o].pc = "account"
    BY <1>2, <1>14, <2>1 DEF ChangeLook, Shared
  <2> QED BY <2>1, <2>2, <2>3, <2>4, <2>5, StepKeepsTab
<1>15. ASSUME RevokeAll(o) PROVE OneTab'
  <2>1. stored' = stored /\ inflight' = inflight /\ tokens' = AllRevoked /\ op[o].pc = "revoke"
    BY <1>15 DEF RevokeAll, browser
  <2>2. InOrder' /\ \A k \in TokenIds : Fresh(tokens, k) => Fresh(tokens', k)
    BY <1>2, <2>1, TokensMove
  <2>3. ASSUME NEW x \in Ops PROVE Shared(x, op'[x], tokens', stored', inflight')
    <3>1. op[x] \in Served /\ op[o].version \in Nat /\ Shared(x, op[x], tokens, stored, inflight)
      BY <1>1 DEF OneTab, Served
    <3>2. CASE x = o
      <4>1. op'[o] = [op[o] EXCEPT !.pc = "forget"] BY <1>15 DEF RevokeAll
      <4>2. /\ op'[o].pc = "forget" /\ op'[o].kind = op[o].kind /\ op'[o].tab = op[o].tab
        BY <1>1, <4>1 DEF Served
      <4> QED BY <1>2, <2>1, <3>2, <4>2 DEF Shared
    <3>3. CASE x # o
      <4>1. op'[x] \in {op[x], Outlive(op[x], op[o].version)} BY <1>15, <3>3 DEF RevokeAll
      <4>2. SameButOutlived(op'[x], op[x]) BY <3>1, <4>1, OutlivesServed
      <4> QED BY <2>1, <2>2, <3>1, <4>2 DEF Shared, SameButOutlived, Fresh
    <3> QED BY <3>2, <3>3
  <2>4. \A c \in Tabs : inflight'[c] = NoOp /\ stored' # 0 => Fresh(tokens', stored')
    BY <2>1, <2>2 DEF OneTab, Fresh
  <2> QED BY <2>2, <2>3, <2>4 DEF OneTab
<1>16. ASSUME ForgetDevices(o) PROVE OneTab'
  <2>1. PICK pc \in {"done"} : Step(o, pc) BY <1>16 DEF ForgetDevices
  <2>2. stored' = stored /\ inflight' = inflight BY <1>16 DEF ForgetDevices, browser
  <2>3. InOrder' /\ \A k \in TokenIds : Fresh(tokens, k) => Fresh(tokens', k)
    BY <1>1, <1>2, <1>16, TokensMove DEF ForgetDevices, Served
  <2>4. pc \in Pcs BY <2>1 DEF Pcs
  <2>5. /\ op[o].pc # "refused"
        /\ pc \in {"commit", "account", "replay"} => op[o].kind = "refresh"
        /\ op[o].kind = "refresh" =>
               /\ pc \in {"commit", "replay", "account", "done", "refused"}
               /\ pc \in {"commit", "replay"} => op[o].pc = "look"
               /\ pc \in {"account", "done"} => op[o].pc = "account"
    BY <1>2, <1>16, <2>1 DEF ForgetDevices, Shared
  <2> QED BY <2>1, <2>2, <2>3, <2>4, <2>5, StepKeepsTab
<1>17. ASSUME RevokeOne(o) PROVE OneTab'
  <2>1. PICK pc \in {"done"} : Step(o, pc) BY <1>17 DEF RevokeOne
  <2>2. stored' = stored /\ inflight' = inflight BY <1>17 DEF RevokeOne, browser
  <2>3. InOrder' /\ \A k \in TokenIds : Fresh(tokens, k) => Fresh(tokens', k)
    BY <1>1, <1>2, <1>17, TokensMove DEF RevokeOne, Served
  <2>4. pc \in Pcs BY <2>1 DEF Pcs
  <2>5. /\ op[o].pc # "refused"
        /\ pc \in {"commit", "account", "replay"} => op[o].kind = "refresh"
        /\ op[o].kind = "refresh" =>
               /\ pc \in {"commit", "replay", "account", "done", "refused"}
               /\ pc \in {"commit", "replay"} => op[o].pc = "look"
               /\ pc \in {"account", "done"} => op[o].pc = "account"
    BY <1>2, <1>17, <2>1 DEF RevokeOne, Shared
  <2> QED BY <2>1, <2>2, <2>3, <2>4, <2>5, StepKeepsTab
<1>18. ASSUME IssuePair(o) PROVE OneTab'
  <2>1. op[o].pc \notin {"look", "commit", "replay", "account", "done", "refused"}
        /\ stored' = stored /\ inflight' = inflight
    BY <1>18 DEF IssuePair, browser
  <2>2. op[o].kind # "refresh" /\ op[o].tab = NoOp
    BY <1>1, <1>2, <2>1 DEF Shared, Served
  <2>3. InOrder' /\ \A k \in TokenIds : Fresh(tokens, k) => Fresh(tokens', k)
    BY <1>2, <1>18, TokensMove DEF IssuePair
  <2> DEFINE pc == IF op[o].kind = "verify" THEN "trust" ELSE "done"
             r == [op[o] EXCEPT !.pc = pc, !.answer = NextToken]
  <2>4. op' = [op EXCEPT ![o] = r] BY <1>1, <1>18 DEF IssuePair
  <2>5. NextToken \in 0..MaxTokens /\ pc \in {"trust", "done"}
    BY <1>18, SessionsAssumption DEF IssuePair, TokenIds
  <2> HIDE DEF pc
  <2>6. r \in Served /\ r.pc = pc /\ r.kind = op[o].kind /\ r.tab = op[o].tab
    BY <1>1, <2>5 DEF Served
  <2> HIDE DEF r
  <2> QED BY <1>3, <2>1, <2>2, <2>3, <2>4, <2>5, <2>6, PlainKeepsTab
<1>19. ASSUME StoreSpend(o) PROVE OneTab'
  <2>1. op[o].pc \notin {"look", "commit", "replay", "account", "done", "refused"}
        /\ stored' = stored /\ inflight' = inflight
    BY <1>19 DEF StoreSpend, browser
  <2>2. op[o].kind # "refresh" /\ op[o].tab = NoOp
    BY <1>1, <1>2, <2>1 DEF Shared, Served
  <2>3. InOrder' /\ \A k \in TokenIds : Fresh(tokens, k) => Fresh(tokens', k)
    BY <1>2, <1>19, TokensMove DEF StoreSpend
  <2> DEFINE old == {l \in Sent : links[l].st = "live" /\ links[l].purpose = Purpose(o)}
             r == [op[o] EXCEPT !.pc = "insert", !.locks = old]
  <2>4. op' = [op EXCEPT ![o] = r] BY <1>1, <1>19 DEF StoreSpend
  <2>5. old \in SUBSET LinkIds BY DEF Sent
  <2> HIDE DEF old
  <2>6. r \in Served /\ r.pc = "insert" /\ r.kind = op[o].kind /\ r.tab = op[o].tab
    BY <1>1, <2>5 DEF Served
  <2> HIDE DEF r
  <2> QED BY <1>3, <2>1, <2>2, <2>3, <2>4, <2>6, PlainKeepsTab
<1>20. ASSUME StoreInsert(o) PROVE OneTab'
  <2>1. op[o].pc \notin {"look", "commit", "replay", "account", "done", "refused"}
        /\ stored' = stored /\ inflight' = inflight
    BY <1>20 DEF StoreInsert, browser
  <2>2. op[o].kind # "refresh" /\ op[o].tab = NoOp
    BY <1>1, <1>2, <2>1 DEF Shared, Served
  <2>3. InOrder' /\ \A k \in TokenIds : Fresh(tokens, k) => Fresh(tokens', k)
    BY <1>2, <1>20, TokensMove DEF StoreInsert
  <2>4. PICK next \in {"done", "open"} : op' = [op EXCEPT ![o].pc = next, ![o].locks = {}]
    BY <1>20 DEF StoreInsert
  <2> DEFINE r == [op[o] EXCEPT !.pc = next, !.locks = {}]
  <2>5. op' = [op EXCEPT ![o] = r] BY <1>1, <2>4
  <2>6. r \in Served /\ r.pc = next /\ r.kind = op[o].kind /\ r.tab = op[o].tab
    BY <1>1 DEF Served
  <2> HIDE DEF r
  <2> QED BY <1>3, <2>1, <2>2, <2>3, <2>5, <2>6, PlainKeepsTab
<1>21. ASSUME SetPassword(o) PROVE OneTab'
  <2>1. op[o].pc \notin {"look", "commit", "replay", "account", "done", "refused"}
        /\ stored' = stored /\ inflight' = inflight
    BY <1>21 DEF SetPassword, browser
  <2>2. op[o].kind # "refresh" /\ op[o].tab = NoOp
    BY <1>1, <1>2, <2>1 DEF Shared, Served
  <2>3. InOrder' /\ \A k \in TokenIds : Fresh(tokens, k) => Fresh(tokens', k)
    BY <1>2, <1>21, TokensMove DEF SetPassword
  <2> DEFINE q == [Quiet EXCEPT !.pc = "revoke", !.kind = "change"]
             v == user.version + 1
             r == [q EXCEPT !.version = v]
  <2>4. op' = [op EXCEPT ![o] = r] BY <1>21 DEF SetPassword
  <2>5. q \in Served /\ q.pc = "revoke" /\ q.kind = "change" /\ q.tab = NoOp
    BY QuietServed DEF Quiet, Served, Kinds
  <2>6. v \in Nat BY DEF Account
  <2> HIDE DEF q, v
  <2>7. r \in Served /\ r.pc = "revoke" /\ r.kind = "change" /\ r.tab = NoOp
    BY <2>5, <2>6 DEF Served
  <2> HIDE DEF r
  <2> QED BY <1>3, <2>1, <2>3, <2>4, <2>7, PlainKeepsTab
<1>22. ASSUME Answer(o) PROVE OneTab'
  <2>1. /\ stored' = stored /\ inflight' = inflight /\ tokens' = tokens
        /\ op' = [op EXCEPT ![o] = Quiet]
    BY <1>22 DEF Answer, browser
  <2>2. InOrder' /\ \A k \in TokenIds : Fresh(tokens, k) => Fresh(tokens', k)
    BY <1>2, <2>1, TokensMove
  <2>3. Quiet.kind # "refresh" /\ Quiet.tab = NoOp /\ Quiet.pc = "idle" BY DEF Quiet
  <2> QED BY <1>3, <2>1, <2>2, <2>3, QuietServed, PlainKeepsTab
<1>23. ASSUME RotateCommit(o) PROVE OneTab'
  <2>1. op[o].pc = "commit" /\ NextToken \in TokenIds /\ stored' = stored /\ inflight' = inflight
    BY <1>23 DEF RotateCommit, browser
  <2>2. /\ op[o].kind = "refresh" /\ op[o].tab = b /\ op[o].token = stored
        /\ Fresh(tokens, stored) /\ inflight[b] = o
    BY <1>2, <2>1 DEF Shared
  <2>3. NextToken \notin Issued /\ stored \in Issued /\ stored # NextToken
    BY <1>2, <2>1, <2>2, NextIsNew DEF Fresh, Issued
  <2> DEFINE t == [tokens EXCEPT ![NextToken] = NewToken(o)]
             r == [op[o] EXCEPT !.pc = "account", !.answer = NextToken]
  <2>4. tokens' = [t EXCEPT ![stored].st = "replaced"] BY <1>23, <2>2 DEF RotateCommit
  <2>5. tokens \in [TokenIds -> Token] BY DEF Account
  <2>6. t \in [TokenIds -> Token] /\ t[NextToken].st = "live"
        /\ \A k \in TokenIds : k # NextToken => t[k] = tokens[k]
    <3>1. NewToken(o) \in Token /\ NewToken(o).st = "live" BY <1>1 DEF Served, NewToken, Token
    <3> QED BY <2>1, <2>5, <3>1
  <2> HIDE DEF t
  <2>7. /\ \A k \in TokenIds : k # stored => tokens'[k] = t[k]
        /\ tokens'[stored].st = "replaced"
    BY <2>2, <2>4, <2>6 DEF Fresh, Token
  <2>8. {k \in TokenIds : tokens'[k].st # "none"} = Issued \cup {NextToken}
    BY <2>1, <2>2, <2>3, <2>6, <2>7 DEF Issued, Fresh
  <2>9. InOrder' BY <1>2, <2>1, <2>8, OrderKept
  <2>10. Fresh(tokens', NextToken) BY <2>1, <2>3, <2>6, <2>7 DEF Fresh
  <2>11. op' = [op EXCEPT ![o] = r] BY <1>1, <1>23 DEF RotateCommit
  <2>12. r.pc = "account" /\ r.answer = NextToken /\ r.kind = op[o].kind /\ r.tab = op[o].tab
         /\ r.token = op[o].token
    BY <1>1 DEF Served
  <2> HIDE DEF r
  <2>13. Shared(o, r, tokens', stored, inflight)
    BY <1>2, <2>2, <2>10, <2>12 DEF Shared
  <2>14. ASSUME NEW x \in Ops, x # o PROVE Shared(x, op[x], tokens', stored, inflight)
    BY <2>2, <2>14 DEF OneTab, Shared
  <2>15. \A x \in Ops : Shared(x, op'[x], tokens', stored', inflight')
    BY <1>1, <2>1, <2>11, <2>13, <2>14
  <2>16. \A c \in Tabs : inflight'[c] # NoOp BY <2>1, <2>2, SessionsAssumption
  <2> QED BY <2>9, <2>15, <2>16 DEF OneTab
<1> QED
  BY <1>4, <1>5, <1>6, <1>7, <1>8, <1>9, <1>10, <1>11, <1>12, <1>13, <1>14, <1>15, <1>16, <1>17,
     <1>18, <1>19, <1>20, <1>21, <1>22, <1>23 DEF Serve

\* So does whatever else happens: new requests, the deactivation, and the tab itself.
LEMMA NextKeepsTab ==
    ASSUME IInv, OneTab, NEW b, Tabs = {b}, [Next]_vars
    PROVE  OneTab'
<1>1. op \in [Ops -> Served] /\ Requests /\ Account /\ InOrder BY DEF IInv, Requests, OneTab
<1>2. NoOp \notin Tabs BY SessionsAssumption
<1>3. user \in [active: BOOLEAN, version: Nat] BY DEF IInv, Account
<1>4. ASSUME UNCHANGED <<op, tokens, stored, inflight>> PROVE OneTab'
  <2>1. InOrder' BY <1>1, <1>4, TokensMove
  <2> QED BY <1>4, <2>1 DEF OneTab
<1>5. ASSUME NEW o \in Ops, Ask(o) PROVE OneTab'
  <2>1. stored' = stored /\ inflight' = inflight /\ tokens' = tokens BY <1>5 DEF Ask, Begins
  <2>2. InOrder' /\ \A k \in TokenIds : Fresh(tokens, k) => Fresh(tokens', k)
    BY <1>1, <2>1, TokensMove
  <2>3. PICK r \in Served : /\ op' = [op EXCEPT ![o] = r] /\ r.kind # "refresh" /\ r.tab = NoOp
                            /\ r.pc \notin {"commit", "account", "replay"}
    <3>1. PICK r \in Served : Begins(o, r) /\ FreshRequest(r) BY <1>5, AskForm DEF IInv
    <3> QED BY <3>1 DEF Begins, FreshRequest
  <2> QED BY <1>1, <1>2, <2>1, <2>2, <2>3, PlainKeepsTab
<1>6. ASSUME NEW c \in Calls, NEW o \in Ops, Refresh(b, c, o) PROVE OneTab'
  <2> DEFINE new == Renewing(Begin(o, "refresh"), "look", stored, b)
  <2>1. Begins(o, new) /\ inflight[b] = NoOp /\ stored # 0
        /\ inflight' = [inflight EXCEPT ![b] = o]
    BY <1>6 DEF Refresh, Renewing, NoneInFlight, HoldsToken
  <2>2. op' = [op EXCEPT ![o] = new] /\ tokens' = tokens /\ stored' = stored
    BY <2>1 DEF Begins
  <2>3. stored \in 0..MaxTokens /\ "look" \in Pcs /\ "refresh" \in Kinds /\ b \in Tabs \cup {NoOp}
    BY DEF IInv, Browser, Pcs, Kinds
  <2>4. Begin(o, "refresh") \in Served /\ Begin(o, "refresh").kind = "refresh"
    BY <1>3, <2>3, BeginServed
  <2>5. new.pc = "look" /\ new.kind = "refresh" /\ new.token = stored /\ new.tab = b
    <3>1. new.pc = "look" /\ new.kind = "refresh" /\ new.token = stored
      BY <2>3, <2>4, RenewingServed
    <3>2. new.tab = b BY <2>4 DEF Renewing, Served
    <3> QED BY <3>1, <3>2
  <2> HIDE DEF new
  <2>6. Fresh(tokens, stored) BY <2>1 DEF OneTab
  <2>7. inflight'[b] = o BY <2>1 DEF IInv, Browser
  <2>8. Shared(o, new, tokens', stored', inflight') BY <2>2, <2>5, <2>6, <2>7 DEF Shared
  <2>9. ASSUME NEW x \in Ops, x # o PROVE Shared(x, op[x], tokens', stored', inflight')
    BY <2>1, <2>2, <2>9, SessionsAssumption DEF OneTab, Shared
  <2>10. \A x \in Ops : Shared(x, op'[x], tokens', stored', inflight')
    BY <1>1, <2>2, <2>8, <2>9
  <2>11. InOrder' BY <1>1, <2>2, TokensMove
  <2> QED BY <2>7, <2>10, <2>11, SessionsAssumption DEF OneTab
<1>7. ASSUME NEW o \in Ops, Refreshed(o) PROVE OneTab'
  <2>1. /\ op[o].tab # NoOp /\ op[o].pc \in {"done", "refused", "replay"}
        /\ stored' = IF op[o].pc = "done" THEN op[o].answer ELSE 0
        /\ op' = [op EXCEPT ![o] = Quiet] /\ tokens' = tokens
        /\ inflight' = [inflight EXCEPT ![op[o].tab] = IF @ = o THEN NoOp ELSE @]
    BY <1>7 DEF Refreshed
  <2>2. op[o].tab = b BY <1>1, <2>1 DEF Served
  <2>3. Shared(o, op[o], tokens, stored, inflight) BY DEF OneTab
  <2>4. stored' # 0 => Fresh(tokens', stored') BY <2>1, <2>2, <2>3 DEF Shared
  <2>5. Quiet.kind = "login" /\ Quiet.tab = NoOp /\ Quiet.pc = "idle" BY DEF Quiet
  <2>6. Shared(o, Quiet, tokens', stored', inflight') BY <1>2, <2>5 DEF Shared
  <2>7. ASSUME NEW x \in Ops, x # o PROVE Shared(x, op[x], tokens', stored', inflight')
    BY <2>2, <2>3, <2>7 DEF OneTab, Shared
  <2>8. \A x \in Ops : Shared(x, op'[x], tokens', stored', inflight')
    BY <1>1, <2>1, <2>6, <2>7
  <2>9. InOrder' BY <1>1, <2>1, TokensMove
  <2> QED BY <2>4, <2>8, <2>9 DEF OneTab
<1>8. ASSUME Deactivate PROVE OneTab' BY <1>4, <1>8 DEF Deactivate, browser
<1>9. ASSUME Expire PROVE OneTab' BY <1>4, <1>9 DEF Expire
<1>10. ASSUME NEW c \in Calls, Send(b, c) \/ Finish(b, c) PROVE OneTab'
  BY <1>4, <1>10 DEF Send, Finish
<1>11. ASSUME UNCHANGED vars PROVE OneTab' BY <1>4, <1>11 DEF vars
<1>12. ASSUME NEW o \in Ops, Serve(o) PROVE OneTab' BY <1>1, <1>12, ServeKeepsTab DEF IInv
<1> QED BY <1>5, <1>6, <1>7, <1>8, <1>9, <1>10, <1>11, <1>12 DEF Next, Browse

-----------------------------------------------------------------------------
\* Only the first token is issued, and the tab holds it.
LEMMA FirstHeld == Init => OneTab
<1> SUFFICES ASSUME Init PROVE OneTab OBVIOUS
<1>1. tokens = [k \in TokenIds |-> [st |-> IF k = 1 THEN "live" ELSE "none", version |-> 0,
                                     outlived |-> 0]]
  BY DEF Init
<1>2. Issued = {1} BY <1>1, SessionsAssumption DEF Issued, TokenIds
<1>3. {1} = 1..1 /\ 1 \in 0..MaxTokens BY SessionsAssumption
<1>4. InOrder BY <1>2, <1>3 DEF InOrder
<1>5. Quiet.kind = "login" /\ Quiet.tab = NoOp /\ Quiet.pc = "idle" BY DEF Quiet
<1>6. \A o \in Ops : Shared(o, op[o], tokens, stored, inflight)
  BY <1>5, SessionsAssumption DEF Init, Shared
<1>7. Fresh(tokens, stored) BY <1>1, SessionsAssumption DEF Init, Fresh, TokenIds
<1> QED BY <1>4, <1>6, <1>7 DEF OneTab

\* With one tab the refreshes are shared as api.ts means them to be: no token is presented
\* again after it was exchanged.
THEOREM OneTabNeverReplays ==
    ASSUME NEW b, Tabs = {b}
    PROVE  Spec => []NeverReplaysItself
<1>1. IInv /\ OneTab /\ [Next]_vars => OneTab' BY NextKeepsTab
<1>2. OneTab => NeverReplaysItself BY DEF OneTab, Shared, Fresh, NeverReplaysItself
<1> QED BY <1>1, <1>2, FirstHeld, Inductive, PTL DEF Spec
=============================================================================
