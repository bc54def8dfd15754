--------------------------- MODULE Hosting_proofs ---------------------------
(***************************************************************************)
(* Theorems about Hosting, for any projects, ports, requests and bounds:   *)
(* that what is pending is under way, that a preview on the host has a     *)
(* live row, that a project has one preview, and that what a row calls     *)
(* ready is up.                                                            *)
(***************************************************************************)
EXTENDS Hosting, FiniteSetTheorems, TLAPS

-----------------------------------------------------------------------------
(* What holds of the instances.                                             *)

\* A request that is under way is about a project, and of a kind its statement is for.
CallInv(c) ==
    LET x == call[c] IN
    /\ x.pc # "idle" => x.of \in Projects
    /\ x.pc = "allocate" => x.kind \in {"own", "connected"}
    /\ x.pc \in {"script", "start", "insert"} => x.kind = "own"
    /\ x.pc \in {"update", "enqueue"} => x.kind \in Kinds

\* A pending row is about to be queued, waits in the queue, or its job has not written
\* its outcome.
Queueing(k, p) == \E c \in Calls : call[c].pc = "enqueue" /\ call[c].kind = k /\ call[c].of = p
Waiting(k, p) == \E n \in DOMAIN queue : queue[n].kind = k /\ queue[n].of = p
CarriedOut(k, p) == working # NoJob /\ working.kind = k /\ working.of = p /\ working.pc # "finish"
Open(k, p) == row[p].there /\ row[p].st[k] = "pending" /\ <<k, p>> \notin overlooked
Attended(k, p) == Open(k, p) => Queueing(k, p) \/ Waiting(k, p) \/ CarriedOut(k, p)

\* The job that is carried out does not wait as well.
NotTwice == working # NoJob => \A n \in DOMAIN queue : JobId(queue[n]) # JobId(working)

InstInv ==
    /\ InstancesType /\ NotTwice
    /\ \A c \in Calls : CallInv(c)
    /\ \A k \in Kinds, p \in Projects : Attended(k, p)

-----------------------------------------------------------------------------
(* What the helpers of the actions do.                                      *)

LEMMA Spends ==
    ASSUME left \in Budget, NEW what \in {"asks", "faults", "crashes", "previews"},
           left[what] > 0, Spend(what)
    PROVE  left' \in Budget
BY DEF Budget, Spend

LEMMA Faults == ASSUME left \in Budget, Fault PROVE left' \in Budget
BY Spends DEF Fault

LEMMA NoRowType == NoRow \in Row /\ ~NoRow.there /\ \A k \in Kinds : NoRow.st[k] = "none"
<1>1. [k \in Kinds |-> "none"] \in [Kinds -> Statuses] /\ [k \in Kinds |-> NoPort] \in [Kinds -> Ports \cup {NoPort}]
  BY DEF Statuses
<1> QED BY <1>1 DEF NoRow, Row

LEMMA FreeType == Free \in Call /\ Free.pc = "idle"
BY DEF Free, Call

LEMMA NamesOfInstances ==
    ASSUME InstancesType, NEW p \in Projects
    PROVE  /\ \A k \in {"own", "connected", "restored"} : Inst(k, p) \in Insts
           /\ \A k \in Kinds : Target(k, p) \in Insts
<1>1. given.name[p] \in Names BY DEF InstancesType
<1>2. \A k \in {"own", "connected", "restored"} : Inst(k, p) \in Insts BY <1>1 DEF Inst, Insts
<1> QED BY <1>2 DEF Target, Kinds

\* What a script may make of an instance.
LEMMA Instances ==
    ASSUME host \in [Insts -> Instance], NEW i \in Insts, NEW port \in Ports \cup {NoPort}, NEW p \in Projects
    PROVE  /\ Builds(i, port, p) => host' \in [Insts -> Instance]
           /\ Starts(i, port, p) => host' \in [Insts -> Instance]
           /\ CleansUp(i) => host' \in [Insts -> Instance]
           /\ host' = [host EXCEPT ![i] = Stopped(host[i])] => host' \in [Insts -> Instance]
           /\ host' = [host EXCEPT ![i].st = "up"] => host' \in [Insts -> Instance]
<1>1. Up(port, p) \in Instance /\ Half(port, p) \in Instance /\ Nothing \in Instance
  BY DEF Up, Half, Nothing, Instance
<1>2. host[i] \in Instance /\ Stopped(host[i]) \in Instance /\ [host[i] EXCEPT !.st = "up"] \in Instance
  BY DEF Stopped, Instance
<1> HIDE DEF Instance
<1>3. host' = [host EXCEPT ![i].st = "up"] => host' = [host EXCEPT ![i] = [host[i] EXCEPT !.st = "up"]] OBVIOUS
<1> QED BY <1>1, <1>2, <1>3 DEF Builds, Starts, CleansUp

\* A request goes on to another statement, or is answered; the others stay.
LEMMA CallGoes ==
    ASSUME call \in [Calls -> Call], NEW c \in Calls,
           NEW pc \in {"idle", "allocate", "script", "start", "insert", "update", "enqueue", "teardown", "remove"},
           Goes(c, pc)
    PROVE  /\ call' \in [Calls -> Call] /\ \A d \in Calls \ {c} : call'[d] = call[d]
           /\ call'[c].pc = pc /\ call'[c].kind = call[c].kind /\ call'[c].of = call[c].of
BY DEF Goes, Call

LEMMA CallEnds ==
    ASSUME call \in [Calls -> Call], NEW c \in Calls, Ends(c)
    PROVE  call' \in [Calls -> Call] /\ call'[c] = Free /\ \A d \in Calls \ {c} : call'[d] = call[d]
BY FreeType DEF Ends

\* Writing a status leaves the other columns and the other rows.
LEMMA StatusSet ==
    ASSUME row \in [Projects -> Row], NEW k \in Kinds, NEW p \in Projects, NEW s \in Statuses,
           SetStatus(k, p, s)
    PROVE  /\ row' \in [Projects -> Row] /\ \A q \in Projects : row'[q].there = row[q].there
           /\ \A j \in Kinds, q \in Projects :
                  IF j = k /\ q = p /\ row[p].there THEN row'[q].st[j] = s ELSE row'[q].st[j] = row[q].st[j]
<1> DEFINE v == IF row[p].there THEN s ELSE row[p].st[k]
           f == [row[p].st EXCEPT ![k] = v]
           r == [row[p] EXCEPT !.st = f]
<1>1. row[p] \in Row /\ row[p].st \in [Kinds -> Statuses] BY DEF Row
<1>2. f \in [Kinds -> Statuses] /\ f[k] = v /\ \A j \in Kinds \ {k} : f[j] = row[p].st[j] BY <1>1
<1>3. row' = [row EXCEPT ![p] = r] BY DEF SetStatus
<1> HIDE DEF f
<1>4. r \in Row /\ r.there = row[p].there /\ r.st = f BY <1>1, <1>2 DEF Row
<1> HIDE DEF r
<1> QED BY <1>2, <1>3, <1>4

-----------------------------------------------------------------------------
(* The worker.                                                              *)

JobPcs == {"waiting", "allocate", "build", "start", "grant", "mark", "secure", "run", "upgrade", "record", "finish"}

LEMMA Continues ==
    ASSUME InstancesType, working # NoJob, NEW pc \in JobPcs, Then(pc)
    PROVE  /\ working' \in Job /\ working' # NoJob /\ working'.pc = pc
           /\ working'.kind = working.kind /\ working'.of = working.of /\ JobId(working') = JobId(working)
<1>1. working \in Job BY DEF InstancesType
<1>2. working' \in Job BY <1>1 DEF Then, Job, JobPcs
<1> QED BY <1>1, <1>2, NoJobAssumption DEF Then, Job, JobId

\* A step of the job that does not write its outcome.
LEMMA JobGoesOn ==
    ASSUME InstInv, working # NoJob, working' \in Job, working'.pc # "finish",
           working'.kind = working.kind, working'.of = working.of, working'.inst = working.inst,
           SameOtherwise, row' \in [Projects -> Row], host' \in [Insts -> Instance], left' \in Budget,
           \A q \in Projects : row'[q].there = row[q].there /\ row'[q].st = row[q].st
    PROVE  InstInv'
<1>1. InstancesType' BY DEF InstInv, InstancesType, SameOtherwise
<1>2. NotTwice' BY DEF InstInv, NotTwice, SameOtherwise, JobId
<1>3. ASSUME NEW c \in Calls PROVE CallInv(c)' BY DEF InstInv, CallInv, SameOtherwise
<1>4. ASSUME NEW k \in Kinds, NEW p \in Projects PROVE Attended(k, p)'
  <2>1. Open(k, p)' => Open(k, p) BY DEF Open, SameOtherwise
  <2>2. Attended(k, p) BY DEF InstInv
  <2>3. Queueing(k, p) => Queueing(k, p)' BY DEF Queueing, SameOtherwise
  <2>4. Waiting(k, p) => Waiting(k, p)' BY DEF Waiting, SameOtherwise
  <2>5. CarriedOut(k, p) => CarriedOut(k, p)' BY NoJobAssumption DEF CarriedOut
  <2> QED BY <2>1, <2>2, <2>3, <2>4, <2>5 DEF Attended
<1> QED BY <1>1, <1>2, <1>3, <1>4 DEF InstInv

\* The outcome is written: the row of the job is pending no more.
LEMMA JobEnds ==
    ASSUME InstInv, working # NoJob, Then("finish"), SameOtherwise,
           row' \in [Projects -> Row], host' \in [Insts -> Instance], left' \in Budget,
           \A q \in Projects : row'[q].there = row[q].there,
           \A j \in Kinds, q \in Projects : row'[q].st[j] = "pending" => row[q].st[j] = "pending",
           row[working.of].there => row'[working.of].st[working.kind] # "pending"
    PROVE  InstInv'
<1>1. working' \in Job /\ JobId(working') = JobId(working) BY Continues DEF InstInv, JobPcs
<1>2. InstancesType' BY <1>1 DEF InstInv, InstancesType, SameOtherwise
<1>3. NotTwice' BY <1>1 DEF InstInv, NotTwice, SameOtherwise
<1>4. ASSUME NEW c \in Calls PROVE CallInv(c)' BY DEF InstInv, CallInv, SameOtherwise
<1>5. ASSUME NEW k \in Kinds, NEW p \in Projects PROVE Attended(k, p)'
  <2>1. Open(k, p)' => Open(k, p) BY DEF Open, SameOtherwise
  <2>2. Attended(k, p) BY DEF InstInv
  <2>3. Queueing(k, p) => Queueing(k, p)' BY DEF Queueing, SameOtherwise
  <2>4. Waiting(k, p) => Waiting(k, p)' BY DEF Waiting, SameOtherwise
  <2>5. CarriedOut(k, p) => ~Open(k, p)' BY DEF CarriedOut, Open
  <2> QED BY <2>1, <2>2, <2>3, <2>4, <2>5 DEF Attended
<1> QED BY <1>2, <1>3, <1>4, <1>5 DEF InstInv

LEMMA OutcomeKeeps ==
    ASSUME InstInv, working # NoJob, NEW s \in {"ready", "failed"}, Outcome(s), SameOtherwise,
           host' \in [Insts -> Instance], left' \in Budget
    PROVE  InstInv'
<1>1. working \in Job BY DEF InstInv, InstancesType
<1>2. working.kind \in Kinds /\ working.of \in Projects BY <1>1 DEF Job
<1>3. SetStatus(working.kind, working.of, s) /\ Then("finish") BY DEF Outcome
<1>4. s \in Statuses /\ s # "pending" BY DEF Statuses
<1>5. row \in [Projects -> Row] BY DEF InstInv, InstancesType
<1> QED BY <1>2, <1>3, <1>4, <1>5, StatusSet, JobEnds

LEMMA AllocateInJobKeeps == ASSUME InstInv, AllocateInJob PROVE InstInv'
<1>1. working # NoJob /\ working \in Job BY DEF InstInv, InstancesType, AllocateInJob, At
<1>2. host' \in [Insts -> Instance] /\ left' \in Budget /\ SameOtherwise
  BY DEF InstInv, InstancesType, AllocateInJob
<1>3. CASE Outcome("failed") BY <1>1, <1>2, <1>3, OutcomeKeeps
<1>4. CASE \E n \in Allocated("restored") :
               working' = [working EXCEPT !.port = n, !.pc = "build"] /\ UNCHANGED row
  <2> PICK n \in Allocated("restored") :
               working' = [working EXCEPT !.port = n, !.pc = "build"] /\ UNCHANGED row
    BY <1>4
  <2>1. n \in Ports BY DEF Allocated, FreePorts
  <2>2. /\ working' \in Job /\ working'.pc = "build" /\ working'.kind = working.kind
        /\ working'.of = working.of /\ working'.inst = working.inst
    BY <1>1, <2>1 DEF Job
  <2>3. row' \in [Projects -> Row] /\ \A q \in Projects : row'[q].there = row[q].there /\ row'[q].st = row[q].st
    BY DEF InstInv, InstancesType
  <2> QED BY <1>1, <1>2, <2>2, <2>3, JobGoesOn
<1> QED BY <1>3, <1>4 DEF AllocateInJob

LEMMA JobSteps ==
    ASSUME InstInv, working # NoJob, NEW pc \in JobPcs \ {"finish"}, Then(pc), SameOtherwise, UNCHANGED row,
           host' \in [Insts -> Instance], left' \in Budget
    PROVE  InstInv'
<1>1. working \in Job /\ row \in [Projects -> Row] BY DEF InstInv, InstancesType
<1>2. /\ working' \in Job /\ working'.pc = pc /\ working'.kind = working.kind
      /\ working'.of = working.of /\ working'.inst = working.inst
  BY <1>1 DEF Then, Job, JobPcs
<1>3. row' \in [Projects -> Row] /\ \A q \in Projects : row'[q].there = row[q].there /\ row'[q].st = row[q].st
  BY <1>1
<1> QED BY <1>2, <1>3, JobGoesOn

LEMMA BuildKeeps == ASSUME InstInv, Build PROVE InstInv'
<1>1. working # NoJob /\ working \in Job /\ SameOtherwise BY DEF InstInv, InstancesType, Build, At
<1>2. host \in [Insts -> Instance] /\ left \in Budget /\ UNCHANGED left BY DEF InstInv, InstancesType, Build
<1>3. working.inst \in Insts /\ working.of \in Projects /\ working.port \in Ports \cup {NoPort} BY <1>1 DEF Job
<1>4. CASE Builds(working.inst, working.port, working.of) /\ Then("start") /\ UNCHANGED row
  <2>1. host' \in [Insts -> Instance] BY <1>2, <1>3, <1>4, Instances
  <2> QED BY <1>1, <1>2, <1>4, <2>1, JobSteps DEF JobPcs
<1>5. CASE Outcome("failed") /\ UNCHANGED host BY <1>1, <1>2, <1>5, OutcomeKeeps
<1> QED BY <1>4, <1>5 DEF Build

LEMMA StartKeeps == ASSUME InstInv, Start PROVE InstInv'
<1>1. working # NoJob /\ working \in Job /\ SameOtherwise BY DEF InstInv, InstancesType, Start, At
<1>2. host \in [Insts -> Instance] /\ left \in Budget BY DEF InstInv, InstancesType
<1>3. working.inst \in Insts /\ working.of \in Projects /\ working.port \in Ports \cup {NoPort} BY <1>1 DEF Job
<1>4. CASE /\ Starts(working.inst, working.port, working.of)
           /\ Then(IF working.kind = "restored" THEN "record" ELSE "grant")
           /\ UNCHANGED <<row, left>>
  <2>1. host' \in [Insts -> Instance] /\ left' \in Budget BY <1>2, <1>3, <1>4, Instances
  <2>2. PICK pc \in JobPcs \ {"finish"} : Then(pc) BY <1>4 DEF JobPcs
  <2> QED BY <1>1, <1>4, <2>1, <2>2, JobSteps
<1>5. CASE CleansUp(working.inst) /\ Outcome("failed") /\ UNCHANGED left
  <2>1. host' \in [Insts -> Instance] BY <1>2, <1>3, <1>5, Instances
  <2> QED BY <1>1, <1>2, <1>5, <2>1, OutcomeKeeps
<1>6. CASE Fault /\ Outcome("failed") /\ UNCHANGED host BY <1>1, <1>2, <1>6, Faults, OutcomeKeeps
<1> QED BY <1>4, <1>5, <1>6 DEF Start

LEMMA GrantKeeps == ASSUME InstInv, Grant PROVE InstInv'
<1>1. working # NoJob /\ SameOtherwise /\ UNCHANGED host BY DEF Grant, At
<1>2. host' \in [Insts -> Instance] /\ left \in Budget BY <1>1 DEF InstInv, InstancesType
<1>3. CASE Then(IF working.kind = "own" THEN "record" ELSE "mark") /\ UNCHANGED <<row, left>>
  <2>1. PICK pc \in JobPcs \ {"finish"} : Then(pc) BY <1>3 DEF JobPcs
  <2> QED BY <1>1, <1>2, <1>3, <2>1, JobSteps
<1>4. CASE Fault /\ Outcome("failed") BY <1>1, <1>2, <1>4, Faults, OutcomeKeeps
<1> QED BY <1>3, <1>4 DEF Grant

LEMMA SecureKeeps == ASSUME InstInv, Secure PROVE InstInv'
<1>1. working # NoJob /\ SameOtherwise /\ UNCHANGED host BY DEF Secure, At
<1>2. host' \in [Insts -> Instance] /\ left \in Budget BY <1>1 DEF InstInv, InstancesType
<1>3. CASE Then("record") /\ UNCHANGED <<row, left>> BY <1>1, <1>2, <1>3, JobSteps DEF JobPcs
<1>4. CASE Fault /\ Outcome("failed") BY <1>1, <1>2, <1>4, Faults, OutcomeKeeps
<1> QED BY <1>3, <1>4 DEF Secure

LEMMA RestartKeeps == ASSUME InstInv, Restart PROVE InstInv'
<1>1. working # NoJob /\ working \in Job /\ SameOtherwise BY DEF InstInv, InstancesType, Restart, At
<1>2. host \in [Insts -> Instance] /\ left \in Budget /\ UNCHANGED left BY DEF InstInv, InstancesType, Restart
<1>3. working.inst \in Insts /\ working.of \in Projects /\ working.port \in Ports \cup {NoPort} BY <1>1 DEF Job
<1>4. CASE /\ Then("upgrade") /\ UNCHANGED row
           /\ host' = [host EXCEPT ![working.inst] = Stopped(host[working.inst])]
  <2>1. host' \in [Insts -> Instance] BY <1>2, <1>3, <1>4, Instances
  <2> QED BY <1>1, <1>2, <1>4, <2>1, JobSteps DEF JobPcs
<1>5. CASE Outcome("failed") /\ UNCHANGED host BY <1>1, <1>2, <1>5, OutcomeKeeps
<1> QED BY <1>4, <1>5 DEF Restart

LEMMA UpgradeKeeps == ASSUME InstInv, Upgrade PROVE InstInv'
<1>1. working # NoJob /\ working \in Job /\ SameOtherwise BY DEF InstInv, InstancesType, Upgrade, At
<1>2. host \in [Insts -> Instance] /\ left \in Budget BY DEF InstInv, InstancesType
<1>3. working.inst \in Insts /\ working.of \in Projects /\ working.port \in Ports \cup {NoPort} BY <1>1 DEF Job
<1>4. host' = [host EXCEPT ![working.inst].st = "up"] \/ UNCHANGED host BY DEF Upgrade
<1>5. host' \in [Insts -> Instance] BY <1>2, <1>3, <1>4, Instances
<1>6. left' \in Budget BY <1>2, Faults DEF Upgrade
<1>7. PICK s \in {"ready", "failed"} : Outcome(s) BY DEF Upgrade
<1> QED BY <1>1, <1>5, <1>6, <1>7, OutcomeKeeps

LEMMA MarkHostReadyKeeps == ASSUME InstInv, MarkHostReady PROVE InstInv'
<1> DEFINE p == working.of
           r == [row[p] EXCEPT !.hostReady = row[p].there]
<1>1. working # NoJob /\ working \in Job /\ SameOtherwise BY DEF InstInv, InstancesType, MarkHostReady, At
<1>2. row \in [Projects -> Row] /\ p \in Projects /\ host' \in [Insts -> Instance] /\ left' \in Budget
  BY <1>1 DEF InstInv, InstancesType, Job, MarkHostReady
<1>3. r \in Row /\ r.there = row[p].there /\ r.st = row[p].st BY <1>2 DEF Row
<1>4. row' = [row EXCEPT ![p] = r] BY <1>2 DEF MarkHostReady, Row
<1> HIDE DEF r
<1>5. row' \in [Projects -> Row] /\ \A q \in Projects : row'[q].there = row[q].there /\ row'[q].st = row[q].st
  BY <1>2, <1>3, <1>4
<1>6. /\ working' \in Job /\ working'.pc = "secure" /\ working'.kind = working.kind
      /\ working'.of = working.of /\ working'.inst = working.inst
  BY <1>1 DEF MarkHostReady, Then, Job
<1> QED BY <1>1, <1>2, <1>5, <1>6, JobGoesOn

LEMMA RecordKeeps == ASSUME InstInv, Record PROVE InstInv'
<1> DEFINE p == working.of
           k == working.kind
           f == [row[p].st EXCEPT ![k] = "ready"]
           g == [row[p].port EXCEPT ![k] = IF k = "connected" THEN @ ELSE working.port]
           r == [row[p] EXCEPT !.st = f, !.port = g]
<1>1. working # NoJob /\ working \in Job /\ SameOtherwise /\ Then("finish")
  BY DEF InstInv, InstancesType, Record, At
<1>2. row \in [Projects -> Row] /\ p \in Projects /\ k \in Kinds /\ host' \in [Insts -> Instance] /\ left' \in Budget
  BY <1>1 DEF InstInv, InstancesType, Job, Record
<1>3. CASE row[p].there
  <2>1. row[p] \in Row /\ working.port \in Ports \cup {NoPort} BY <1>1, <1>2 DEF Job
  <2>2. row[p].st \in [Kinds -> Statuses] /\ row[p].port \in [Kinds -> Ports \cup {NoPort}] BY <2>1 DEF Row
  <2>3. f \in [Kinds -> Statuses] /\ f[k] = "ready" /\ \A j \in Kinds : f[j] = "pending" => row[p].st[j] = "pending"
    BY <1>2, <2>2 DEF Statuses
  <2>4. g \in [Kinds -> Ports \cup {NoPort}] BY <1>2, <2>1, <2>2
  <2>5. row' = [row EXCEPT ![p] = r] BY <1>2, <1>3, <2>1 DEF Record, Row
  <2> HIDE DEF f, g
  <2>6. r \in Row /\ r.there = row[p].there /\ r.st = f BY <2>1, <2>3, <2>4 DEF Row
  <2> HIDE DEF r
  <2>7. row' \in [Projects -> Row] /\ \A q \in Projects : row'[q].there = row[q].there BY <1>2, <2>5, <2>6
  <2>8. \A j \in Kinds, q \in Projects : row'[q].st[j] = "pending" => row[q].st[j] = "pending"
    BY <1>2, <2>3, <2>5, <2>6
  <2>9. row'[p].st[k] # "pending" BY <1>2, <2>3, <2>5, <2>6
  <2> QED BY <1>1, <1>2, <2>7, <2>8, <2>9, JobEnds
<1>4. CASE ~row[p].there
  <2>1. row' = row BY <1>4 DEF Record
  <2> QED BY <1>1, <1>2, <1>4, <2>1, JobEnds
<1> QED BY <1>3, <1>4

\* The queue without its first job, and with one in front of it.
LEMMA Shortened ==
    ASSUME NEW S, NEW q \in Seq(S), q # <<>>
    PROVE  /\ Head(q) \in S /\ Head(q) = q[1] /\ 1 \in DOMAIN q /\ Tail(q) \in Seq(S)
           /\ \A n \in DOMAIN Tail(q) : n + 1 \in DOMAIN q /\ Tail(q)[n] = q[n + 1]
           /\ \A n \in DOMAIN q \ {1} : n - 1 \in DOMAIN Tail(q) /\ Tail(q)[n - 1] = q[n]
OBVIOUS

LEMMA Fronted ==
    ASSUME NEW S, NEW q \in Seq(S), NEW x \in S
    PROVE  LET w == <<x>> \o q IN
           /\ w \in Seq(S) /\ 1 \in DOMAIN w /\ w[1] = x
           /\ \A n \in DOMAIN w : n \in Nat /\ (n # 1 => n - 1 \in DOMAIN q /\ w[n] = q[n - 1])
           /\ \A n \in DOMAIN q : n + 1 \in DOMAIN w /\ w[n + 1] = q[n]
OBVIOUS

LEMMA Lengthened ==
    ASSUME NEW S, NEW q \in Seq(S), NEW x \in S
    PROVE  LET w == Append(q, x) IN
           /\ w \in Seq(S) /\ Len(q) + 1 \in DOMAIN w /\ w[Len(q) + 1] = x
           /\ \A n \in DOMAIN w : n \in Nat /\ (n # Len(q) + 1 => n \in DOMAIN q /\ w[n] = q[n])
           /\ \A n \in DOMAIN q : n \in DOMAIN w /\ w[n] = q[n] /\ n # Len(q) + 1
OBVIOUS

LEMMA TakeJobKeeps == ASSUME InstInv, TakeJob PROVE InstInv'
<1> DEFINE j == Head(queue)
<1>1. queue \in Seq(Job) /\ queue # <<>> BY DEF InstInv, InstancesType, TakeJob
<1>2. /\ j \in Job /\ j = queue[1] /\ 1 \in DOMAIN queue /\ Tail(queue) \in Seq(Job)
      /\ \A n \in DOMAIN Tail(queue) : n + 1 \in DOMAIN queue /\ Tail(queue)[n] = queue[n + 1]
      /\ \A n \in DOMAIN queue \ {1} : n - 1 \in DOMAIN Tail(queue) /\ Tail(queue)[n - 1] = queue[n]
  BY <1>1, Shortened
<1>3. FirstStep(j) \in JobPcs \ {"waiting", "finish"}
  <2>1. j.kind \in Kinds BY <1>2 DEF Job
  <2> QED BY <2>1 DEF FirstStep, JobPcs, Kinds
<1>4. /\ working' \in Job /\ working'.kind = j.kind /\ working'.of = j.of /\ JobId(working') = JobId(j)
      /\ working'.pc # "finish" /\ working' # NoJob
  BY <1>2, <1>3, NoJobAssumption DEF TakeJob, Job, JobPcs, JobId
<1>5. queue' = Tail(queue) /\ working = NoJob /\ UNCHANGED <<given, row, call, done, host, overlooked, overtaken, left>>
  BY DEF TakeJob
<1> HIDE DEF j
<1>6. \A n, m \in DOMAIN queue : n # m => JobId(queue[n]) # JobId(queue[m]) BY DEF InstInv, InstancesType
<1>7. DOMAIN Tail(queue) \subseteq Nat BY <1>2
<1>8. \A n, m \in DOMAIN queue' : n # m => JobId(queue'[n]) # JobId(queue'[m]) BY <1>2, <1>5, <1>6, <1>7
<1>9. InstancesType' BY <1>2, <1>4, <1>5, <1>8 DEF InstInv, InstancesType
<1>10. NotTwice'
  <2> SUFFICES ASSUME NEW n \in DOMAIN queue' PROVE JobId(queue'[n]) # JobId(working') BY DEF NotTwice
  <2>1. n + 1 \in DOMAIN queue /\ n + 1 # 1 /\ queue'[n] = queue[n + 1] BY <1>2, <1>5, <1>7
  <2> QED BY <1>2, <1>4, <1>6, <2>1
<1>11. ASSUME NEW c \in Calls PROVE CallInv(c)' BY <1>5 DEF InstInv, CallInv
<1>12. ASSUME NEW k \in Kinds, NEW p \in Projects PROVE Attended(k, p)'
  <2>1. Attended(k, p) BY DEF InstInv
  <2>2. Open(k, p)' => Open(k, p) BY <1>5 DEF Open
  <2>3. Queueing(k, p) => Queueing(k, p)' BY <1>5 DEF Queueing
  <2>4. Waiting(k, p) => Waiting(k, p)' \/ CarriedOut(k, p)' BY <1>2, <1>4, <1>5 DEF Waiting, CarriedOut
  <2>5. ~CarriedOut(k, p) BY <1>5 DEF CarriedOut
  <2> QED BY <2>1, <2>2, <2>3, <2>4, <2>5 DEF Attended
<1> QED BY <1>9, <1>10, <1>11, <1>12 DEF InstInv

LEMMA FinishJobKeeps == ASSUME InstInv, FinishJob PROVE InstInv'
<1>1. working # NoJob /\ working.pc = "finish" /\ working' = NoJob /\ done' = done \cup {JobId(working)}
      /\ UNCHANGED <<given, row, call, queue, host, overlooked, overtaken, left>>
  BY DEF FinishJob, At
<1>2. JobId(working) \in Kinds \X Insts BY <1>1 DEF InstInv, InstancesType, JobId, Job
<1>3. InstancesType' BY <1>1, <1>2 DEF InstInv, InstancesType
<1>4. NotTwice' BY <1>1 DEF NotTwice
<1>5. ASSUME NEW c \in Calls PROVE CallInv(c)' BY <1>1 DEF InstInv, CallInv
<1>6. ASSUME NEW k \in Kinds, NEW p \in Projects PROVE Attended(k, p)'
  BY <1>1 DEF InstInv, Attended, Open, Queueing, Waiting, CarriedOut
<1> QED BY <1>3, <1>4, <1>5, <1>6 DEF InstInv

LEMMA WorkerKeeps == ASSUME InstInv, Worker PROVE InstInv'
BY TakeJobKeeps, AllocateInJobKeeps, BuildKeeps, StartKeeps, GrantKeeps, MarkHostReadyKeeps, SecureKeeps,
   RestartKeeps, UpgradeKeeps, RecordKeeps, FinishJobKeeps DEF Worker

LEMMA WorkerDiesKeeps == ASSUME InstInv, WorkerDies PROVE InstInv'
<1> DEFINE back == [working EXCEPT !.pc = "waiting", !.stalled = TRUE]
<1>1. /\ working # NoJob /\ working \in Job /\ working' = NoJob /\ UNCHANGED <<given, row, call, host, overtaken>>
      /\ queue \in Seq(Job) /\ host \in [Insts -> Instance] /\ left \in Budget
  BY DEF InstInv, InstancesType, WorkerDies
<1>2. left' \in Budget BY <1>1, Spends DEF WorkerDies
<1>3. host' \in [Insts -> Instance] BY <1>1
<1>4. NotTwice' BY <1>1 DEF NotTwice
<1>5. ASSUME NEW c \in Calls PROVE CallInv(c)' BY <1>1 DEF InstInv, CallInv
<1>6. working.kind \in Kinds /\ working.of \in Projects /\ JobId(working) \in Kinds \X Insts
  BY <1>1 DEF Job, JobId
<1>7. CASE working.stalled
  <2>1. /\ done' = done \cup {JobId(working)} /\ UNCHANGED queue
        /\ overlooked' = overlooked \cup {<<working.kind, working.of>>}
    BY <1>7 DEF WorkerDies
  <2>2. InstancesType' BY <1>1, <1>2, <1>3, <1>6, <2>1 DEF InstInv, InstancesType
  <2>3. ASSUME NEW k \in Kinds, NEW p \in Projects PROVE Attended(k, p)'
    BY <1>1, <2>1 DEF InstInv, Attended, Open, Queueing, Waiting, CarriedOut
  <2> QED BY <1>4, <1>5, <2>2, <2>3 DEF InstInv
<1>8. CASE ~working.stalled
  <2>1. queue' = <<back>> \o queue /\ UNCHANGED <<done, overlooked>> BY <1>8 DEF WorkerDies
  <2>2. back \in Job /\ JobId(back) = JobId(working) /\ back.kind = working.kind /\ back.of = working.of
    BY <1>1 DEF Job, JobId
  <2> HIDE DEF back
  <2>3. /\ queue' \in Seq(Job) /\ 1 \in DOMAIN queue' /\ queue'[1] = back
        /\ \A n \in DOMAIN queue' : n \in Nat /\ (n # 1 => n - 1 \in DOMAIN queue /\ queue'[n] = queue[n - 1])
        /\ \A n \in DOMAIN queue : n + 1 \in DOMAIN queue' /\ queue'[n + 1] = queue[n]
    BY <1>1, <2>1, <2>2, Fronted
  <2>4. \A n, m \in DOMAIN queue' : n # m => JobId(queue'[n]) # JobId(queue'[m])
    <3> TAKE n, m \in DOMAIN queue'
    <3> HAVE n # m
    <3>1. \A i \in DOMAIN queue : JobId(queue[i]) # JobId(back) BY <1>1, <2>2 DEF InstInv, NotTwice
    <3>2. \A i, e \in DOMAIN queue : i # e => JobId(queue[i]) # JobId(queue[e]) BY DEF InstInv, InstancesType
    <3>3. CASE n # 1 /\ m # 1
      <4>1. n - 1 # m - 1 BY <2>3
      <4> QED BY <2>3, <3>2, <3>3, <4>1
    <3> QED BY <2>3, <3>1, <3>3
  <2>5. InstancesType' BY <1>1, <1>2, <1>3, <2>1, <2>3, <2>4 DEF InstInv, InstancesType
  <2>6. ASSUME NEW k \in Kinds, NEW p \in Projects PROVE Attended(k, p)'
    <3>1. Attended(k, p) BY DEF InstInv
    <3>2. Open(k, p)' => Open(k, p) BY <1>1, <2>1 DEF Open
    <3>3. Queueing(k, p) => Queueing(k, p)' BY <1>1 DEF Queueing
    <3>4. Waiting(k, p) => Waiting(k, p)' BY <2>3 DEF Waiting
    <3>5. CarriedOut(k, p) => Waiting(k, p)' BY <2>2, <2>3 DEF CarriedOut, Waiting
    <3> QED BY <3>1, <3>2, <3>3, <3>4, <3>5 DEF Attended
  <2> QED BY <1>4, <1>5, <2>5, <2>6 DEF InstInv
<1> QED BY <1>7, <1>8

-----------------------------------------------------------------------------
(* Requests.                                                                *)

\* A request that is not about to queue its job takes a step.
LEMMA RequestGoesOn ==
    ASSUME InstInv, NEW c \in Calls, call[c].pc # "enqueue",
           call' \in [Calls -> Call], \A d \in Calls \ {c} : call'[d] = call[d], CallInv(c)',
           UNCHANGED <<given, row, jobs, overlooked>>, overtaken' \subseteq Kinds \X Projects,
           host' \in [Insts -> Instance], left' \in Budget
    PROVE  InstInv'
<1>1. InstancesType' BY DEF InstInv, InstancesType, jobs
<1>2. NotTwice' BY DEF InstInv, NotTwice, jobs
<1>3. ASSUME NEW d \in Calls PROVE CallInv(d)' BY DEF InstInv, CallInv
<1>4. ASSUME NEW k \in Kinds, NEW p \in Projects PROVE Attended(k, p)'
  <2>1. Attended(k, p) BY DEF InstInv
  <2>2. Open(k, p)' => Open(k, p) BY DEF Open
  <2>3. Queueing(k, p) => Queueing(k, p)' BY DEF Queueing
  <2>4. Waiting(k, p) => Waiting(k, p)' BY DEF Waiting, jobs
  <2>5. CarriedOut(k, p) => CarriedOut(k, p)' BY DEF CarriedOut, jobs
  <2> QED BY <2>1, <2>2, <2>3, <2>4, <2>5 DEF Attended
<1> QED BY <1>1, <1>2, <1>3, <1>4 DEF InstInv

LEMMA AskCreateKeeps ==
    ASSUME InstInv, NEW c \in Calls, NEW p \in Projects, AskCreate(c, p) PROVE InstInv'
<1>1. call[c].pc # "enqueue" /\ UNCHANGED <<given, row, jobs, host, overlooked, overtaken>> BY DEF AskCreate
<1>2. call \in [Calls -> Call] /\ left \in Budget BY DEF InstInv, InstancesType
<1>3. left' \in Budget BY <1>2, Spends DEF AskCreate
<1> PICK direct \in BOOLEAN :
           call' = [call EXCEPT ![c] = [Free EXCEPT !.pc = "allocate", !.kind = "own", !.of = p,
                                                    !.resume = direct]]
  BY DEF AskCreate
<1> DEFINE x == [Free EXCEPT !.pc = "allocate", !.kind = "own", !.of = p, !.resume = direct]
<1> call' = [call EXCEPT ![c] = x] OBVIOUS
<1>4. x \in Call /\ x.pc = "allocate" /\ x.kind = "own" /\ x.of = p BY DEF Free, Call, Kinds
<1> HIDE DEF x
<1>5. call' \in [Calls -> Call] /\ call'[c] = x /\ \A d \in Calls \ {c} : call'[d] = call[d] BY <1>2, <1>4
<1>6. CallInv(c)' BY <1>4, <1>5 DEF CallInv
<1> QED BY <1>1, <1>3, <1>5, <1>6, RequestGoesOn DEF InstInv, InstancesType

LEMMA AskKeeps ==
    ASSUME InstInv, NEW c \in Calls, NEW k \in Kinds, NEW p \in Projects, Ask(c, k, p) PROVE InstInv'
<1>1. call[c].pc # "enqueue" /\ UNCHANGED <<given, row, jobs, host, overlooked>> BY DEF Ask
<1>2. call \in [Calls -> Call] /\ left \in Budget /\ row[p] \in Row BY DEF InstInv, InstancesType
<1>3. left' \in Budget BY <1>2, Spends DEF Ask
<1> DEFINE resume == k = "connected" /\ Resumes(p)
           x == [pc |-> IF k = "connected" /\ ~PortKept(resume) THEN "allocate" ELSE "update",
                 kind |-> k, of |-> p, resume |-> resume,
                 port |-> IF resume THEN row[p].port[k] ELSE NoPort]
<1>4. call' = [call EXCEPT ![c] = x] BY DEF Ask
<1>5. row[p].port[k] \in Ports \cup {NoPort} BY <1>2 DEF Row
<1>6. resume \in BOOLEAN BY DEF Resumes
<1> HIDE DEF resume
<1>7. x \in Call /\ x.pc \in {"allocate", "update"} /\ x.kind = k /\ x.of = p /\ (x.pc = "allocate" => k = "connected")
  BY <1>5, <1>6 DEF Call
<1> HIDE DEF x
<1>8. call' \in [Calls -> Call] /\ call'[c] = x /\ \A d \in Calls \ {c} : call'[d] = call[d] BY <1>2, <1>4, <1>7
<1>9. CallInv(c)' BY <1>7, <1>8 DEF CallInv
<1>10. overtaken' \subseteq Kinds \X Projects
  BY DEF Ask, InstInv, InstancesType
<1> QED BY <1>1, <1>3, <1>8, <1>9, <1>10, RequestGoesOn DEF InstInv, InstancesType

LEMMA AskDeleteKeeps ==
    ASSUME InstInv, NEW c \in Calls, NEW p \in Projects, AskDelete(c, p) PROVE InstInv'
<1>1. call[c].pc # "enqueue" /\ UNCHANGED <<given, row, jobs, host, overlooked, overtaken>> BY DEF AskDelete
<1>2. call \in [Calls -> Call] /\ left \in Budget BY DEF InstInv, InstancesType
<1>3. left' \in Budget BY <1>2, Spends DEF AskDelete
<1> DEFINE pc == IF given.type[p] = "ai" THEN "teardown" ELSE "remove"
           x == [Free EXCEPT !.pc = pc, !.of = p]
<1> call' = [call EXCEPT ![c] = x] BY DEF AskDelete
<1> pc \in {"teardown", "remove"} OBVIOUS
<1> HIDE DEF pc
<1>4. x \in Call /\ x.pc \in {"teardown", "remove"} /\ x.of = p BY DEF Free, Call
<1> HIDE DEF x
<1>5. call' \in [Calls -> Call] /\ call'[c] = x /\ \A d \in Calls \ {c} : call'[d] = call[d] BY <1>2, <1>4
<1>6. CallInv(c)' BY <1>4, <1>5 DEF CallInv
<1> QED BY <1>1, <1>3, <1>5, <1>6, RequestGoesOn DEF InstInv, InstancesType

\* A request that is answered.
LEMMA Answered ==
    ASSUME InstInv, NEW c \in Calls, call[c].pc # "enqueue", Ends(c),
           UNCHANGED <<given, row, jobs, overlooked, overtaken>>,
           host' \in [Insts -> Instance], left' \in Budget
    PROVE  InstInv'
<1>1. call' \in [Calls -> Call] /\ call'[c] = Free /\ \A d \in Calls \ {c} : call'[d] = call[d]
  BY CallEnds DEF InstInv, InstancesType
<1>2. CallInv(c)' BY <1>1, FreeType DEF CallInv
<1> QED BY <1>1, <1>2, RequestGoesOn DEF InstInv, InstancesType

LEMMA AllocateForKeeps == ASSUME InstInv, NEW c \in Calls, AllocateFor(c) PROVE InstInv'
<1>1. call[c].pc = "allocate" /\ UNCHANGED <<given, row, jobs, host, overlooked, overtaken, left>> BY DEF AllocateFor
<1>2. call \in [Calls -> Call] /\ host' \in [Insts -> Instance] /\ left' \in Budget BY <1>1 DEF InstInv, InstancesType
<1>3. CASE Ends(c) BY <1>1, <1>2, <1>3, Answered
<1>4. ASSUME NEW n \in Allocated(call[c].kind),
             call' = [call EXCEPT ![c].port = n,
                                  ![c].pc = CASE call[c].kind = "connected" -> "update"
                                              [] call[c].kind = "own" /\ call[c].resume -> "script"
                                              [] OTHER -> "insert"]
      PROVE  InstInv'
  <2>1. n \in Ports BY DEF Allocated, FreePorts
  <2>2. call[c] \in Call /\ call[c].of \in Projects /\ call[c].kind \in {"own", "connected"}
    BY <1>1, <1>2 DEF InstInv, CallInv
  <2>3. /\ call' \in [Calls -> Call] /\ \A d \in Calls \ {c} : call'[d] = call[d]
        /\ call'[c].kind = call[c].kind /\ call'[c].of = call[c].of
        /\ IF call[c].kind = "connected" THEN call'[c].pc = "update" ELSE call'[c].pc \in {"script", "insert"}
    <3> DEFINE pc == CASE call[c].kind = "connected" -> "update"
                       [] call[c].kind = "own" /\ call[c].resume -> "script"
                       [] OTHER -> "insert"
               x == [call[c] EXCEPT !.port = n, !.pc = pc]
    <3>0. call[c].resume \in BOOLEAN BY <2>2 DEF Call
    <3>1. /\ call[c].kind = "connected" => pc = "update"
          /\ call[c].kind # "connected" => pc \in {"script", "insert"}
      <4>1. CASE call[c].kind = "connected" BY <4>1
      <4>2. CASE call[c].kind # "connected" /\ call[c].resume BY <4>2
      <4>3. CASE call[c].kind # "connected" /\ ~call[c].resume BY <4>3
      <4> QED BY <3>0, <4>1, <4>2, <4>3
    <3> call' = [call EXCEPT ![c].port = n, ![c].pc = pc] BY <1>4
    <3> HIDE DEF pc
    <3>2. call' = [call EXCEPT ![c] = x] BY <1>2, <2>2 DEF Call
    <3>3. x \in Call /\ x.kind = call[c].kind /\ x.of = call[c].of /\ x.pc = pc BY <2>1, <2>2, <3>1 DEF Call
    <3> HIDE DEF x
    <3>4. call' \in [Calls -> Call] /\ call'[c] = x /\ \A d \in Calls \ {c} : call'[d] = call[d]
      BY <1>2, <3>2, <3>3
    <3> QED BY <3>1, <3>3, <3>4
  <2>4. CallInv(c)' BY <2>2, <2>3 DEF CallInv, Kinds
  <2> QED BY <1>1, <1>2, <2>3, <2>4, RequestGoesOn DEF InstInv, InstancesType
<1> QED BY <1>3, <1>4 DEF AllocateFor

LEMMA ScriptKeeps == ASSUME InstInv, NEW c \in Calls, Script(c) PROVE InstInv'
<1> DEFINE i == Inst("own", call[c].of)
<1>1. call[c].pc = "script" /\ UNCHANGED <<given, row, jobs, overlooked, overtaken, left>> BY DEF Script
<1>2. call \in [Calls -> Call] /\ host \in [Insts -> Instance] /\ left' \in Budget
  BY <1>1 DEF InstInv, InstancesType
<1>3. call[c].of \in Projects /\ call[c].kind = "own" BY <1>1 DEF InstInv, CallInv
<1>4. i \in Insts /\ call[c].port \in Ports \cup {NoPort} BY <1>2, <1>3, NamesOfInstances DEF InstInv, Call
<1>5. CASE Ends(c) /\ UNCHANGED host BY <1>1, <1>2, <1>5, Answered
<1>6. CASE Goes(c, "start") /\ Builds(i, call[c].port, call[c].of)
  <2>1. /\ call' \in [Calls -> Call] /\ \A d \in Calls \ {c} : call'[d] = call[d]
        /\ call'[c].pc = "start" /\ call'[c].kind = call[c].kind /\ call'[c].of = call[c].of
    BY <1>2, <1>6, CallGoes
  <2>2. CallInv(c)' BY <1>3, <2>1 DEF CallInv
  <2>3. host' \in [Insts -> Instance] BY <1>2, <1>3, <1>4, <1>6, Instances
  <2> QED BY <1>1, <1>2, <2>1, <2>2, <2>3, RequestGoesOn DEF InstInv, InstancesType
<1> QED BY <1>5, <1>6 DEF Script

LEMMA ScriptStartsKeeps == ASSUME InstInv, NEW c \in Calls, ScriptStarts(c) PROVE InstInv'
<1> DEFINE i == Inst("own", call[c].of)
<1>1. call[c].pc = "start" /\ UNCHANGED <<given, row, jobs, overlooked, overtaken>> BY DEF ScriptStarts
<1>2. call \in [Calls -> Call] /\ host \in [Insts -> Instance] /\ left \in Budget BY DEF InstInv, InstancesType
<1>3. call[c].of \in Projects /\ call[c].kind = "own" BY <1>1 DEF InstInv, CallInv
<1>4. i \in Insts /\ call[c].port \in Ports \cup {NoPort} BY <1>2, <1>3, NamesOfInstances DEF InstInv, Call
<1>5. left' \in Budget BY <1>2, Faults DEF ScriptStarts
<1>6. CASE Ends(c) /\ (CleansUp(i) \/ UNCHANGED host)
  <2>1. host' \in [Insts -> Instance] BY <1>2, <1>3, <1>4, <1>6, Instances
  <2> QED BY <1>1, <1>5, <1>6, <2>1, Answered
<1>7. CASE Goes(c, "insert") /\ Starts(i, call[c].port, call[c].of)
  <2>1. /\ call' \in [Calls -> Call] /\ \A d \in Calls \ {c} : call'[d] = call[d]
        /\ call'[c].pc = "insert" /\ call'[c].kind = call[c].kind /\ call'[c].of = call[c].of
    BY <1>2, <1>7, CallGoes
  <2>2. CallInv(c)' BY <1>3, <2>1 DEF CallInv
  <2>3. host' \in [Insts -> Instance] BY <1>2, <1>3, <1>4, <1>7, Instances
  <2> QED BY <1>1, <1>5, <2>1, <2>2, <2>3, RequestGoesOn DEF InstInv, InstancesType
<1> QED BY <1>6, <1>7 DEF ScriptStarts

LEMMA TeardownKeeps == ASSUME InstInv, NEW c \in Calls, Teardown(c) PROVE InstInv'
<1>1. call[c].pc = "teardown" /\ UNCHANGED <<given, row, jobs, overlooked, overtaken>> /\ Goes(c, "remove")
  BY DEF Teardown
<1>2. call \in [Calls -> Call] /\ host \in [Insts -> Instance] /\ left \in Budget BY DEF InstInv, InstancesType
<1>3. call[c].of \in Projects BY <1>1 DEF InstInv, CallInv
<1>4. Inst("own", call[c].of) \in Insts BY <1>3, NamesOfInstances DEF InstInv
<1>5. Nothing \in Instance BY DEF Nothing, Instance
<1>6. host' \in [Insts -> Instance] /\ left' \in Budget BY <1>2, <1>4, <1>5, Faults DEF Teardown
<1>7. /\ call' \in [Calls -> Call] /\ \A d \in Calls \ {c} : call'[d] = call[d]
      /\ call'[c].pc = "remove" /\ call'[c].of = call[c].of
  BY <1>1, <1>2, CallGoes
<1>8. CallInv(c)' BY <1>3, <1>7 DEF CallInv
<1> QED BY <1>1, <1>6, <1>7, <1>8, RequestGoesOn DEF InstInv, InstancesType

LEMMA InsertKeeps == ASSUME InstInv, NEW c \in Calls, Insert(c) PROVE InstInv'
<1> DEFINE p == call[c].of
           f == [NoRow.st EXCEPT !["own"] = IF call[c].resume THEN "ready" ELSE "pending"]
           g == [NoRow.port EXCEPT !["own"] = call[c].port]
           r == [NoRow EXCEPT !.there = TRUE, !.port = g, !.st = f]
<1>1. /\ call[c].pc = "insert" /\ UNCHANGED <<given, jobs, host, overtaken, left>>
      /\ overlooked' = overlooked \ (Kinds \X {p})
      /\ IF call[c].resume THEN Ends(c) ELSE Goes(c, "enqueue")
  BY DEF Insert
<1>2. p \in Projects /\ call[c].kind = "own" /\ call[c] \in Call BY <1>1 DEF InstInv, InstancesType, CallInv
<1>3. row' = [row EXCEPT ![p] = r]
  <2>1. r = [NoRow EXCEPT !.there = TRUE, !.port["own"] = call[c].port,
                          !.st["own"] = IF call[c].resume THEN "ready" ELSE "pending"]
    BY DEF NoRow
  <2> QED BY <2>1 DEF Insert
<1>4. NoRow.st = [k \in Kinds |-> "none"] /\ NoRow.port = [k \in Kinds |-> NoPort] BY DEF NoRow
<1>5. /\ f \in [Kinds -> Statuses]
      /\ f["own"] = "pending" => ~call[c].resume
      /\ \A k \in Kinds \ {"own"} : f[k] = "none"
  BY <1>4 DEF Kinds, Statuses
<1>6. g \in [Kinds -> Ports \cup {NoPort}] BY <1>2, <1>4 DEF Kinds, Call
<1> HIDE DEF f, g
<1>7. r \in Row /\ r.st = f BY <1>5, <1>6 DEF NoRow, Row
<1> HIDE DEF r
<1>8. row' \in [Projects -> Row] /\ row'[p].st = f /\ \A q \in Projects \ {p} : row'[q] = row[q]
  BY <1>2, <1>3, <1>7 DEF InstInv, InstancesType
<1>9. /\ call' \in [Calls -> Call] /\ \A d \in Calls \ {c} : call'[d] = call[d]
      /\ IF call[c].resume THEN call'[c] = Free
         ELSE call'[c].pc = "enqueue" /\ call'[c].kind = "own" /\ call'[c].of = p
  BY <1>1, <1>2, CallEnds, CallGoes DEF InstInv, InstancesType
<1>10. InstancesType' BY <1>1, <1>8, <1>9 DEF InstInv, InstancesType, jobs
<1>11. NotTwice' BY <1>1 DEF InstInv, NotTwice, jobs
<1>12. ASSUME NEW d \in Calls PROVE CallInv(d)'
  BY <1>2, <1>9, FreeType DEF InstInv, CallInv, Kinds
<1>13. ASSUME NEW k \in Kinds, NEW q \in Projects PROVE Attended(k, q)'
  <2>1. CASE q = p
    <3>1. Open(k, q)' => k = "own" /\ ~call[c].resume BY <1>5, <1>8, <2>1 DEF Open, Kinds
    <3>2. ~call[c].resume /\ k = "own" => Queueing(k, q)' BY <1>9, <2>1 DEF Queueing
    <3> QED BY <3>1, <3>2 DEF Attended
  <2>2. CASE q # p
    <3>1. Attended(k, q) BY DEF InstInv
    <3>2. Open(k, q)' => Open(k, q) BY <1>1, <1>8, <2>2 DEF Open
    <3>3. Queueing(k, q) => Queueing(k, q)' BY <1>1, <1>9 DEF Queueing
    <3>4. Waiting(k, q) => Waiting(k, q)' BY <1>1 DEF Waiting, jobs
    <3>5. CarriedOut(k, q) => CarriedOut(k, q)' BY <1>1 DEF CarriedOut, jobs
    <3> QED BY <3>1, <3>2, <3>3, <3>4, <3>5 DEF Attended
  <2> QED BY <2>1, <2>2
<1> QED BY <1>10, <1>11, <1>12, <1>13 DEF InstInv

LEMMA UpdateKeeps == ASSUME InstInv, NEW c \in Calls, Update(c) PROVE InstInv'
<1> DEFINE p == call[c].of
           k == call[c].kind
           f == [row[p].st EXCEPT ![k] = "pending"]
           g == [row[p].port EXCEPT ![k] = call[c].port]
           b == row[p].hostReady /\ (k = "connected" => call[c].resume)
           r == [row[p] EXCEPT !.st = f, !.port = g, !.hostReady = b]
<1>1. /\ call[c].pc = "update" /\ UNCHANGED <<given, jobs, host, overtaken, left>>
      /\ overlooked' = overlooked \ {<<k, p>>} /\ Goes(c, "enqueue")
  BY DEF Update
<1>2. p \in Projects /\ k \in Kinds /\ call[c] \in Call /\ row[p] \in Row /\ row \in [Projects -> Row]
  BY <1>1 DEF InstInv, InstancesType, CallInv
<1>3. row[p].st \in [Kinds -> Statuses] /\ row[p].port \in [Kinds -> Ports \cup {NoPort}] BY <1>2 DEF Row
<1>4. f \in [Kinds -> Statuses] /\ \A j \in Kinds \ {k} : f[j] = row[p].st[j] BY <1>2, <1>3 DEF Statuses
<1>5. g \in [Kinds -> Ports \cup {NoPort}] BY <1>2, <1>3 DEF Call
<1>6. b \in BOOLEAN BY <1>2 DEF Call, Row
<1>7. row' = IF row[p].there THEN [row EXCEPT ![p] = r] ELSE row BY <1>2 DEF Update, Row
<1> HIDE DEF f, g, b
<1>8. r \in Row /\ r.st = f /\ r.there = row[p].there BY <1>2, <1>4, <1>5, <1>6 DEF Row
<1> HIDE DEF r
<1>9. /\ row' \in [Projects -> Row] /\ \A q \in Projects \ {p} : row'[q] = row[q]
      /\ row'[p].there = row[p].there /\ \A j \in Kinds \ {k} : row'[p].st[j] = row[p].st[j]
  BY <1>2, <1>4, <1>7, <1>8
<1>10. /\ call' \in [Calls -> Call] /\ \A d \in Calls \ {c} : call'[d] = call[d]
       /\ call'[c].pc = "enqueue" /\ call'[c].kind = k /\ call'[c].of = p
  BY <1>1, CallGoes DEF InstInv, InstancesType
<1> HIDE DEF k, p
<1>11. InstancesType' BY <1>1, <1>9, <1>10 DEF InstInv, InstancesType, jobs
<1>12. NotTwice' BY <1>1 DEF InstInv, NotTwice, jobs
<1>13. ASSUME NEW d \in Calls PROVE CallInv(d)' BY <1>2, <1>10 DEF InstInv, CallInv
<1>14. ASSUME NEW j \in Kinds, NEW q \in Projects PROVE Attended(j, q)'
  <2>1. CASE j = k /\ q = p
    <3>1. Queueing(j, q)' BY <1>10, <2>1 DEF Queueing
    <3> QED BY <3>1 DEF Attended
  <2>2. CASE ~(j = k /\ q = p)
    <3>1. Attended(j, q) BY DEF InstInv
    <3>2. Open(j, q)' => Open(j, q)
      <4>1. row'[q].there = row[q].there /\ row'[q].st[j] = row[q].st[j] BY <1>9, <2>2
      <4>2. <<j, q>> \in overlooked => <<j, q>> \in overlooked' BY <1>1, <2>2
      <4> QED BY <4>1, <4>2 DEF Open
    <3>3. Queueing(j, q) => Queueing(j, q)' BY <1>1, <1>10 DEF Queueing
    <3>4. Waiting(j, q) => Waiting(j, q)' BY <1>1 DEF Waiting, jobs
    <3>5. CarriedOut(j, q) => CarriedOut(j, q)' BY <1>1 DEF CarriedOut, jobs
    <3> QED BY <3>1, <3>2, <3>3, <3>4, <3>5 DEF Attended
  <2> QED BY <2>1, <2>2
<1> QED BY <1>11, <1>12, <1>13, <1>14 DEF InstInv

LEMMA EnqueueKeeps == ASSUME InstInv, NEW c \in Calls, Enqueue(c) PROVE InstInv'
<1> DEFINE p == call[c].of
           k == call[c].kind
           job == JobOf(c)
<1>1. call[c].pc = "enqueue" /\ Ends(c) /\ UNCHANGED <<given, host, overtaken>> BY DEF Enqueue
<1>2. p \in Projects /\ k \in Kinds /\ call[c] \in Call BY <1>1 DEF InstInv, InstancesType, CallInv
<1>3. job \in Job /\ job.kind = k /\ job.of = p
  <2>1. Target(k, p) \in Insts BY <1>2, NamesOfInstances DEF InstInv
  <2> QED BY <1>2, <2>1 DEF JobOf, Job, Call
<1>4. call' \in [Calls -> Call] /\ call'[c] = Free /\ \A d \in Calls \ {c} : call'[d] = call[d]
  BY <1>1, CallEnds DEF InstInv, InstancesType
<1>5. ASSUME NEW d \in Calls PROVE CallInv(d)' BY <1>4, FreeType DEF InstInv, CallInv
<1>6. \A j \in Kinds, q \in Projects : <<j, q>> # <<k, p>> /\ Queueing(j, q) => Queueing(j, q)'
  BY <1>4 DEF Queueing
<1>7. queue \in Seq(Job) /\ working \in Job \cup {NoJob} /\ done \subseteq Kinds \X Insts /\ row \in [Projects -> Row]
      /\ left \in Budget /\ overlooked \subseteq Kinds \X Projects
  BY DEF InstInv, InstancesType
<1>8. CASE Enqueued(job, p) /\ UNCHANGED <<row, left>>
  <2>1. working' = working /\ done' \subseteq Kinds \X Insts
        /\ overlooked' = IF JobId(job) \in Unfinished THEN overlooked \cup {<<k, p>>} ELSE overlooked
    BY <1>3, <1>7, <1>8 DEF Enqueued
  <2>2. CASE JobId(job) \in Unfinished
    <3>1. queue' = queue /\ overlooked' = overlooked \cup {<<k, p>>} BY <1>8, <2>1, <2>2 DEF Enqueued
    <3>2. InstancesType' BY <1>1, <1>2, <1>4, <1>7, <1>8, <2>1, <3>1 DEF InstInv, InstancesType
    <3>3. NotTwice' BY <2>1, <3>1 DEF InstInv, NotTwice
    <3>4. ASSUME NEW j \in Kinds, NEW q \in Projects PROVE Attended(j, q)'
      <4>1. Attended(j, q) BY DEF InstInv
      <4>2. Open(j, q)' => Open(j, q) /\ <<j, q>> # <<k, p>> BY <1>8, <3>1 DEF Open
      <4>3. Waiting(j, q) => Waiting(j, q)' BY <3>1 DEF Waiting
      <4>4. CarriedOut(j, q) => CarriedOut(j, q)' BY <2>1 DEF CarriedOut
      <4> QED BY <1>6, <4>1, <4>2, <4>3, <4>4 DEF Attended
    <3> QED BY <1>5, <3>2, <3>3, <3>4 DEF InstInv
  <2>3. CASE JobId(job) \notin Unfinished
    <3>1. queue' = Append(queue, job) /\ overlooked' = overlooked
      BY <1>8, <2>1, <2>3 DEF Enqueued, Forgets
    <3>2. /\ queue' \in Seq(Job) /\ Len(queue) + 1 \in DOMAIN queue' /\ queue'[Len(queue) + 1] = job
          /\ \A n \in DOMAIN queue' : n \in Nat /\ (n # Len(queue) + 1 => n \in DOMAIN queue /\ queue'[n] = queue[n])
          /\ \A n \in DOMAIN queue : n \in DOMAIN queue' /\ queue'[n] = queue[n]
      BY <1>3, <1>7, <3>1, Lengthened
    <3>3. \A n \in DOMAIN queue : JobId(queue[n]) # JobId(job) BY <2>3 DEF Unfinished
    <3>4. working # NoJob => JobId(job) # JobId(working) BY <2>3 DEF Unfinished, Active
    <3> HIDE DEF job
    <3>5. \A n, m \in DOMAIN queue' : n # m => JobId(queue'[n]) # JobId(queue'[m])
      <4>1. \A n, m \in DOMAIN queue : n # m => JobId(queue[n]) # JobId(queue[m]) BY DEF InstInv, InstancesType
      <4> QED BY <3>2, <3>3, <4>1
    <3>6. InstancesType' BY <1>1, <1>4, <1>7, <1>8, <2>1, <3>1, <3>2, <3>5 DEF InstInv, InstancesType
    <3>7. NotTwice'
      <4>1. working # NoJob => \A n \in DOMAIN queue : JobId(queue[n]) # JobId(working) BY DEF InstInv, NotTwice
      <4> QED BY <2>1, <3>2, <3>4, <4>1 DEF NotTwice
    <3>8. ASSUME NEW j \in Kinds, NEW q \in Projects PROVE Attended(j, q)'
      <4>1. Attended(j, q) BY DEF InstInv
      <4>2. Open(j, q)' => Open(j, q) BY <1>8, <3>1 DEF Open
      <4>3. Waiting(j, q) => Waiting(j, q)' BY <3>2 DEF Waiting
      <4>4. CarriedOut(j, q) => CarriedOut(j, q)' BY <2>1 DEF CarriedOut
      <4>5. <<j, q>> = <<k, p>> => Waiting(j, q)' BY <1>3, <3>2 DEF Waiting
      <4> QED BY <1>6, <4>1, <4>2, <4>3, <4>4, <4>5 DEF Attended
    <3> QED BY <1>5, <3>6, <3>7, <3>8 DEF InstInv
  <2> QED BY <2>2, <2>3
<1>9. CASE /\ Fault /\ UNCHANGED jobs
           /\ IF k = "restored" THEN SetStatus(k, p, "failed") /\ UNCHANGED overlooked
              ELSE overlooked' = overlooked \cup {<<k, p>>} /\ UNCHANGED row
  <2>1. UNCHANGED <<queue, working, done>> /\ left' \in Budget BY <1>7, <1>9, Faults DEF jobs
  <2>2. /\ row' \in [Projects -> Row] /\ overlooked' \subseteq Kinds \X Projects /\ overlooked \subseteq overlooked'
        /\ \A q \in Projects : row'[q].there = row[q].there
        /\ \A j \in Kinds, q \in Projects : row'[q].st[j] = "pending" => row[q].st[j] = "pending"
        /\ row[p].there => row'[p].st[k] # "pending" \/ <<k, p>> \in overlooked'
    <3>1. CASE k = "restored"
      <4>1. SetStatus(k, p, "failed") /\ UNCHANGED overlooked BY <1>9, <3>1
      <4> QED BY <1>2, <1>7, <4>1, StatusSet DEF Statuses
    <3>2. CASE k # "restored"
      <4>1. overlooked' = overlooked \cup {<<k, p>>} /\ UNCHANGED row BY <1>9, <3>2
      <4> QED BY <1>2, <1>7, <4>1
    <3> QED BY <3>1, <3>2
  <2>3. InstancesType' BY <1>1, <1>4, <2>1, <2>2 DEF InstInv, InstancesType
  <2>4. NotTwice' BY <2>1 DEF InstInv, NotTwice
  <2>5. ASSUME NEW j \in Kinds, NEW q \in Projects PROVE Attended(j, q)'
    <3>1. Attended(j, q) BY DEF InstInv
    <3>2. Open(j, q)' => Open(j, q) /\ <<j, q>> # <<k, p>> BY <2>2 DEF Open
    <3>3. Waiting(j, q) => Waiting(j, q)' BY <2>1 DEF Waiting
    <3>4. CarriedOut(j, q) => CarriedOut(j, q)' BY <2>1 DEF CarriedOut
    <3> QED BY <1>6, <3>1, <3>2, <3>3, <3>4 DEF Attended
  <2> QED BY <1>5, <2>3, <2>4, <2>5 DEF InstInv
<1> QED BY <1>8, <1>9 DEF Enqueue

LEMMA RemoveKeeps == ASSUME InstInv, NEW c \in Calls, Remove(c) PROVE InstInv'
<1>1. /\ call[c].pc = "remove" /\ Ends(c) /\ row' = [row EXCEPT ![call[c].of] = NoRow]
      /\ UNCHANGED <<given, jobs, host, overlooked, overtaken, left>>
  BY DEF Remove
<1>2. call[c].of \in Projects BY <1>1 DEF InstInv, CallInv
<1>3. call' \in [Calls -> Call] /\ call'[c] = Free /\ \A d \in Calls \ {c} : call'[d] = call[d]
  BY <1>1, CallEnds DEF InstInv, InstancesType
<1>4. row' \in [Projects -> Row] /\ ~row'[call[c].of].there /\ \A q \in Projects \ {call[c].of} : row'[q] = row[q]
  BY <1>1, <1>2, NoRowType DEF InstInv, InstancesType
<1>5. InstancesType' BY <1>1, <1>3, <1>4 DEF InstInv, InstancesType, jobs
<1>6. NotTwice' BY <1>1 DEF InstInv, NotTwice, jobs
<1>7. ASSUME NEW d \in Calls PROVE CallInv(d)' BY <1>3, FreeType DEF InstInv, CallInv
<1>8. ASSUME NEW k \in Kinds, NEW p \in Projects PROVE Attended(k, p)'
  <2>1. Attended(k, p) BY DEF InstInv
  <2>2. Open(k, p)' => Open(k, p) BY <1>1, <1>4 DEF Open
  <2>3. Queueing(k, p) => Queueing(k, p)' BY <1>1, <1>3 DEF Queueing
  <2>4. Waiting(k, p) => Waiting(k, p)' BY <1>1 DEF Waiting, jobs
  <2>5. CarriedOut(k, p) => CarriedOut(k, p)' BY <1>1 DEF CarriedOut, jobs
  <2> QED BY <2>1, <2>2, <2>3, <2>4, <2>5 DEF Attended
<1> QED BY <1>5, <1>6, <1>7, <1>8 DEF InstInv

LEMMA RequestsKeep ==
    ASSUME InstInv, NEW c \in Calls, Asks(c) \/ ServesBut(c) \/ Remove(c) PROVE InstInv'
BY AskCreateKeeps, AskKeeps, AskDeleteKeeps, AllocateForKeeps, ScriptKeeps, ScriptStartsKeeps, InsertKeeps,
   UpdateKeeps, EnqueueKeeps, TeardownKeeps, RemoveKeeps DEF Asks, ServesBut

\* The API's death: what it was about to queue is overlooked.
LEMMA ApiDiesKeeps == ASSUME InstInv, ApiDies PROVE InstInv'
<1> DEFINE unqueued == {<<call[c].kind, call[c].of>> : c \in {d \in Calls : call[d].pc = "enqueue"}}
           undeleted == {<<"own", call[c].of>> :
                            c \in {d \in Calls : call[d].pc = "remove" /\ given.type[call[d].of] = "ai"}}
<1>1. /\ overlooked' = overlooked \cup unqueued \cup undeleted /\ call' = [c \in Calls |-> Free]
      /\ UNCHANGED <<given, row, jobs, host, overtaken>>
  BY DEF ApiDies
<1>2. unqueued \subseteq Kinds \X Projects /\ undeleted \subseteq Kinds \X Projects
  BY DEF InstInv, CallInv, Kinds
<1>3. \A k \in Kinds, p \in Projects : Queueing(k, p) => <<k, p>> \in unqueued BY DEF Queueing
<1> HIDE DEF unqueued, undeleted
<1>4. left' \in Budget BY Spends DEF ApiDies, InstInv, InstancesType
<1>5. InstancesType' BY <1>1, <1>2, <1>4, FreeType DEF InstInv, InstancesType, jobs
<1>6. NotTwice' BY <1>1 DEF InstInv, NotTwice, jobs
<1>7. ASSUME NEW c \in Calls PROVE CallInv(c)' BY <1>1, FreeType DEF CallInv
<1>8. ASSUME NEW k \in Kinds, NEW p \in Projects PROVE Attended(k, p)'
  <2>1. Attended(k, p) BY DEF InstInv
  <2>2. Open(k, p)' => Open(k, p) /\ ~Queueing(k, p) BY <1>1, <1>3 DEF Open
  <2>3. Waiting(k, p) => Waiting(k, p)' BY <1>1 DEF Waiting, jobs
  <2>4. CarriedOut(k, p) => CarriedOut(k, p)' BY <1>1 DEF CarriedOut, jobs
  <2> QED BY <2>1, <2>2, <2>3, <2>4 DEF Attended
<1> QED BY <1>5, <1>6, <1>7, <1>8 DEF InstInv

\* What leaves rows, requests and jobs alone.
LEMMA InstancesStay ==
    ASSUME InstInv, UNCHANGED <<given, row, call, jobs, overlooked, overtaken>>, left' \in Budget,
           host' \in [Insts -> Instance]
    PROVE  InstInv'
<1>1. InstancesType' BY DEF InstInv, InstancesType, jobs
<1>2. NotTwice' BY DEF InstInv, NotTwice, jobs
<1>3. ASSUME NEW c \in Calls PROVE CallInv(c)' BY DEF InstInv, CallInv
<1>4. ASSUME NEW k \in Kinds, NEW p \in Projects PROVE Attended(k, p)'
  BY DEF InstInv, Attended, Open, Queueing, Waiting, CarriedOut, jobs
<1> QED BY <1>1, <1>2, <1>3, <1>4 DEF InstInv

LEMMA GoesOnKeeps == ASSUME InstInv, NEW i \in Insts, GoesOn(i) PROVE InstInv'
<1>1. UNCHANGED <<given, row, call, jobs, overlooked, overtaken, left>> BY DEF GoesOn
<1>2. left' \in Budget /\ host \in [Insts -> Instance] BY <1>1 DEF InstInv, InstancesType
<1>3. host' = [host EXCEPT ![i].st = "up"] \/ CleansUp(i) BY DEF GoesOn
<1>4. host' \in [Insts -> Instance]
  <2>1. host[i] \in Instance /\ [host[i] EXCEPT !.st = "up"] \in Instance /\ Nothing \in Instance
    BY <1>2 DEF Instance, Nothing
  <2> HIDE DEF Instance
  <2>2. host' = [host EXCEPT ![i] = [host[i] EXCEPT !.st = "up"]] \/ host' = [host EXCEPT ![i] = Nothing]
    BY <1>3 DEF CleansUp
  <2> QED BY <1>2, <2>1, <2>2
<1> QED BY <1>1, <1>2, <1>4, InstancesStay

-----------------------------------------------------------------------------
(* What holds of the previews.                                              *)

StartPcs == {"start", "script", "ready", "failed"}

\* The host has nothing of a preview and will not have: or it has been let go, or deleted.
Down(n) ==
    \/ n \in letGo \/ preview[n].st = "deleted"
    \/ /\ preview[n].site \notin {"building", "up"}
       /\ ~preview[n].job \/ \A b \in Acts : ~(act[b].pc = "start" /\ act[b].ref = n)

\* What a request knows of the preview it is about.
ActInv(a) ==
    LET x == act[a] IN
    /\ x.pc \in {"allocate", "insert"} \cup StartPcs => x.starts
    /\ x.starts => x.of \in Projects
    /\ \A n \in x.live : preview[n].st # "none"
    /\ x.pc = "mark" => x.ref \in x.live /\ Down(x.ref)
    /\ x.pc \in StartPcs => /\ x.ref \in Previews /\ preview[x.ref].st # "none"
                            /\ preview[x.ref].of = x.of
    /\ x.pc = "start" => preview[x.ref].site = "none"
    /\ x.pc = "failed" => Down(x.ref)

\* A preview that was made has a live row or is down, and is of a project that is there.
SiteInv(n) ==
    /\ IsLive(n) \/ Down(n)
    /\ IF preview[n].st = "none" THEN preview[n].of = NoProject ELSE preview[n].of \in Projects
    /\ preview[n].st \notin {"none", "deleted"} => row[preview[n].of].there

\* A request that starts a preview will have stopped the live ones before.
Clears(a) ==
    LET x == act[a] IN
    /\ x.pc \in {"halt", "mark"} => LiveOf(x.of) \subseteq x.live
    /\ x.pc \in {"allocate", "insert"} => LiveOf(x.of) = {}
    /\ x.pc \in StartPcs => LiveOf(x.of) \subseteq {x.ref}

\* A project whose requests came one after the other.
OneOf(p) ==
    /\ \A a, b \in Acts : act[a].of = p /\ act[b].of = p => a = b
    /\ \A m, n \in LiveOf(p) : m = n
    /\ \A a \in Acts : act[a].of = p /\ act[a].starts => Clears(a)

StartsApart ==
    \A a, b \in Acts : a # b /\ act[a].pc \in StartPcs /\ act[b].pc \in StartPcs => act[a].ref # act[b].ref

PrevInv ==
    /\ PreviewsType /\ StartsApart
    /\ \A a \in Acts : ActInv(a)
    /\ \A n \in Previews : SiteInv(n)
    /\ \A p \in Projects \ crossed : OneOf(p)

-----------------------------------------------------------------------------
(* What a step leaves of that.                                              *)

LEMMA RestType == Rest \in Act /\ Rest.pc = "idle" /\ Rest.of = NoProject /\ ~Rest.starts /\ Rest.live = {}
BY DEF Rest, Act

\* A request whose preview and its own record stay.
LEMMA ActStays ==
    ASSUME PrevInv, NEW a \in Acts, act'[a] = act[a],
           \A n \in Previews : /\ preview[n].st # "none" => preview'[n].st # "none" /\ preview'[n].of = preview[n].of
                               /\ Down(n) => Down(n)',
           act[a].pc = "start" => preview'[act[a].ref].site = "none"
    PROVE  ActInv(a)'
<1>1. ActInv(a) /\ act[a].live \subseteq Previews BY DEF PrevInv, PreviewsType, Act
<1>2. /\ act'[a].pc \in {"allocate", "insert"} \cup StartPcs => act'[a].starts
      /\ act'[a].starts => act'[a].of \in Projects
      /\ \A n \in act'[a].live : preview'[n].st # "none"
  BY <1>1 DEF ActInv
<1>3. act'[a].pc \in StartPcs => /\ act'[a].ref \in Previews /\ preview'[act'[a].ref].st # "none"
                                 /\ preview'[act'[a].ref].of = act'[a].of
  BY <1>1 DEF ActInv
<1>4. ASSUME NEW n \in Previews, n = act[a].ref, act[a].pc \in {"mark", "failed"} PROVE Down(n)'
  BY <1>1, <1>4 DEF ActInv
<1>5. act[a].pc \in {"mark", "failed"} => act[a].ref \in Previews /\ (act[a].pc = "mark" => act[a].ref \in act[a].live)
  BY <1>1 DEF ActInv, StartPcs
<1>6. act'[a].pc = "mark" => act'[a].ref \in act'[a].live /\ Down(act[a].ref)' BY <1>4, <1>5 DEF Down
<1>7. act'[a].pc = "failed" => Down(act[a].ref)' BY <1>4, <1>5 DEF Down
<1> QED BY <1>2, <1>3, <1>6, <1>7 DEF ActInv

\* A project that gets no live preview, and whose requests clear what they have to.
LEMMA OneStays ==
    ASSUME NEW p \in Projects, OneOf(p), \A n \in LiveOf(p)' : n \in LiveOf(p),
           \A a \in Acts : act'[a].of = p => act[a].of = p /\ (act'[a].starts => Clears(a)')
    PROVE  OneOf(p)'
BY DEF OneOf

LEMMA ClearsStays ==
    ASSUME NEW a \in Acts, Clears(a), act'[a] = act[a], \A n \in LiveOf(act[a].of)' : n \in LiveOf(act[a].of)
    PROVE  Clears(a)'
BY DEF Clears, LiveOf

\* Rows change so that nothing comes alive, and what is live stays so or is down.
Wanes(n) ==
    /\ preview'[n].of = preview[n].of /\ (preview'[n].st = "none" <=> preview[n].st = "none")
    /\ preview[n].st = "deleted" => preview'[n].st = "deleted"
    /\ IsLive(n)' => IsLive(n)
    /\ IsLive(n) => IsLive(n)' \/ Down(n)'
    /\ Down(n) => Down(n)'

\* A request stays as it is, or takes a step that starts nothing.
Proceeds(b) ==
    \/ act'[b] = act[b] /\ (act[b].pc = "start" => preview'[act[b].ref].site = "none")
    \/ /\ ActInv(b)' /\ act'[b].of \in {act[b].of, NoProject}
       /\ act'[b].pc \in StartPcs => act[b].pc \in StartPcs /\ act'[b].ref = act[b].ref
       /\ act'[b].starts => act[b].starts /\ (act[b].of \notin crossed => Clears(b)')

LEMMA ClearsBefore ==
    ASSUME PrevInv, NEW a \in Acts, act[a].starts, act[a].of \notin crossed PROVE Clears(a)
BY DEF PrevInv, ActInv, OneOf

LEMMA Steps ==
    ASSUME PrevInv, PreviewsType', crossed' = crossed,
           \A n \in Previews : preview'[n].st \notin {"none", "deleted"} /\ row[preview[n].of].there
                                  => row'[preview[n].of].there,
           \A n \in Previews : Wanes(n), \A b \in Acts : Proceeds(b)
    PROVE  PrevInv'
<1>1. ASSUME NEW b \in Acts PROVE ActInv(b)'
  <2>1. CASE act'[b] = act[b] /\ (act[b].pc = "start" => preview'[act[b].ref].site = "none")
    <3>1. \A n \in Previews : /\ preview[n].st # "none" => preview'[n].st # "none" /\ preview'[n].of = preview[n].of
                              /\ Down(n) => Down(n)'
      BY DEF Wanes
    <3> QED BY <2>1, <3>1, ActStays
  <2>2. CASE ActInv(b)' BY <2>2
  <2> QED BY <2>1, <2>2 DEF Proceeds
<1>2. ASSUME NEW n \in Previews PROVE SiteInv(n)'
  <2>1. SiteInv(n) /\ Wanes(n) BY DEF PrevInv
  <2>2. IsLive(n)' \/ Down(n)' BY <2>1 DEF SiteInv, Wanes
  <2>3. preview'[n].st \notin {"none", "deleted"} => preview[n].st \notin {"none", "deleted"} BY <2>1 DEF Wanes
  <2> QED BY <2>1, <2>2, <2>3 DEF SiteInv, Wanes
<1>3. ASSUME NEW p \in Projects \ crossed PROVE OneOf(p)'
  <2>1. OneOf(p) BY DEF PrevInv
  <2>2. \A q \in Projects : \A n \in LiveOf(q)' : n \in LiveOf(q) BY DEF LiveOf, Wanes
  <2>3. ASSUME NEW a \in Acts, act'[a].of = p PROVE act[a].of = p /\ (act'[a].starts => Clears(a)')
    <3>1. act[a].of = p BY <2>3, InstancesAssumption DEF Proceeds
    <3>2. act[a].starts => Clears(a) BY <2>1, <3>1 DEF OneOf
    <3>3. CASE act'[a] = act[a] BY <2>2, <3>1, <3>2, <3>3, ClearsStays
    <3>4. CASE act'[a].starts => act[a].starts /\ (act[a].of \notin crossed => Clears(a)') BY <3>1, <3>4
    <3> QED BY <3>3, <3>4 DEF Proceeds
  <2> QED BY <2>1, <2>2, <2>3, OneStays
<1>4. StartsApart' BY DEF PrevInv, StartsApart, Proceeds
<1> QED BY <1>1, <1>2, <1>3, <1>4 DEF PrevInv

\* Without a change of a row.
LEMMA NoWaning ==
    ASSUME preview' = preview, letGo \subseteq letGo', NEW n \in Previews,
           \A b \in Acts : act'[b].pc = "start" => act[b].pc = "start" /\ act'[b].ref = act[b].ref
    PROVE  Wanes(n)
BY DEF Wanes, Down, IsLive

LEMMA PreviewsStay ==
    ASSUME PrevInv, UNCHANGED previewVars, \A p \in Projects : row[p].there => row'[p].there
    PROVE  PrevInv'
<1>1. preview' = preview /\ act' = act /\ letGo' = letGo /\ crossed' = crossed BY DEF previewVars
<1>2. PreviewsType' BY <1>1 DEF PrevInv, PreviewsType
<1>3. \A n \in Previews : Wanes(n) BY <1>1, NoWaning
<1>4. \A b \in Acts : Proceeds(b) BY <1>1 DEF Proceeds, PrevInv, ActInv
<1>5. \A n \in Previews : preview[n].st # "none" => preview[n].of \in Projects BY DEF PrevInv, SiteInv
<1> QED BY <1>1, <1>2, <1>3, <1>4, <1>5, Steps

LEMMA ExpireKeeps == ASSUME PrevInv, NEW n \in Previews, Expire(n), UNCHANGED row PROVE PrevInv'
<1> DEFINE x == [preview[n] EXCEPT !.expired = TRUE]
<1>1. preview' = [preview EXCEPT ![n] = x] /\ act' = act /\ letGo' = letGo /\ crossed' = crossed
  BY DEF Expire, PrevInv, PreviewsType, Preview
<1>2. /\ x \in Preview /\ x.of = preview[n].of /\ x.st = preview[n].st /\ x.site = preview[n].site
      /\ x.job = preview[n].job
  BY DEF PrevInv, PreviewsType, Preview
<1> HIDE DEF x
<1>3. PreviewsType' BY <1>1, <1>2 DEF PrevInv, PreviewsType
<1>4. \A m \in Previews : /\ preview'[m].of = preview[m].of /\ preview'[m].st = preview[m].st
                          /\ preview'[m].site = preview[m].site /\ preview'[m].job = preview[m].job
  BY <1>1, <1>2 DEF PrevInv, PreviewsType
<1>5. \A m \in Previews : Wanes(m) BY <1>1, <1>4 DEF Wanes, IsLive, Down
<1>6. \A b \in Acts : Proceeds(b) BY <1>1, <1>4 DEF Proceeds, PrevInv, ActInv, StartPcs
<1> QED BY <1>1, <1>3, <1>5, <1>6, Steps

\* A request is answered.
LEMMA LeavesWell ==
    ASSUME act \in [Acts -> Act], NEW a \in Acts, Leaves(a)
    PROVE  /\ act' \in [Acts -> Act] /\ act'[a] = Rest /\ \A b \in Acts \ {a} : act'[b] = act[b]
           /\ ActInv(a)' /\ ~act'[a].starts /\ act'[a].pc = "idle" /\ act'[a].of = NoProject
<1>1. act' \in [Acts -> Act] /\ act'[a] = Rest /\ \A b \in Acts \ {a} : act'[b] = act[b]
  BY RestType DEF Leaves
<1>2. ActInv(a)' BY <1>1, RestType DEF ActInv, StartPcs
<1> QED BY <1>1, <1>2, RestType

LEMMA AllocatePreviewKeeps ==
    ASSUME PrevInv, NEW a \in Acts, AllocatePreview(a), UNCHANGED row PROVE PrevInv'
<1>1. act[a].pc = "allocate" /\ UNCHANGED <<preview, letGo, crossed>> /\ act \in [Acts -> Act]
  BY DEF AllocatePreview, PrevInv, PreviewsType
<1>2. PICK x \in Act : /\ act' = [act EXCEPT ![a] = x] /\ (x = Rest \/ x = [act[a] EXCEPT !.port = x.port, !.pc = "insert"])
  <2>1. CASE Leaves(a) BY <2>1, RestType DEF Leaves
  <2>2. ASSUME NEW n \in FreePreviewPorts, act' = [act EXCEPT ![a].port = n, ![a].pc = "insert"]
        PROVE  \E x \in Act : /\ act' = [act EXCEPT ![a] = x]
                              /\ (x = Rest \/ x = [act[a] EXCEPT !.port = x.port, !.pc = "insert"])
    <3> DEFINE y == [act[a] EXCEPT !.port = n, !.pc = "insert"]
    <3>1. n \in PreviewPorts BY DEF FreePreviewPorts
    <3>2. y \in Act /\ y.port = n BY <1>1, <3>1 DEF Act
    <3>3. act' = [act EXCEPT ![a] = y] BY <1>1, <2>2 DEF Act
    <3> QED BY <3>2, <3>3
  <2> QED BY <2>1, <2>2 DEF AllocatePreview
<1>3. act' \in [Acts -> Act] /\ act'[a] = x /\ \A b \in Acts \ {a} : act'[b] = act[b] BY <1>1, <1>2
<1>4. PreviewsType' BY <1>1, <1>3 DEF PrevInv, PreviewsType
<1>5. x.pc \in {"idle", "insert"} /\ x.of \in {act[a].of, NoProject} /\ (x.starts => act[a].starts)
      /\ x.live \subseteq act[a].live /\ (x.pc = "insert" => x.of = act[a].of /\ x.starts = act[a].starts)
      /\ (x.starts => x.pc = "insert")
  BY <1>1, <1>2, RestType DEF Act
<1>6. ActInv(a)' BY <1>1, <1>3, <1>5 DEF PrevInv, ActInv, StartPcs
<1>7. Proceeds(a)
  <2>1. act'[a].starts => act[a].starts /\ act'[a].of = act[a].of /\ act'[a].pc = "insert" BY <1>3, <1>5
  <2>3. act[a].of \notin crossed /\ act'[a].starts => LiveOf(act[a].of) = {}
    BY <1>1, <2>1, ClearsBefore DEF Clears
  <2>4. act[a].of \notin crossed /\ act'[a].starts => Clears(a)'
    BY <1>1, <2>1, <2>3 DEF Clears, LiveOf, IsLive, StartPcs
  <2> QED BY <1>3, <1>5, <1>6, <2>1, <2>4 DEF Proceeds, StartPcs
<1>8. \A b \in Acts : Proceeds(b) BY <1>1, <1>3, <1>7 DEF Proceeds, PrevInv, ActInv, StartPcs
<1>9. \A n \in Previews : Wanes(n) BY <1>1, <1>3, <1>5, NoWaning
<1> QED BY <1>1, <1>4, <1>8, <1>9, Steps

\* What is live of the project stays so.
LEMMA HaltedClears ==
    ASSUME NEW a \in Acts, LiveOf(act[a].of) \subseteq act[a].live,
           act'[a].pc = "mark", act'[a].of = act[a].of, act'[a].live = act[a].live,
           \A m \in Previews : preview'[m].of = preview[m].of /\ preview'[m].st = preview[m].st
    PROVE  Clears(a)'
BY DEF Clears, StartPcs, LiveOf, IsLive

LEMMA StartedClears ==
    ASSUME NEW a \in Acts, NEW n \in Previews, LiveOf(act[a].of) \subseteq {n},
           act'[a].pc \in StartPcs, act'[a].of = act[a].of, act'[a].ref = n,
           \A m \in Previews : preview'[m].of = preview[m].of /\ preview'[m].st = preview[m].st
    PROVE  Clears(a)'
BY DEF Clears, StartPcs, LiveOf, IsLive

\* A stop takes at most what is on the host, and the preview's job.
LEMMA HaltKeeps == ASSUME PrevInv, NEW a \in Acts, Halt(a), UNCHANGED row PROVE PrevInv'
<1> PICK n \in act[a].live :
      /\ act' = [act EXCEPT ![a].ref = n, ![a].pc = "mark"]
      /\ \/ /\ preview' = [preview EXCEPT ![n] = Halted(@)]
            /\ letGo' = IF preview[n].site = "building" THEN letGo \cup {n} ELSE letGo
         \/ ~row[preview[n].of].there /\ UNCHANGED <<preview, letGo>>
         \/ letGo' = letGo \cup {n} /\ UNCHANGED preview
  BY DEF Halt
<1> DEFINE x == [act[a] EXCEPT !.ref = n, !.pc = "mark"]
<1>1. act[a].pc = "halt" /\ crossed' = crossed /\ act \in [Acts -> Act] /\ preview \in [Previews -> Preview]
      /\ letGo \subseteq Previews
  BY DEF Halt, PrevInv, PreviewsType
<1>2. n \in Previews /\ preview[n].st # "none" BY <1>1 DEF PrevInv, ActInv, Act
<1>3. act' = [act EXCEPT ![a] = x] BY <1>1 DEF Act
<1>4. /\ x \in Act /\ x.pc = "mark" /\ x.ref = n /\ x.live = act[a].live /\ x.of = act[a].of
      /\ x.starts = act[a].starts
  BY <1>1, <1>2 DEF Act
<1> HIDE DEF x
<1>5. act' \in [Acts -> Act] /\ act'[a] = x /\ \A b \in Acts \ {a} : act'[b] = act[b] BY <1>1, <1>3, <1>4
<1>6. /\ Halted(preview[n]) \in Preview /\ Halted(preview[n]).of = preview[n].of
      /\ Halted(preview[n]).st = preview[n].st /\ ~Halted(preview[n]).job
      /\ Halted(preview[n]).site = IF preview[n].site = "building" THEN "building" ELSE "none"
  BY <1>1, <1>2 DEF Halted, Preview
<1>7. /\ preview' \in [Previews -> Preview] /\ \A m \in Previews \ {n} : preview'[m] = preview[m]
      /\ preview'[n].of = preview[n].of /\ preview'[n].st = preview[n].st
      /\ preview[n].site = "none" => preview'[n].site = "none"
      /\ letGo \subseteq letGo' /\ letGo' \subseteq Previews
  BY <1>1, <1>2, <1>6
<1>8. Down(n)'
  <2>1. CASE /\ preview' = [preview EXCEPT ![n] = Halted(@)]
             /\ letGo' = IF preview[n].site = "building" THEN letGo \cup {n} ELSE letGo
    BY <1>1, <1>2, <1>6, <2>1 DEF Down
  <2>2. CASE ~row[preview[n].of].there /\ UNCHANGED <<preview, letGo>>
    <3>1. preview[n].st = "deleted" BY <1>2, <2>2 DEF PrevInv, SiteInv
    <3> QED BY <2>2, <3>1 DEF Down
  <2>3. CASE letGo' = letGo \cup {n} BY <2>3 DEF Down
  <2> QED BY <2>1, <2>2, <2>3
<1>9. PreviewsType' BY <1>1, <1>5, <1>7 DEF PrevInv, PreviewsType
<1>10. ASSUME NEW m \in Previews PROVE Wanes(m)
  <2>1. CASE m = n BY <1>7, <1>8, <2>1 DEF Wanes, IsLive
  <2>2. CASE m # n
    <3>1. Down(m) => Down(m)' BY <1>1, <1>4, <1>5, <1>7, <2>2 DEF Down
    <3> QED BY <1>7, <2>2, <3>1 DEF Wanes, IsLive
  <2> QED BY <2>1, <2>2
<1>11. \A p \in Projects : LiveOf(p)' = LiveOf(p) BY <1>7 DEF LiveOf, IsLive
<1>12. Proceeds(a)
  <2>1. /\ ActInv(a) /\ act'[a].starts = act[a].starts /\ act'[a].of = act[a].of /\ act'[a].live = act[a].live
        /\ act'[a].pc = "mark" /\ act'[a].ref = n
    BY <1>4, <1>5 DEF PrevInv
  <2>2. Down(n)' /\ n \in act'[a].live BY <1>8, <2>1
  <2>3. \A m \in act[a].live : preview'[m].st # "none" BY <1>1, <1>7, <2>1 DEF ActInv, Act
  <2>4. ActInv(a)' BY <2>1, <2>2, <2>3 DEF ActInv, StartPcs, Down
  <2>5. act[a].starts /\ act[a].of \notin crossed => LiveOf(act[a].of) \subseteq act[a].live
    BY <1>1, ClearsBefore DEF Clears
  <2>6. \A m \in Previews : preview'[m].of = preview[m].of /\ preview'[m].st = preview[m].st BY <1>7
  <2>7. act[a].starts /\ act[a].of \notin crossed => Clears(a)' BY <2>1, <2>5, <2>6, HaltedClears
  <2> QED BY <2>1, <2>4, <2>7 DEF Proceeds, StartPcs
<1>13. ASSUME NEW b \in Acts PROVE Proceeds(b)
  <2>1. CASE b = a BY <1>12, <2>1
  <2>2. CASE b # a
    <3>1. act[b].pc = "start" => act[b].ref \in Previews /\ preview[act[b].ref].site = "none"
      BY DEF PrevInv, ActInv, StartPcs
    <3>2. act[b].pc = "start" => preview'[act[b].ref].site = "none" BY <1>7, <3>1
    <3> QED BY <1>5, <2>2, <3>2 DEF Proceeds
  <2> QED BY <2>1, <2>2
<1> QED BY <1>1, <1>9, <1>10, <1>13, Steps

\* Writing a status on a row that was made, and not when it has been deleted.
LEMMA Marked ==
    ASSUME preview \in [Previews -> Preview], NEW n \in Previews,
           NEW s \in {"ready", "stopped", "failed"}
    PROVE  LET w == Marks(n, s) IN
           /\ w \in [Previews -> Preview] /\ \A m \in Previews \ {n} : w[m] = preview[m]
           /\ w[n].of = preview[n].of /\ w[n].site = preview[n].site /\ w[n].job = preview[n].job
           /\ w[n].st = IF preview[n].st = "deleted" THEN "deleted" ELSE s
<1> DEFINE x == [preview[n] EXCEPT !.st = s]
<1>1. x \in Preview /\ x.of = preview[n].of /\ x.site = preview[n].site /\ x.job = preview[n].job /\ x.st = s
  BY DEF Preview
<1>2. Marks(n, s) = IF preview[n].st = "deleted" THEN preview ELSE [preview EXCEPT ![n] = x]
  BY DEF Marks, Preview
<1> HIDE DEF x
<1> QED BY <1>1, <1>2

LEMMA MarkStoppedKeeps == ASSUME PrevInv, NEW a \in Acts, MarkStopped(a), UNCHANGED row PROVE PrevInv'
<1>1. /\ act[a].pc = "mark" /\ UNCHANGED <<letGo, crossed>> /\ act \in [Acts -> Act]
      /\ preview \in [Previews -> Preview] /\ letGo \subseteq Previews
  BY DEF MarkStopped, PrevInv, PreviewsType
<1> PICK n \in Previews : n = act[a].ref /\ n \in act[a].live /\ Down(n) /\ preview[n].st # "none"
  <2>1. act[a].ref \in act[a].live /\ Down(act[a].ref) BY <1>1 DEF PrevInv, ActInv
  <2>2. act[a].live \subseteq Previews /\ \A m \in act[a].live : preview[m].st # "none"
    BY <1>1 DEF PrevInv, ActInv, Act
  <2> QED BY <2>1, <2>2
<1> DEFINE others == act[a].live \ {n}
           w == Marks(n, "stopped")
           z == [w[n] EXCEPT !.job = FALSE]
           x == IF others = {} /\ ~act[a].starts THEN Rest
                ELSE [act[a] EXCEPT !.live = others, !.ref = 0,
                                    !.pc = IF others = {} THEN "allocate" ELSE "halt"]
<1>2. act' = [act EXCEPT ![a] = x] BY DEF MarkStopped
<1>3. /\ w \in [Previews -> Preview] /\ \A m \in Previews \ {n} : w[m] = preview[m]
      /\ w[n].of = preview[n].of /\ w[n].site = preview[n].site
      /\ w[n].st = IF preview[n].st = "deleted" THEN "deleted" ELSE "stopped"
  BY <1>1, Marked
<1>4. preview' = [w EXCEPT ![n].job = FALSE] BY DEF MarkStopped
<1> HIDE DEF w
<1>5. w[n] \in Preview /\ preview' = [w EXCEPT ![n] = z] BY <1>3, <1>4 DEF Preview
<1>6. /\ z \in Preview /\ z.of = preview[n].of /\ z.site = preview[n].site /\ ~z.job
      /\ z.st = IF preview[n].st = "deleted" THEN "deleted" ELSE "stopped"
  BY <1>3, <1>5 DEF Preview
<1> HIDE DEF z
<1>7. /\ preview' \in [Previews -> Preview] /\ \A m \in Previews \ {n} : preview'[m] = preview[m]
      /\ preview'[n].of = preview[n].of /\ preview'[n].st \in {"deleted", "stopped"} /\ ~preview'[n].job
      /\ preview[n].st = "deleted" => preview'[n].st = "deleted"
      /\ preview'[n].site = preview[n].site
  BY <1>3, <1>5, <1>6
<1>8. /\ others \subseteq Previews /\ others \subseteq act[a].live
      /\ x \in Act /\ x.pc \in {"idle", "allocate", "halt"} /\ x.live \subseteq others
      /\ x.of \in {act[a].of, NoProject} /\ (x.starts => act[a].starts) /\ (x.starts => x.of = act[a].of)
      /\ (x.pc = "allocate" => others = {} /\ x.starts) /\ (x.pc = "halt" => x.live = others)
  <2>1. act[a].starts \in BOOLEAN /\ others \subseteq Previews /\ others \subseteq act[a].live BY <1>1 DEF Act
  <2>2. others = {} /\ ~act[a].starts => x = Rest OBVIOUS
  <2>3. others = {} /\ act[a].starts => x = [act[a] EXCEPT !.live = others, !.ref = 0, !.pc = "allocate"] OBVIOUS
  <2>4. others # {} => x = [act[a] EXCEPT !.live = others, !.ref = 0, !.pc = "halt"] OBVIOUS
  <2> HIDE DEF x, others
  <2>5. CASE others = {} /\ ~act[a].starts BY <2>1, <2>2, <2>5, RestType
  <2>6. CASE others = {} /\ act[a].starts BY <1>1, <2>1, <2>3, <2>6 DEF Act
  <2>7. CASE others # {} BY <1>1, <2>1, <2>4, <2>7 DEF Act
  <2> QED BY <2>1, <2>5, <2>6, <2>7
<1> HIDE DEF x
<1>9. act' \in [Acts -> Act] /\ act'[a] = x /\ \A b \in Acts \ {a} : act'[b] = act[b] BY <1>1, <1>2, <1>8
<1>10. PreviewsType' BY <1>1, <1>7, <1>9 DEF PrevInv, PreviewsType
<1>11. ASSUME NEW m \in Previews PROVE Wanes(m)
  <2>1. CASE m = n
    <3>1. Down(n)' BY <1>1, <1>7 DEF Down
    <3> QED BY <1>7, <2>1, <3>1 DEF Wanes, IsLive
  <2>2. CASE m # n
    <3>1. Down(m) => Down(m)' BY <1>1, <1>7, <1>8, <1>9, <2>2 DEF Down
    <3> QED BY <1>7, <2>2, <3>1 DEF Wanes, IsLive
  <2> QED BY <2>1, <2>2
<1>12. \A q \in Projects : \A m \in LiveOf(q)' : m \in LiveOf(q) /\ m # n
  BY <1>7 DEF LiveOf, IsLive
<1>13. Proceeds(a)
  <2>1. ActInv(a) /\ act'[a].starts = x.starts /\ act'[a].of = x.of /\ act'[a].live = x.live /\ act'[a].pc = x.pc
    BY <1>9 DEF PrevInv
  <2>2. \A m \in act[a].live : preview'[m].st # "none" BY <1>1, <1>7, <2>1 DEF ActInv, Act
  <2>3. ActInv(a)' BY <1>8, <2>1, <2>2 DEF ActInv, StartPcs
  <2>4. ASSUME act'[a].starts, act[a].of \notin crossed PROVE Clears(a)'
    <3>1. act[a].starts /\ act'[a].of = act[a].of /\ act[a].of \in Projects BY <1>8, <2>1, <2>4 DEF ActInv
    <3>2. LiveOf(act[a].of) \subseteq act[a].live BY <1>1, <2>4, <3>1, ClearsBefore DEF Clears
    <3>3. PICK q \in Projects : q = act[a].of BY <3>1
    <3>4. \A m \in LiveOf(q)' : m \in others BY <1>12, <3>2, <3>3
    <3>6. act'[a].pc \in {"allocate", "halt", "idle"} BY <1>8, <2>1
    <3>7. act'[a].pc = "allocate" => LiveOf(q)' = {} BY <1>8, <2>1, <3>4
    <3>8. act'[a].pc = "halt" => LiveOf(q)' \subseteq act'[a].live BY <1>8, <2>1, <3>4
    <3> QED BY <3>1, <3>3, <3>6, <3>7, <3>8 DEF Clears, StartPcs, LiveOf
  <2> QED BY <1>8, <2>1, <2>3, <2>4 DEF Proceeds, StartPcs
<1>14. ASSUME NEW b \in Acts PROVE Proceeds(b)
  <2>1. CASE b = a BY <1>13, <2>1
  <2>2. CASE b # a
    <3>1. act[b].pc = "start" => act[b].ref \in Previews /\ preview[act[b].ref].site = "none"
      BY DEF PrevInv, ActInv, StartPcs
    <3>2. act[b].pc = "start" => preview'[act[b].ref].site = "none" BY <1>7, <3>1
    <3> QED BY <1>9, <2>2, <3>2 DEF Proceeds
  <2> QED BY <2>1, <2>2
<1> QED BY <1>1, <1>10, <1>11, <1>14, Steps

LEMMA StartScriptKeeps == ASSUME PrevInv, NEW a \in Acts, StartScript(a), UNCHANGED row PROVE PrevInv'
<1>1. /\ act[a].pc = "start" /\ UNCHANGED <<letGo, crossed>> /\ act \in [Acts -> Act]
      /\ preview \in [Previews -> Preview] /\ letGo \subseteq Previews
  BY DEF StartScript, PrevInv, PreviewsType
<1> PICK n \in Previews : /\ n = act[a].ref /\ preview[n].site = "none" /\ preview[n].st # "none"
                          /\ preview[n].of = act[a].of
  BY <1>1 DEF PrevInv, ActInv, StartPcs
<1> PICK pc \in {"script", "failed"} :
      /\ Moves(a, pc)
      /\ IF pc = "script" THEN preview[n].job /\ preview' = [preview EXCEPT ![n].site = "building"]
         ELSE ~preview[n].job /\ UNCHANGED preview
  BY DEF StartScript
<1> DEFINE x == [act[a] EXCEPT !.pc = pc]
           z == [preview[n] EXCEPT !.site = "building"]
<1>2. act' = [act EXCEPT ![a] = x] BY <1>1 DEF Moves, Act
<1>3. /\ x \in Act /\ x.pc = pc /\ x.ref = n /\ x.live = act[a].live /\ x.of = act[a].of
      /\ x.starts = act[a].starts
  BY <1>1 DEF Act
<1>4. z \in Preview /\ z.of = preview[n].of /\ z.st = preview[n].st /\ z.job = preview[n].job BY <1>1 DEF Preview
<1>5. preview' = IF pc = "script" THEN [preview EXCEPT ![n] = z] ELSE preview BY <1>1 DEF Preview
<1> HIDE DEF x, z
<1>6. act' \in [Acts -> Act] /\ act'[a] = x /\ \A b \in Acts \ {a} : act'[b] = act[b] BY <1>1, <1>2, <1>3
<1>7. /\ preview' \in [Previews -> Preview] /\ \A m \in Previews \ {n} : preview'[m] = preview[m]
      /\ preview'[n].of = preview[n].of /\ preview'[n].st = preview[n].st
      /\ pc = "failed" => preview' = preview
  BY <1>1, <1>4, <1>5
<1>8. PreviewsType' BY <1>1, <1>6, <1>7 DEF PrevInv, PreviewsType
<1>9. \A b \in Acts : act'[b].pc = "start" => act[b].pc = "start" /\ act'[b].ref = act[b].ref /\ b # a BY <1>3, <1>6
<1>10. Wanes(n)
  <2>1. CASE pc = "script"
    <3>1. Down(n) => n \in letGo \/ preview[n].st = "deleted" BY <1>1, <2>1 DEF Down
    <3> QED BY <1>1, <1>7, <3>1 DEF Wanes, IsLive, Down
  <2>2. CASE pc = "failed" BY <1>1, <1>7, <1>9, <2>2, NoWaning
  <2> QED BY <2>1, <2>2
<1>11. ASSUME NEW m \in Previews PROVE Wanes(m)
  <2>1. CASE m # n
    <3>1. Down(m) => Down(m)' BY <1>1, <1>7, <1>9, <2>1 DEF Down
    <3> QED BY <1>7, <2>1, <3>1 DEF Wanes, IsLive
  <2> QED BY <1>10, <2>1
<1>12. Proceeds(a)
  <2>1. /\ ActInv(a) /\ act'[a].starts = act[a].starts /\ act'[a].of = act[a].of /\ act'[a].live = act[a].live
        /\ act'[a].pc = pc /\ act'[a].ref = n
    BY <1>3, <1>6 DEF PrevInv
  <2>2. pc = "failed" => Down(n)'
    <3> SUFFICES ASSUME pc = "failed" PROVE Down(n)' OBVIOUS
    <3>1. preview' = preview /\ ~preview[n].job BY <1>7
    <3> QED BY <3>1 DEF Down
  <2>3. \A m \in act[a].live : preview'[m].st # "none" BY <1>1, <1>7, <2>1 DEF ActInv, Act
  <2>4. act[a].starts /\ act[a].of \in Projects BY <1>1, <2>1 DEF ActInv, StartPcs
  <2>5. ActInv(a)'
    <3>1. preview'[n].st # "none" /\ preview'[n].of = act'[a].of /\ n \in Previews BY <1>7, <2>1
    <3>2. act'[a].pc \in {"script", "failed"} /\ (act'[a].pc = "failed" => Down(n)') BY <2>1, <2>2
    <3> QED BY <2>1, <2>3, <2>4, <3>1, <3>2 DEF ActInv, StartPcs, Down
  <2>6. act[a].of \notin crossed => LiveOf(act[a].of) \subseteq {n}
    BY <1>1, <2>4, ClearsBefore DEF Clears, StartPcs
  <2>7. \A m \in Previews : preview'[m].of = preview[m].of /\ preview'[m].st = preview[m].st BY <1>7
  <2>8. act'[a].pc \in StartPcs BY <2>1 DEF StartPcs
  <2>9. act[a].of \notin crossed => Clears(a)' BY <2>1, <2>6, <2>7, <2>8, StartedClears
  <2> QED BY <1>1, <2>1, <2>4, <2>5, <2>9 DEF Proceeds, StartPcs
<1>13. ASSUME NEW b \in Acts PROVE Proceeds(b)
  <2>1. CASE b # a
    <3>1. act[b].pc = "start" => act[b].ref \in Previews /\ act[b].ref # n /\ preview[act[b].ref].site = "none"
      BY <1>1, <2>1 DEF PrevInv, ActInv, StartPcs, StartsApart
    <3>2. act[b].pc = "start" => preview'[act[b].ref].site = "none" BY <1>7, <3>1
    <3> QED BY <1>6, <2>1, <3>2 DEF Proceeds
  <2> QED BY <1>12, <2>1
<1> QED BY <1>1, <1>8, <1>11, <1>13, Steps

\* The site of a preview changes, with the requests that wait for its script.
LEMMA SiteSettles ==
    ASSUME PrevInv, NEW n \in Previews, NEW s \in {"up", "half"}, NEW pc \in {"ready", "failed"},
           UNCHANGED <<row, crossed>>, letGo \subseteq letGo', letGo' \subseteq Previews,
           \/ preview' = [preview EXCEPT ![n].site = s] /\ (s = "up" => preview[n].site = "building" /\ pc = "ready")
           \/ preview' = preview /\ n \in letGo',
           \A b \in Acts : act[b].pc = "start" => act[b].ref # n,
           act' \in [Acts -> Act],
           \A b \in Acts : \/ act'[b] = act[b]
                           \/ act[b].ref = n /\ act[b].pc = "script" /\ act'[b] = [act[b] EXCEPT !.pc = pc]
    PROVE  PrevInv'
<1> DEFINE z == [preview[n] EXCEPT !.site = s]
<1>1. act \in [Acts -> Act] /\ preview \in [Previews -> Preview] BY DEF PrevInv, PreviewsType
<1>2. z \in Preview /\ z.of = preview[n].of /\ z.st = preview[n].st /\ z.job = preview[n].job /\ z.site = s
  BY <1>1 DEF Preview
<1>3. preview' = [preview EXCEPT ![n] = z] \/ preview' = preview BY <1>1 DEF Preview
<1> HIDE DEF z
<1>4. /\ preview' \in [Previews -> Preview] /\ \A m \in Previews \ {n} : preview'[m] = preview[m]
      /\ preview'[n].of = preview[n].of /\ preview'[n].st = preview[n].st /\ preview'[n].job = preview[n].job
  BY <1>1, <1>2, <1>3
<1>5. PreviewsType' BY <1>1, <1>4 DEF PrevInv, PreviewsType
<1>6. n \in letGo' \/ preview'[n].site = "half" \/ (preview'[n].site = "up" /\ preview[n].site = "building" /\ pc = "ready")
  <2>1. CASE preview' = [preview EXCEPT ![n].site = s] /\ (s = "up" => preview[n].site = "building" /\ pc = "ready")
    <3>1. preview'[n].site = s BY <1>1, <2>1 DEF Preview
    <3> QED BY <2>1, <3>1
  <2> QED BY <2>1
<1>7. \A b \in Acts : act[b].pc = "start" => act[b].ref # n OBVIOUS
<1>8. \A b \in Acts : act'[b].pc = "start" => act'[b] = act[b]
  <2> SUFFICES ASSUME NEW b \in Acts, act'[b] # act[b] PROVE act'[b].pc # "start" OBVIOUS
  <2>1. act'[b] = [act[b] EXCEPT !.pc = pc] /\ act[b] \in Act BY <1>1
  <2> QED BY <2>1 DEF Act
<1>9. pc = "failed" => Down(n)'
  <2>1. \A b \in Acts : ~(act'[b].pc = "start" /\ act'[b].ref = n) BY <1>7, <1>8
  <2> QED BY <1>6, <2>1 DEF Down
<1>10. Wanes(n)
  <2>1. \A b \in Acts : ~(act'[b].pc = "start" /\ act'[b].ref = n) BY <1>7, <1>8
  <2>2. Down(n) => Down(n)' BY <1>4, <1>6, <2>1 DEF Down
  <2> QED BY <1>4, <2>2 DEF Wanes, IsLive
<1>11. ASSUME NEW m \in Previews PROVE Wanes(m)
  <2>1. CASE m # n
    <3>1. Down(m) => Down(m)' BY <1>4, <1>8, <2>1 DEF Down
    <3> QED BY <1>4, <2>1, <3>1 DEF Wanes, IsLive
  <2> QED BY <1>10, <2>1
<1>12. ASSUME NEW b \in Acts PROVE Proceeds(b)
  <2>1. CASE act'[b] = act[b]
    <3>1. act[b].pc = "start" => act[b].ref \in Previews /\ act[b].ref # n /\ preview[act[b].ref].site = "none"
      BY <1>7 DEF PrevInv, ActInv, StartPcs
    <3>2. act[b].pc = "start" => preview'[act[b].ref].site = "none" BY <1>4, <3>1
    <3> QED BY <2>1, <3>2 DEF Proceeds
  <2>2. CASE act[b].ref = n /\ act[b].pc = "script" /\ act'[b] = [act[b] EXCEPT !.pc = pc]
    <3>1. /\ ActInv(b) /\ act'[b].starts = act[b].starts /\ act'[b].of = act[b].of /\ act'[b].live = act[b].live
          /\ act'[b].pc = pc /\ act'[b].ref = n
      BY <1>1, <2>2 DEF PrevInv, Act
    <3>2. \A m \in act[b].live : preview'[m].st # "none" BY <1>1, <1>4, <3>1 DEF ActInv, Act
    <3>3. act[b].starts /\ act[b].of \in Projects /\ preview[n].st # "none" /\ preview[n].of = act[b].of
      BY <2>2, <3>1 DEF ActInv, StartPcs
    <3>4. ActInv(b)' BY <1>4, <1>9, <3>1, <3>2, <3>3 DEF ActInv, StartPcs, Down
    <3>5. act[b].of \notin crossed => LiveOf(act[b].of) \subseteq {n}
      BY <2>2, <3>3, ClearsBefore DEF Clears, StartPcs
    <3>6. act[b].of \notin crossed => Clears(b)' BY <1>4, <3>1, <3>5 DEF Clears, StartPcs, LiveOf, IsLive
    <3> QED BY <2>2, <3>1, <3>3, <3>4, <3>6 DEF Proceeds, StartPcs
  <2> QED BY <2>1, <2>2
<1> QED BY <1>5, <1>11, <1>12, Steps

LEMMA Seen ==
    ASSUME act \in [Acts -> Act], NEW n \in Previews, NEW pc \in {"ready", "failed"}, Sees(n, pc)
    PROVE  /\ act' \in [Acts -> Act]
           /\ \A b \in Acts : \/ act'[b] = act[b]
                              \/ act[b].ref = n /\ act[b].pc = "script" /\ act'[b] = [act[b] EXCEPT !.pc = pc]
<1>1. ASSUME NEW b \in Acts PROVE [act[b] EXCEPT !.pc = pc] \in Act BY DEF Act
<1> QED BY <1>1 DEF Sees

LEMMA ScriptEndsKeeps == ASSUME PrevInv, NEW n \in Previews, ScriptEnds(n), UNCHANGED row PROVE PrevInv'
<1>1. preview[n].site = "building" /\ UNCHANGED <<letGo, crossed>> /\ act \in [Acts -> Act] /\ letGo' \subseteq Previews
  BY DEF ScriptEnds, PrevInv, PreviewsType
<1> \A b \in Acts : act[b].pc = "start" => act[b].ref # n BY <1>1 DEF PrevInv, ActInv
<1>2. CASE preview' = [preview EXCEPT ![n].site = "up"] /\ Sees(n, "ready") BY <1>1, <1>2, Seen, SiteSettles
<1>3. CASE preview' = [preview EXCEPT ![n].site = "half"] /\ Sees(n, "failed") BY <1>1, <1>3, Seen, SiteSettles
<1> QED BY <1>2, <1>3 DEF ScriptEnds

LEMMA TimesOutKeeps == ASSUME PrevInv, NEW a \in Acts, TimesOut(a), UNCHANGED row PROVE PrevInv'
<1>1. /\ act[a].pc = "script" /\ crossed' = crossed /\ act \in [Acts -> Act] /\ letGo \subseteq Previews
      /\ Moves(a, "failed")
  BY DEF TimesOut, PrevInv, PreviewsType
<1> PICK n \in Previews : n = act[a].ref BY <1>1 DEF PrevInv, ActInv, StartPcs
<1>2. \/ letGo' = letGo \cup {n} /\ preview' = preview
      \/ letGo' = letGo /\ preview' = [preview EXCEPT ![n].site = "half"]
  BY DEF TimesOut
<1>3. \A b \in Acts : act[b].pc = "start" => act[b].ref # n BY <1>1 DEF PrevInv, StartsApart, StartPcs
<1>4. act' = [act EXCEPT ![a] = [act[a] EXCEPT !.pc = "failed"]] BY <1>1 DEF Moves, Act
<1>5. [act[a] EXCEPT !.pc = "failed"] \in Act BY <1>1 DEF Act
<1>6. act' \in [Acts -> Act] BY <1>1, <1>4, <1>5
<1>7. ASSUME NEW b \in Acts
      PROVE  \/ act'[b] = act[b]
             \/ act[b].ref = n /\ act[b].pc = "script" /\ act'[b] = [act[b] EXCEPT !.pc = "failed"]
  BY <1>1, <1>4
<1>8. letGo \subseteq letGo' /\ letGo' \subseteq Previews BY <1>1, <1>2
<1> QED BY <1>1, <1>2, <1>3, <1>6, <1>7, <1>8, SiteSettles

\* The outcome of a start: a row is marked, unless its project was deleted.
LEMMA MarkFailedKeeps == ASSUME PrevInv, NEW a \in Acts, MarkFailed(a), UNCHANGED row PROVE PrevInv'
<1>1. /\ act[a].pc = "failed" /\ UNCHANGED <<letGo, crossed>> /\ act \in [Acts -> Act] /\ Leaves(a)
      /\ preview \in [Previews -> Preview] /\ letGo \subseteq Previews
  BY DEF MarkFailed, PrevInv, PreviewsType
<1> PICK n \in Previews : n = act[a].ref /\ Down(n) /\ preview[n].st # "none"
  BY <1>1 DEF PrevInv, ActInv, StartPcs
<1>2. preview' = Marks(n, "failed") BY DEF MarkFailed
<1>3. /\ preview' \in [Previews -> Preview] /\ \A m \in Previews \ {n} : preview'[m] = preview[m]
      /\ preview'[n].of = preview[n].of /\ preview'[n].site = preview[n].site /\ preview'[n].job = preview[n].job
      /\ preview'[n].st = IF preview[n].st = "deleted" THEN "deleted" ELSE "failed"
  BY <1>1, <1>2, Marked
<1>4. /\ act' \in [Acts -> Act] /\ act'[a] = Rest /\ \A b \in Acts \ {a} : act'[b] = act[b]
      /\ ActInv(a)' /\ ~act'[a].starts /\ act'[a].pc = "idle" /\ act'[a].of = NoProject
  BY <1>1, LeavesWell
<1>5. PreviewsType' BY <1>1, <1>3, <1>4 DEF PrevInv, PreviewsType
<1>6. ASSUME NEW m \in Previews PROVE Wanes(m)
  <2>1. Down(m) => Down(m)' BY <1>1, <1>3, <1>4 DEF Down
  <2>2. m = n => Down(m)' BY <2>1
  <2> QED BY <1>3, <2>1, <2>2 DEF Wanes, IsLive
<1>7. ASSUME NEW b \in Acts PROVE Proceeds(b)
  <2>1. act[b].pc = "start" => act[b].ref \in Previews /\ preview[act[b].ref].site = "none"
    BY DEF PrevInv, ActInv, StartPcs
  <2>2. act[b].pc = "start" => preview'[act[b].ref].site = "none" BY <1>3, <2>1
  <2> QED BY <1>4, <2>2 DEF Proceeds, StartPcs
<1> QED BY <1>1, <1>5, <1>6, <1>7, Steps

LEMMA MarkReadyKeeps == ASSUME PrevInv, NEW a \in Acts, MarkReady(a), UNCHANGED row PROVE PrevInv'
<1>1. /\ act[a].pc = "ready" /\ UNCHANGED <<letGo, crossed>> /\ act \in [Acts -> Act] /\ Leaves(a)
      /\ preview \in [Previews -> Preview] /\ letGo \subseteq Previews
  BY DEF MarkReady, PrevInv, PreviewsType
<1> PICK n \in Previews : n = act[a].ref /\ preview[n].st # "none" /\ preview[n].of = act[a].of
  BY <1>1 DEF PrevInv, ActInv, StartPcs
<1>2. preview' = Marks(n, "ready") BY DEF MarkReady
<1>3. /\ preview' \in [Previews -> Preview] /\ \A m \in Previews \ {n} : preview'[m] = preview[m]
      /\ preview'[n].of = preview[n].of /\ preview'[n].site = preview[n].site /\ preview'[n].job = preview[n].job
      /\ preview'[n].st = IF preview[n].st = "deleted" THEN "deleted" ELSE "ready"
  BY <1>1, <1>2, Marked
<1>4. /\ act' \in [Acts -> Act] /\ act'[a] = Rest /\ \A b \in Acts \ {a} : act'[b] = act[b]
      /\ ActInv(a)' /\ ~act'[a].starts /\ act'[a].pc = "idle" /\ act'[a].of = NoProject
  BY <1>1, LeavesWell
<1>5. PreviewsType' BY <1>1, <1>3, <1>4 DEF PrevInv, PreviewsType
<1>6. \A m \in Previews : Down(m) => Down(m)' BY <1>1, <1>3, <1>4 DEF Down
<1>7. ASSUME NEW b \in Acts PROVE ActInv(b)'
  <2>1. CASE b = a BY <1>4, <2>1
  <2>2. CASE b # a
    <3>1. act[b].pc = "start" => act[b].ref \in Previews /\ preview[act[b].ref].site = "none"
      BY DEF PrevInv, ActInv, StartPcs
    <3>2. act[b].pc = "start" => preview'[act[b].ref].site = "none" BY <1>3, <3>1
    <3> QED BY <1>3, <1>4, <1>6, <2>2, <3>2, ActStays
  <2> QED BY <2>1, <2>2
<1>8. StartsApart' BY <1>4 DEF PrevInv, StartsApart, StartPcs
<1>9. ASSUME NEW m \in Previews PROVE SiteInv(m)'
  <2>1. SiteInv(m) BY DEF PrevInv
  <2>2. IsLive(m)' \/ Down(m)'
    <3>1. CASE m = n BY <1>3, <3>1 DEF IsLive, Down
    <3>2. CASE m # n BY <1>3, <1>6, <2>1, <3>2 DEF SiteInv, IsLive
    <3> QED BY <3>1, <3>2
  <2> QED BY <1>3, <2>1, <2>2 DEF SiteInv
<1>10. ASSUME NEW p \in Projects \ crossed PROVE OneOf(p)'
  <2>1. OneOf(p) BY DEF PrevInv
  <2>2. \A b \in Acts : act'[b].of = p => b # a /\ act'[b] = act[b] BY <1>4, InstancesAssumption
  <2>3. \A b, c \in Acts : act'[b].of = p /\ act'[c].of = p => b = c BY <2>1, <2>2 DEF OneOf
  <2>4. CASE p = act[a].of
    <3>1. act[a].starts BY <1>1 DEF PrevInv, ActInv, StartPcs
    <3>2. LiveOf(p) \subseteq {n} BY <1>1, <2>4, <3>1, ClearsBefore DEF Clears, StartPcs
    <3>3. LiveOf(p)' \subseteq {n} BY <1>3, <3>2 DEF LiveOf, IsLive
    <3>4. \A b \in Acts : act'[b].of # p BY <2>1, <2>2, <2>4 DEF OneOf
    <3> QED BY <3>3, <3>4 DEF OneOf
  <2>5. CASE p # act[a].of
    <3>1. \A m \in LiveOf(p)' : m \in LiveOf(p) BY <1>3, <2>5 DEF LiveOf, IsLive
    <3>2. \A b \in Acts : act'[b].of = p => act[b].of = p /\ (act'[b].starts => Clears(b)')
      <4> SUFFICES ASSUME NEW b \in Acts, act'[b].of = p PROVE act[b].of = p /\ (act'[b].starts => Clears(b)')
        OBVIOUS
      <4>1. act[b].of = p /\ act'[b] = act[b] BY <2>2
      <4>2. act[b].starts => Clears(b) BY <2>1, <4>1 DEF OneOf
      <4> QED BY <3>1, <4>1, <4>2, ClearsStays
    <3> QED BY <2>1, <3>1, <3>2, OneStays
  <2> QED BY <2>4, <2>5
<1> QED BY <1>1, <1>5, <1>7, <1>8, <1>9, <1>10 DEF PrevInv

LEMMA InsertPreviewKeeps == ASSUME PrevInv, NEW a \in Acts, InsertPreview(a), UNCHANGED row PROVE PrevInv'
<1>1. /\ act[a].pc = "insert" /\ UNCHANGED <<letGo, crossed>> /\ act \in [Acts -> Act]
      /\ preview \in [Previews -> Preview] /\ letGo \subseteq Previews
      /\ act[a].starts /\ act[a].of \in Projects
  BY DEF InsertPreview, PrevInv, PreviewsType, ActInv
<1>2. CASE Leaves(a) /\ UNCHANGED preview
  <2>1. /\ act' \in [Acts -> Act] /\ act'[a] = Rest /\ \A b \in Acts \ {a} : act'[b] = act[b]
        /\ ActInv(a)' /\ ~act'[a].starts /\ act'[a].pc = "idle" /\ act'[a].of = NoProject
    BY <1>1, <1>2, LeavesWell
  <2>2. PreviewsType' BY <1>1, <1>2, <2>1 DEF PrevInv, PreviewsType
  <2>3. \A m \in Previews : Wanes(m) BY <1>1, <1>2, <2>1, NoWaning
  <2>4. \A b \in Acts : Proceeds(b) BY <1>2, <2>1 DEF Proceeds, StartPcs, PrevInv, ActInv
  <2> QED BY <1>1, <1>2, <2>2, <2>3, <2>4, Steps
<1>3. ASSUME NEW n \in Previews, row[act[a].of].there, preview[n] = Unmade,
             preview' = [preview EXCEPT ![n] = [of |-> act[a].of, st |-> "creating", port |-> act[a].port,
                                                expired |-> FALSE, job |-> TRUE, site |-> "none"]],
             act' = [act EXCEPT ![a].ref = n, ![a].pc = "start"]
      PROVE  PrevInv'
  <2> DEFINE x == [act[a] EXCEPT !.ref = n, !.pc = "start"]
             z == [of |-> act[a].of, st |-> "creating", port |-> act[a].port,
                   expired |-> FALSE, job |-> TRUE, site |-> "none"]
  <2>1. act' = [act EXCEPT ![a] = x] BY <1>1, <1>3 DEF Act
  <2>2. /\ x \in Act /\ x.pc = "start" /\ x.ref = n /\ x.live = act[a].live /\ x.of = act[a].of /\ x.starts
    BY <1>1 DEF Act
  <2>3. z \in Preview /\ z.of = act[a].of /\ z.st = "creating" /\ z.job /\ z.site = "none"
    BY <1>1 DEF Preview, Act
  <2>4. preview' = [preview EXCEPT ![n] = z] BY <1>3
  <2> HIDE DEF x, z
  <2>5. act' \in [Acts -> Act] /\ act'[a] = x /\ \A b \in Acts \ {a} : act'[b] = act[b] BY <1>1, <2>1, <2>2
  <2>6. preview' \in [Previews -> Preview] /\ preview'[n] = z /\ \A m \in Previews \ {n} : preview'[m] = preview[m]
    BY <1>1, <2>3, <2>4
  <2>7. PreviewsType' BY <1>1, <2>5, <2>6 DEF PrevInv, PreviewsType
  <2>8. preview[n].st = "none" /\ preview[n].of = NoProject BY <1>3 DEF Unmade
  <2>9. \A m \in Previews \ {n} : Down(m) => Down(m)' BY <1>1, <2>2, <2>5, <2>6 DEF Down
  <2>10. ASSUME NEW b \in Acts \ {a} PROVE ActInv(b)'
    <3>1. ActInv(b) /\ act'[b] = act[b] /\ act[b].live \subseteq Previews BY <1>1, <2>5 DEF PrevInv, Act
    <3>2. n \notin act[b].live /\ (act[b].pc \in StartPcs \cup {"mark"} => act[b].ref \in Previews \ {n})
      BY <2>8, <3>1 DEF ActInv, StartPcs
    <3>3. act[b].pc \in {"mark", "failed"} => Down(act[b].ref) /\ act[b].ref \in Previews \ {n}
      BY <3>1, <3>2 DEF ActInv, StartPcs
    <3>4. ASSUME NEW m \in Previews \ {n}, m = act[b].ref, act[b].pc \in {"mark", "failed"} PROVE Down(m)'
      BY <2>9, <3>3, <3>4
    <3>5. act'[b].pc \in {"mark", "failed"} => Down(act[b].ref)' BY <3>1, <3>3, <3>4 DEF Down
    <3>6. \A m \in act'[b].live : preview'[m].st # "none" BY <2>6, <3>1, <3>2 DEF ActInv
    <3>7. /\ act'[b].pc \in {"allocate", "insert"} \cup StartPcs => act'[b].starts
          /\ act'[b].starts => act'[b].of \in Projects
          /\ act'[b].pc = "mark" => act'[b].ref \in act'[b].live
      BY <3>1 DEF ActInv
    <3>8. act'[b].pc \in StartPcs => /\ act'[b].ref \in Previews /\ preview'[act'[b].ref].st # "none"
                                     /\ preview'[act'[b].ref].of = act'[b].of
      BY <2>6, <3>1, <3>2 DEF ActInv
    <3>9. act'[b].pc = "start" => preview'[act'[b].ref].site = "none" BY <2>6, <3>1, <3>2 DEF ActInv, StartPcs
    <3> QED BY <3>5, <3>6, <3>7, <3>8, <3>9 DEF ActInv
  <2>11. ActInv(a)'
    <3>1. ActInv(a) /\ act[a].live \subseteq Previews BY <1>1 DEF PrevInv, Act
    <3>2. \A m \in act'[a].live : preview'[m].st # "none" BY <2>2, <2>3, <2>5, <2>6, <3>1 DEF ActInv
    <3> QED BY <1>1, <2>2, <2>3, <2>5, <2>6, <3>2 DEF ActInv, StartPcs
  <2>12. StartsApart'
    <3>1. \A b \in Acts : act[b].pc \in StartPcs => act[b].ref # n BY <2>8 DEF PrevInv, ActInv
    <3> QED BY <2>2, <2>5, <3>1 DEF PrevInv, StartsApart
  <2>13. ASSUME NEW m \in Previews PROVE SiteInv(m)'
    <3>1. CASE m = n
      <4>1. preview'[m].st = "creating" /\ preview'[m].of = act[a].of BY <2>3, <2>6, <3>1
      <4> QED BY <1>1, <1>3, <4>1 DEF SiteInv, IsLive
    <3>2. CASE m # n
      <4>1. SiteInv(m) /\ preview'[m] = preview[m] BY <2>6, <3>2 DEF PrevInv
      <4>2. IsLive(m)' \/ Down(m)' BY <2>9, <3>2, <4>1 DEF SiteInv, IsLive
      <4> QED BY <4>1, <4>2 DEF SiteInv
    <3> QED BY <3>1, <3>2
  <2>14. ASSUME NEW p \in Projects \ crossed PROVE OneOf(p)'
    <3>1. OneOf(p) BY DEF PrevInv
    <3>2. \A b \in Acts : act'[b].of = act[b].of BY <2>2, <2>5
    <3>3. CASE p = act[a].of
      <4>1. LiveOf(p) = {} BY <1>1, <3>3, ClearsBefore DEF Clears
      <4>2. LiveOf(p)' \subseteq {n} BY <2>6, <4>1 DEF LiveOf, IsLive
      <4>3. \A b \in Acts : act'[b].of = p => b = a BY <3>1, <3>2, <3>3 DEF OneOf
      <4>4. Clears(a)' BY <2>2, <2>5, <3>3, <4>2 DEF Clears, StartPcs, LiveOf, IsLive
      <4> QED BY <4>2, <4>3, <4>4 DEF OneOf
    <3>4. CASE p # act[a].of
      <4>1. \A m \in LiveOf(p)' : m \in LiveOf(p) BY <2>3, <2>6, <3>4 DEF LiveOf, IsLive
      <4>2. \A b \in Acts : act'[b].of = p => act[b].of = p /\ (act'[b].starts => Clears(b)')
        <5> SUFFICES ASSUME NEW b \in Acts, act'[b].of = p PROVE act[b].of = p /\ (act'[b].starts => Clears(b)')
          OBVIOUS
        <5>1. act[b].of = p /\ b # a /\ act'[b] = act[b] BY <2>5, <3>2, <3>4
        <5>2. act[b].starts => Clears(b) BY <3>1, <5>1 DEF OneOf
        <5> QED BY <4>1, <5>1, <5>2, ClearsStays
      <4> QED BY <3>1, <4>1, <4>2, OneStays
    <3> QED BY <3>3, <3>4
  <2> QED BY <1>1, <2>7, <2>10, <2>11, <2>12, <2>13, <2>14 DEF PrevInv
<1> QED BY <1>2, <1>3 DEF InsertPreview

\* A request comes: what it will stop is all that is live of its project.
LEMMA Comes ==
    ASSUME PrevInv, NEW a \in Acts, NEW p \in Projects, NEW starts \in BOOLEAN, act[a].pc = "idle",
           act' = [act EXCEPT ![a] = Stops(p, starts)], UNCHANGED <<preview, letGo, row>>,
           crossed' = IF \E b \in Acts : act[b].of = p THEN crossed \cup {p} ELSE crossed
    PROVE  PrevInv'
<1> DEFINE x == Stops(p, starts)
<1>1. act \in [Acts -> Act] /\ letGo \subseteq Previews /\ crossed \subseteq Projects BY DEF PrevInv, PreviewsType
<1>2. LiveOf(p) \subseteq Previews /\ \A n \in LiveOf(p) : preview[n].st # "none" BY DEF LiveOf, IsLive
<1>3. /\ x \in Act /\ x.of = p /\ x.starts = starts /\ x.live = LiveOf(p)
      /\ x.pc = IF LiveOf(p) # {} THEN "halt" ELSE IF starts THEN "allocate" ELSE "idle"
  BY <1>2 DEF Stops, ToStop, Rest, Act
<1> act' = [act EXCEPT ![a] = x] OBVIOUS
<1> HIDE DEF x
<1>4. act' \in [Acts -> Act] /\ act'[a] = x /\ \A b \in Acts \ {a} : act'[b] = act[b] BY <1>1, <1>3
<1>5. PreviewsType' BY <1>1, <1>4 DEF PrevInv, PreviewsType
<1>6. \A b \in Acts : act'[b].pc = "start" => act[b].pc = "start" /\ act'[b].ref = act[b].ref BY <1>3, <1>4
<1>7. \A n \in Previews : Down(n) => Down(n)' BY <1>6 DEF Down
<1>8. ASSUME NEW b \in Acts PROVE ActInv(b)'
  <2>1. CASE b = a BY <1>2, <1>3, <1>4, <2>1 DEF ActInv, StartPcs
  <2>2. CASE b # a
    <3>1. act[b].pc = "start" => preview'[act[b].ref].site = "none" BY DEF PrevInv, ActInv
    <3> QED BY <1>4, <1>7, <2>2, <3>1, ActStays
  <2> QED BY <2>1, <2>2
<1>9. StartsApart' BY <1>3, <1>4 DEF PrevInv, StartsApart, StartPcs
<1>10. \A n \in Previews : SiteInv(n)' BY <1>7 DEF PrevInv, SiteInv, IsLive
<1>11. ASSUME NEW q \in Projects \ crossed' PROVE OneOf(q)'
  <2>1. OneOf(q) BY <1>1 DEF PrevInv
  <2>2. LiveOf(q)' = LiveOf(q) BY DEF LiveOf, IsLive
  <2>3. CASE q = p
    <3>1. \A b \in Acts : act[b].of # p BY <2>3
    <3>2. \A b \in Acts : act'[b].of = q => b = a BY <1>4, <2>3, <3>1
    <3>3. Clears(a)' BY <1>3, <1>4, <2>2, <2>3 DEF Clears, StartPcs, LiveOf, IsLive
    <3> QED BY <2>1, <2>2, <3>2, <3>3 DEF OneOf
  <2>4. CASE q # p
    <3>1. \A b \in Acts : act'[b].of = q => act[b].of = q /\ (act'[b].starts => Clears(b)')
      <4> SUFFICES ASSUME NEW b \in Acts, act'[b].of = q PROVE act[b].of = q /\ (act'[b].starts => Clears(b)')
        OBVIOUS
      <4>1. act[b].of = q /\ act'[b] = act[b] BY <1>3, <1>4, <2>4
      <4>2. act[b].starts => Clears(b) BY <2>1, <4>1 DEF OneOf
      <4> QED BY <2>2, <4>1, <4>2, ClearsStays
    <3> QED BY <2>1, <2>2, <3>1, OneStays
  <2> QED BY <2>3, <2>4
<1> QED BY <1>5, <1>8, <1>9, <1>10, <1>11 DEF PrevInv

LEMMA AsksPreviewKeeps == ASSUME PrevInv, NEW a \in Acts, AsksPreview(a), UNCHANGED row PROVE PrevInv'
<1>1. ASSUME NEW p \in Projects, NEW starts \in BOOLEAN, AskPreview(a, p, starts) PROVE PrevInv'
  BY <1>1, Comes DEF AskPreview
<1>2. ASSUME NEW p \in Projects, AskStatus(a, p) PROVE PrevInv' BY <1>2, Comes DEF AskStatus
<1> QED BY <1>1, <1>2 DEF AsksPreview

\* The API starts again: no request is left but the one that stops what has expired.
LEMMA RebootKeeps == ASSUME PrevInv, PreviewsReboot, UNCHANGED row PROVE PrevInv'
<1> DEFINE boot == [Rest EXCEPT !.live = ExpiredOnes, !.pc = IF ExpiredOnes = {} THEN "idle" ELSE "halt"]
<1> PICK a \in Acts : act' = [b \in Acts |-> IF b = a THEN boot ELSE Rest] BY DEF PreviewsReboot
<1>1. UNCHANGED <<preview, letGo, crossed>> /\ letGo \subseteq Previews BY DEF PreviewsReboot, PrevInv, PreviewsType
<1>2. ExpiredOnes \subseteq Previews /\ \A n \in ExpiredOnes : preview[n].st # "none"
  BY DEF ExpiredOnes, LiveOf, IsLive
<1>3. boot \in Act /\ boot.pc \in {"idle", "halt"} /\ boot.of = NoProject /\ ~boot.starts /\ boot.live = ExpiredOnes
  BY <1>2 DEF Rest, Act
<1> HIDE DEF boot
<1>4. /\ act' \in [Acts -> Act]
      /\ \A b \in Acts : /\ act'[b].pc \in {"idle", "halt"} /\ act'[b].of = NoProject /\ ~act'[b].starts
                         /\ act'[b].live \subseteq ExpiredOnes
  BY <1>3, RestType
<1>5. PreviewsType' BY <1>1, <1>4 DEF PrevInv, PreviewsType
<1>6. \A n \in Previews : Wanes(n) BY <1>1, <1>4, NoWaning
<1>7. ASSUME NEW b \in Acts PROVE Proceeds(b)
  <2>1. ActInv(b)' BY <1>1, <1>2, <1>4 DEF ActInv, StartPcs
  <2> QED BY <1>4, <2>1 DEF Proceeds, StartPcs
<1> QED BY <1>1, <1>5, <1>6, <1>7, Steps

\* A project is deleted, and the rows of its previews with it.
LEMMA DropKeeps ==
    ASSUME PrevInv, NEW p \in Projects, DropPreviews(p), \A q \in Projects \ {p} : row'[q] = row[q]
    PROVE  PrevInv'
<1>1. UNCHANGED <<act, letGo, crossed>> /\ letGo \subseteq Previews /\ preview \in [Previews -> Preview]
      /\ act \in [Acts -> Act]
  BY DEF DropPreviews, PrevInv, PreviewsType
<1>2. ASSUME NEW n \in Previews
      PROVE  /\ preview'[n] \in Preview /\ preview'[n].of = preview[n].of /\ preview'[n].site = preview[n].site
             /\ preview'[n].job = preview[n].job
             /\ preview'[n].st = IF preview[n].of = p THEN "deleted" ELSE preview[n].st
  <2>1. preview'[n] = IF preview[n].of = p THEN [preview[n] EXCEPT !.st = "deleted"] ELSE preview[n]
    BY DEF DropPreviews
  <2> QED BY <1>1, <2>1 DEF Preview
<1>3. preview' \in [Previews -> Preview] BY <1>2 DEF DropPreviews
<1>4. PreviewsType' BY <1>1, <1>3 DEF PrevInv, PreviewsType
<1>5. ASSUME NEW n \in Previews PROVE Wanes(n)
  <2>1. preview[n].st = "none" => preview[n].of # p BY InstancesAssumption DEF PrevInv, SiteInv
  <2>2. Down(n) => Down(n)' BY <1>1, <1>2 DEF Down
  <2>3. preview'[n].st = "deleted" => Down(n)' BY DEF Down
  <2> QED BY <1>2, <2>1, <2>2, <2>3 DEF Wanes, IsLive
<1>6. ASSUME NEW b \in Acts PROVE Proceeds(b)
  <2>1. act[b].pc = "start" => act[b].ref \in Previews /\ preview[act[b].ref].site = "none"
    BY DEF PrevInv, ActInv, StartPcs
  <2>2. act[b].pc = "start" => preview'[act[b].ref].site = "none" BY <1>2, <2>1
  <2> QED BY <1>1, <2>2 DEF Proceeds
<1>7. \A n \in Previews : preview'[n].st \notin {"none", "deleted"} =>
                              preview[n].of \in Projects \ {p}
  BY <1>2 DEF PrevInv, SiteInv
<1> QED BY <1>1, <1>4, <1>5, <1>6, <1>7, Steps

-----------------------------------------------------------------------------
(* Both together.                                                           *)

IInv == InstInv /\ PrevInv

LEMMA Begins == Init => IInv
<1> SUFFICES ASSUME Init PROVE IInv OBVIOUS
<1> USE DEF Init, InstancesInit, PreviewsInit
<1>1. PICK x \in Studied : given = [name |-> x.name, type |-> x.type] /\ left = x.left OBVIOUS
<1>2. given \in [name: [Projects -> Names], type: [Projects -> {"ai", "odoo_sh"}]] /\ left \in Budget
  BY <1>1, InstancesAssumption
<1>3. ASSUME NEW p \in Projects
      PROVE  row[p] \in Row /\ row[p].st = [k \in Kinds |-> "none"]
  <2>1. row[p] = [NoRow EXCEPT !.there = (given.type[p] = "odoo_sh")] OBVIOUS
  <2>2. (given.type[p] = "odoo_sh") \in BOOLEAN OBVIOUS
  <2>3. NoRow.st = [k \in Kinds |-> "none"] BY DEF NoRow
  <2> QED BY <2>1, <2>2, <2>3, NoRowType DEF Row
<1>4. row \in [Projects -> Row] BY <1>3
<1>5. host \in [Insts -> Instance] BY DEF Nothing, Instance
<1>6. InstancesType BY <1>2, <1>4, <1>5, FreeType DEF InstancesType
<1>7. NotTwice BY DEF NotTwice
<1>8. \A c \in Calls : CallInv(c) BY FreeType DEF CallInv
<1>9. \A k \in Kinds, p \in Projects : Attended(k, p) BY <1>3 DEF Attended, Open
<1>10. Unmade \in Preview BY DEF Unmade, Preview
<1>11. preview \in [Previews -> Preview] /\ act \in [Acts -> Act] BY <1>10, RestType
<1>12. PreviewsType BY <1>11 DEF PreviewsType
<1>13. \A a \in Acts : ActInv(a) BY RestType DEF ActInv, StartPcs
<1>14. \A n \in Previews : SiteInv(n) BY DEF SiteInv, Down, Unmade
<1>15. \A p \in Projects : OneOf(p)
  <2>1. \A p \in Projects : LiveOf(p) = {} BY DEF LiveOf, IsLive, Unmade
  <2> QED BY <2>1, RestType, InstancesAssumption DEF OneOf
<1>16. StartsApart BY RestType DEF StartsApart, StartPcs
<1> QED BY <1>6, <1>7, <1>8, <1>9, <1>12, <1>13, <1>14, <1>15, <1>16 DEF IInv, InstInv, PrevInv

\* No step of the worker or of a request but a deletion takes a project's row away.
LEMMA RowsStayThere ==
    ASSUME InstInv, Worker \/ WorkerDies \/ \E c \in Calls : Asks(c) \/ ServesBut(c), NEW p \in Projects,
           row[p].there
    PROVE  row'[p].there
<1> row \in [Projects -> Row] BY DEF InstInv, InstancesType
<1>1. CASE Worker
  <2>1. ASSUME working # NoJob, NEW s \in {"ready", "failed"}, Outcome(s) PROVE row'[p].there
    <3>1. working.kind \in Kinds /\ working.of \in Projects BY <2>1 DEF InstInv, InstancesType, Job
    <3> QED BY <2>1, <3>1, StatusSet DEF Outcome, Statuses
  <2>2. CASE TakeJob BY <2>2 DEF TakeJob
  <2>3. CASE AllocateInJob BY <2>1, <2>3 DEF AllocateInJob, At
  <2>4. CASE Build BY <2>1, <2>4 DEF Build, At
  <2>5. CASE Grant BY <2>1, <2>5 DEF Grant, At
  <2>6. CASE MarkHostReady BY <2>6 DEF MarkHostReady, Row
  <2>7. CASE Secure BY <2>1, <2>7 DEF Secure, At
  <2>8. CASE Restart BY <2>1, <2>8 DEF Restart, At
  <2>9. CASE Record BY <2>9 DEF Record, Row
  <2>10. CASE FinishJob BY <2>10 DEF FinishJob
  <2>11. CASE Start BY <2>1, <2>11 DEF Start, At
  <2>12. CASE Upgrade BY <2>1, <2>12 DEF Upgrade, At
  <2> QED BY <1>1, <2>2, <2>3, <2>4, <2>5, <2>6, <2>7, <2>8, <2>9, <2>10, <2>11, <2>12 DEF Worker
<1>2. CASE WorkerDies BY <1>2 DEF WorkerDies
<1>3. ASSUME NEW c \in Calls, Asks(c) PROVE row'[p].there BY <1>3 DEF Asks, AskCreate, AskDelete, Ask
<1>4. ASSUME NEW c \in Calls, ServesBut(c) PROVE row'[p].there
  <2>1. CASE AllocateFor(c) BY <2>1 DEF AllocateFor
  <2>2. CASE Script(c) BY <2>2 DEF Script
  <2>3. CASE Insert(c) BY <2>3 DEF Insert, NoRow
  <2>4. CASE Update(c)
    <3> DEFINE q == call[c].of
               k == call[c].kind
               f == [row[q].st EXCEPT ![k] = "pending"]
               g == [row[q].port EXCEPT ![k] = call[c].port]
               b == row[q].hostReady /\ (k = "connected" => call[c].resume)
               r == [row[q] EXCEPT !.st = f, !.port = g, !.hostReady = b]
    <3>1. q \in Projects /\ row[q] \in Row BY <2>4 DEF Update, InstInv, CallInv
    <3>2. row' = IF row[q].there THEN [row EXCEPT ![q] = r] ELSE row BY <2>4, <3>1 DEF Update, Row
    <3> HIDE DEF f, g, b
    <3>3. r.there = row[q].there BY <3>1 DEF Row
    <3> HIDE DEF r
    <3> QED BY <3>1, <3>2, <3>3
  <2>5. CASE Enqueue(c)
    <3>1. call[c].kind \in Kinds /\ call[c].of \in Projects BY <2>5 DEF Enqueue, InstInv, CallInv
    <3>2. CASE SetStatus(call[c].kind, call[c].of, "failed") BY <3>1, <3>2, StatusSet DEF Statuses
    <3> QED BY <2>5, <3>2 DEF Enqueue
  <2>6. CASE Teardown(c) BY <2>6 DEF Teardown
  <2>7. CASE ScriptStarts(c) BY <2>7 DEF ScriptStarts
  <2> QED BY <1>4, <2>1, <2>2, <2>3, <2>4, <2>5, <2>6, <2>7 DEF ServesBut
<1> QED BY <1>1, <1>2, <1>3, <1>4

LEMMA StepKeeps == IInv /\ [Next]_vars => IInv'
<1> SUFFICES ASSUME IInv, [Next]_vars PROVE IInv' OBVIOUS
<1>1. InstInv /\ PrevInv BY DEF IInv
<1>2. CASE (Worker \/ WorkerDies) /\ UNCHANGED previewVars
  <2>1. InstInv' BY <1>1, <1>2, WorkerKeeps, WorkerDiesKeeps
  <2>2. \A p \in Projects : row[p].there => row'[p].there BY <1>1, <1>2, RowsStayThere
  <2> QED BY <1>1, <1>2, <2>1, <2>2, PreviewsStay DEF IInv
<1>3. ASSUME NEW c \in Calls, Asks(c) \/ ServesBut(c), UNCHANGED previewVars PROVE IInv'
  <2>1. InstInv' BY <1>1, <1>3, RequestsKeep
  <2>2. \A p \in Projects : row[p].there => row'[p].there BY <1>1, <1>3, RowsStayThere
  <2> QED BY <1>1, <1>3, <2>1, <2>2, PreviewsStay DEF IInv
<1>4. ASSUME NEW c \in Calls, Remove(c), DropPreviews(call[c].of) PROVE IInv'
  <2>1. InstInv' BY <1>1, <1>4, RequestsKeep
  <2>2. PICK p \in Projects : p = call[c].of BY <1>1, <1>4 DEF Remove, InstInv, CallInv
  <2>3. \A q \in Projects \ {p} : row'[q] = row[q] BY <1>1, <1>4, <2>2 DEF Remove, InstInv, InstancesType
  <2>4. DropPreviews(p) BY <1>4, <2>2
  <2> QED BY <1>1, <2>1, <2>3, <2>4, DropKeeps DEF IInv
<1>5. ASSUME \/ \E a \in Acts : AsksPreview(a) \/ ServesPreview(a)
             \/ \E n \in Previews : Expire(n) \/ ScriptEnds(n),
             UNCHANGED <<given, row, call, jobs, host, overlooked, overtaken>>
      PROVE  IInv'
  <2>0. left \in Budget /\ UNCHANGED row /\ host' \in [Insts -> Instance]
    BY <1>1, <1>5 DEF InstInv, InstancesType
  <2>1. left' \in Budget
    <3>1. ASSUME NEW a \in Acts, AsksPreview(a) PROVE left' \in Budget
      BY <2>0, <3>1, Spends DEF AsksPreview, AskPreview, AskStatus
    <3>2. ASSUME NEW a \in Acts, ServesPreview(a) PROVE left' \in Budget
      BY <2>0, <3>2, Faults DEF ServesPreview, Halt, MarkStopped, AllocatePreview, InsertPreview,
                                StartScript, TimesOut, MarkReady, MarkFailed
    <3>3. ASSUME NEW n \in Previews, Expire(n) \/ ScriptEnds(n) PROVE left' \in Budget
      BY <2>0, <3>3, Faults DEF Expire, ScriptEnds
    <3> QED BY <1>5, <3>1, <3>2, <3>3
  <2>2. InstInv' BY <1>1, <1>5, <2>0, <2>1, InstancesStay
  <2>3. ASSUME NEW a \in Acts, ServesPreview(a) PROVE PrevInv'
    BY <1>1, <2>0, <2>3, HaltKeeps, MarkStoppedKeeps, AllocatePreviewKeeps, InsertPreviewKeeps, StartScriptKeeps,
       TimesOutKeeps, MarkReadyKeeps, MarkFailedKeeps DEF ServesPreview
  <2>4. PrevInv' BY <1>1, <1>5, <2>0, <2>3, AsksPreviewKeeps, ExpireKeeps, ScriptEndsKeeps
  <2> QED BY <2>2, <2>4 DEF IInv
<1>6. CASE ApiDies
  <2>1. InstInv' BY <1>1, <1>6, ApiDiesKeeps
  <2>2. PreviewsReboot /\ UNCHANGED row BY <1>6 DEF ApiDies
  <2> QED BY <1>1, <2>1, <2>2, RebootKeeps DEF IInv
<1>7. CASE UNCHANGED vars
  <2>1. /\ UNCHANGED <<given, row, call, jobs, host, overlooked, overtaken>> /\ left' = left
        /\ UNCHANGED previewVars
    BY <1>7 DEF vars, instanceVars, jobs
  <2>2. left' \in Budget /\ host' \in [Insts -> Instance] BY <1>1, <2>1 DEF InstInv, InstancesType
  <2>3. InstInv' BY <1>1, <2>1, <2>2, InstancesStay
  <2> QED BY <1>1, <2>1, <2>3, PreviewsStay DEF IInv
<1>8. ASSUME NEW i \in Insts, GoesOn(i), UNCHANGED previewVars PROVE IInv'
  <2>1. InstInv' /\ UNCHANGED row BY <1>1, <1>8, GoesOnKeeps DEF GoesOn
  <2> QED BY <1>1, <1>8, <2>1, PreviewsStay DEF IInv
<1> QED BY <1>2, <1>3, <1>4, <1>5, <1>6, <1>7, <1>8 DEF Next

THEOREM Kept == Spec => []IInv
<1> QED BY Begins, StepKeeps, PTL DEF Spec

\* Every variable has its type, and no two waiting jobs have one id.
THEOREM TypeCorrect == Spec => []TypeOK
<1>1. IInv => TypeOK BY DEF IInv, InstInv, PrevInv, TypeOK
<1> QED BY <1>1, Kept, PTL

\* Whatever is pending is under way, for any number of projects and requests
\* (project-provisioning.queue.ts): what the queue drops, Redis refuses or a death cuts off
\* is overlooked, and nothing else is.
THEOREM NothingForgotten == Spec => []PendingIsUnderWay
<1>1. ASSUME IInv PROVE PendingIsUnderWay
  <2> SUFFICES ASSUME NEW k \in Kinds, NEW p \in Projects, Open(k, p)
               PROVE  Queueing(k, p) \/ JobAbout(k, p)
    BY DEF PendingIsUnderWay, Open, Queueing
  <2>1. Attended(k, p) BY <1>1 DEF IInv, InstInv
  <2> QED BY <2>1 DEF Attended, Waiting, CarriedOut, JobAbout
<1> QED BY <1>1, Kept, PTL

\* A preview that is on the host has a live row, whoever stops, starts, expires or dies
\* (project-preview.service.ts:336-342).
THEOREM PreviewsAreFound == Spec => []FoundAgain
<1>1. IInv => FoundAgain BY DEF IInv, PrevInv, SiteInv, Down, FoundAgain
<1> QED BY <1>1, Kept, PTL

\* A project has one preview, if two requests about its previews never overlapped
\* (project-preview.service.ts:172-174).
THEOREM OneEach == Spec => []OnePreview
<1>1. ASSUME IInv, NEW p \in Projects \ crossed PROVE Cardinality(LiveOf(p)) <= 1
  <2>1. \A m, n \in LiveOf(p) : m = n BY <1>1 DEF IInv, PrevInv, OneOf
  <2>2. CASE LiveOf(p) = {} BY <2>2, FS_EmptySet
  <2>3. CASE LiveOf(p) # {}
    <3> PICK n \in LiveOf(p) : TRUE BY <2>3
    <3>1. LiveOf(p) = {n} BY <2>1
    <3>2. Cardinality({n}) = 1 BY FS_Singleton
    <3> QED BY <3>1, <3>2
  <2> QED BY <2>2, <2>3
<1>2. IInv => OnePreview BY <1>1 DEF OnePreview
<1> QED BY <1>2, Kept, PTL

-----------------------------------------------------------------------------
(* What rows say of instances that are up.                                  *)

\* The kinds that have an instance; a restart is of the others'.
Shown == {"own", "connected", "restored"}
Jobs == {queue[n] : n \in DOMAIN queue} \cup (IF working = NoJob THEN {} ELSE {working})

\* The instance is built, the project's, at that port: whether it is up or down is another matter.
Stands(k, p, port) ==
    LET x == host[Inst(k, p)] IN x.st \in {"down", "up"} /\ x.of = p /\ x.port = port
IsThere(k, p) == Stands(k, p, row[p].port[k])

\* What the steps of a job and the statements of a request are for.
JobShape(j) ==
    /\ j.inst = Target(j.kind, j.of)
    /\ j.kind = "own" => ~j.resume
    /\ j.kind = "restart" => j.pc \in {"waiting", "run", "upgrade", "finish"}
    /\ j.pc \in {"run", "upgrade"} => j.kind = "restart"
    /\ j.pc = "allocate" => j.kind = "restored"
    /\ j.pc = "grant" => j.kind \in {"own", "connected"}
    /\ j.pc \in {"mark", "secure"} => j.kind = "connected"

CallShape(x) ==
    /\ x.pc = "idle" => x = Free
    /\ x.kind = "own" => /\ x.pc \in {"allocate", "script", "start", "insert", "enqueue"}
                         /\ given.type[x.of] = "ai"
    /\ x.pc \in {"script", "start"} => x.resume
    /\ x.kind = "own" /\ x.pc = "enqueue" => ~x.resume
    /\ x.kind = "connected" /\ x.pc = "allocate" => ~x.resume
    /\ x.kind = "delete" => x.pc \in {"idle", "teardown", "remove"}
    /\ x.pc = "teardown" => x.kind = "delete" /\ given.type[x.of] = "ai"

RowShape(p) == ~row[p].there => \A k \in Kinds : row[p].st[k] = "none"

\* A project that is being created has no row, no job and no other request, and its row
\* is written with the port at which its instance came up.
Creating(x) == x.kind = "own" /\ x.pc # "enqueue"
CreatesAlone(c) ==
    LET x == call[c] IN
    Creating(x) =>
        /\ ~row[x.of].there /\ (\A d \in Calls \ {c} : call[d].of # x.of)
        /\ \A j \in Jobs : j.of # x.of
        /\ x.pc = "insert" /\ x.resume /\ Namesakes(x.of) = {} => Stands("own", x.of, x.port)

\* The instance was torn down, and the row is about to go or the API died before.
Torn(p) == \/ <<"own", p>> \in overlooked
           \/ given.type[p] = "ai" /\ \E c \in Calls : call[c].of = p /\ call[c].pc = "remove"
OwnJob(j, p) ==
    j.pc \in {"grant", "record"} => Stands("own", p, j.port) \/ Torn(p) \/ ~row[p].there
OwnTrue(p) ==
    Namesakes(p) = {} =>
        /\ row[p].st["own"] = "ready" => IsThere("own", p) \/ Torn(p)
        /\ \A j \in Jobs : j.kind = "own" /\ j.of = p => OwnJob(j, p)

RestoredJob(j, p) == j.pc = "record" => Stands("restored", p, j.port)
RestoredTrue(p) ==
    /\ row[p].st["restored"] = "ready" => IsThere("restored", p)
    /\ \A j \in Jobs : j.kind = "restored" /\ j.of = p => RestoredJob(j, p)

\* A connected instance, asked for by one at a time: its row is resumed once it is there,
\* and the job in the queue is the one the row gives the port of.
ConnJob(j, p) ==
    /\ j.port = row[p].port["connected"]
    /\ row[p].st["connected"] # "none"
    /\ j.resume => row[p].hostReady
    /\ j.pc \in {"grant", "mark"} => IsThere("connected", p)
    /\ j.pc \in {"secure", "record"} => row[p].hostReady
ConnCall(x, p) ==
    /\ \A j \in Jobs : j.kind = "connected" => j.of # p
    /\ IF x.resume THEN row[p].hostReady ELSE ~row[p].hostReady
    /\ x.resume \/ x.pc = "enqueue" => x.port = row[p].port["connected"]
    /\ x.pc = "enqueue" => row[p].st["connected"] # "none"
Connects(c, p) == call[c].kind = "connected" /\ call[c].of = p
ConnTrue(p) ==
    row[p].there /\ <<"connected", p>> \notin overtaken =>
        /\ row[p].hostReady => IsThere("connected", p) /\ row[p].st["connected"] # "none"
        /\ row[p].st["connected"] = "ready" => row[p].hostReady
        /\ \A c, d \in Calls : Connects(c, p) /\ Connects(d, p) => c = d
        /\ \A c \in Calls : Connects(c, p) => ConnCall(call[c], p)
        /\ \A j \in Jobs : j.kind = "connected" /\ j.of = p => ConnJob(j, p)

Part(k, p) == CASE k = "own" -> OwnTrue(p)
                [] k = "restored" -> RestoredTrue(p)
                [] k = "connected" -> ConnTrue(p)

TruthInv ==
    /\ \A j \in Jobs : JobShape(j)
    /\ \A n \in DOMAIN queue : queue[n].pc = "waiting"
    /\ \A c \in Calls : CallShape(call[c]) /\ CreatesAlone(c)
    /\ \A p \in Projects : RowShape(p)
    /\ \A k \in Shown, p \in Projects : Part(k, p)

\* A restart of the project's instance is to come or under way, failed or was lost.
Falters(p) ==
    \/ ~row[p].there \/ row[p].st["restart"] \in {"pending", "failed"} \/ <<"restart", p>> \in overlooked
    \/ \E j \in Jobs : j.kind = "restart" /\ j.of = p /\ j.pc # "finish"
Alone(k, p) == k = "own" => Namesakes(p) = {}
Lies(k, p) == Alone(k, p) /\ host[Inst(k, p)].of = p /\ host[Inst(k, p)].st = "down"

\* What a job is building is not there before its script has started it.
Unstarted == At("start") /\ Alone(working.kind, working.of) => host[working.inst].st \in {"none", "half"}

\* A unit is down only where a restart has stopped it, and none of a project that is being created.
StandInv ==
    /\ \A k \in Shown, p \in Projects : Lies(k, p) => Falters(p) /\ Target("restart", p) = Inst(k, p)
    /\ \A c \in Calls : Creating(call[c]) => ~Lies("own", call[c].of)
    /\ Unstarted

-----------------------------------------------------------------------------
(* What leaves a part of that alone.                                        *)

LEMMA JobsAreJobs == ASSUME InstancesType PROVE Jobs \subseteq Job
BY DEF InstancesType, Jobs

LEMMA Apart ==
    ASSUME InstancesType, NEW p \in Projects, NEW q \in Projects, NEW k \in Shown, NEW j \in Shown,
           k # j \/ (p # q /\ (k = "own" => Namesakes(p) = {}))
    PROVE  Inst(k, p) # Inst(j, q)
<1>1. CASE k # j
  <2>1. Inst(k, p)[1] = k /\ Inst(j, q)[1] = j BY DEF Inst
  <2> QED BY <1>1, <2>1
<1>2. CASE k = j /\ p # q
  <2>1. k = "own" => given.name[q] # given.name[p] BY <1>2 DEF Namesakes
  <2>2. Inst(k, p)[2] = IF k = "own" THEN given.name[p] ELSE p BY DEF Inst
  <2>3. Inst(j, q)[2] = IF j = "own" THEN given.name[q] ELSE q BY DEF Inst
  <2> QED BY <1>2, <2>1, <2>2, <2>3
<1> QED BY <1>1, <1>2

\* The instance stays where it is, however its unit is.
Steady(i) ==
    host[i].st \in {"down", "up"} =>
        host'[i].st \in {"down", "up"} /\ host'[i].of = host[i].of /\ host'[i].port = host[i].port

\* What is said of a job.
Claim(j, p) ==
    CASE j.kind = "own" -> Namesakes(p) = {} => OwnJob(j, p)
      [] j.kind = "restored" -> RestoredJob(j, p)
      [] j.kind = "connected" -> row[p].there /\ <<"connected", p>> \notin overtaken => ConnJob(j, p)

\* A step that touches neither the row's columns of the kind, nor the instance, nor a
\* request about it, and of a job makes what is true of it.
LEMMA PartStays ==
    ASSUME TruthInv, NEW k \in Shown, NEW p \in Projects, Part(k, p), given' = given,
           row'[p].there = row[p].there, row'[p].st[k] = row[p].st[k], row'[p].port[k] = row[p].port[k],
           k = "connected" => row'[p].hostReady = row[p].hostReady,
           Alone(k, p) => Steady(Inst(k, p)),
           k = "own" => (Torn(p) => Torn(p)'),
           <<"connected", p>> \in overtaken => <<"connected", p>> \in overtaken',
           k = "connected" => \A c \in Calls : Connects(c, p)' => call'[c] = call[c],
           \A j \in Jobs' : j.kind = k /\ j.of = p =>
               j \in Jobs \/ (Claim(j, p)' /\ \E i \in Jobs : i.kind = k /\ i.of = p)
    PROVE  Part(k, p)'
<1>0. Inst(k, p)' = Inst(k, p) /\ Namesakes(p)' = Namesakes(p) BY DEF Inst, Namesakes
<1>1. CASE k = "own"
  <2>1. OwnTrue(p) BY <1>1 DEF Part
  <2>2. ASSUME Namesakes(p) = {} PROVE Steady(Inst("own", p)) BY <1>1, <2>2 DEF Alone
  <2>3. ASSUME Namesakes(p) = {} PROVE (row[p].st["own"] = "ready" => IsThere("own", p) \/ Torn(p))'
    BY <1>0, <1>1, <2>1, <2>2, <2>3 DEF OwnTrue, IsThere, Stands, Steady
  <2>4. ASSUME Namesakes(p) = {}, NEW j \in Jobs', j.kind = "own", j.of = p PROVE OwnJob(j, p)'
    <3>1. CASE j \in Jobs BY <1>0, <1>1, <2>1, <2>2, <2>4, <3>1 DEF OwnTrue, OwnJob, Stands, Steady
    <3>2. CASE Claim(j, p)' BY <1>0, <2>4, <3>2 DEF Claim
    <3> QED BY <1>1, <2>4, <3>1, <3>2
  <2>5. OwnTrue(p)' BY <1>0, <2>3, <2>4 DEF OwnTrue
  <2> QED BY <1>1, <2>5 DEF Part
<1>2. CASE k = "restored"
  <2>1. RestoredTrue(p) /\ Steady(Inst("restored", p)) BY <1>2 DEF Part, Alone
  <2>2. (row[p].st["restored"] = "ready" => IsThere("restored", p))'
    BY <1>0, <1>2, <2>1 DEF RestoredTrue, IsThere, Stands, Steady
  <2>3. ASSUME NEW j \in Jobs', j.kind = "restored", j.of = p PROVE RestoredJob(j, p)'
    <3>1. CASE j \in Jobs BY <1>0, <1>2, <2>1, <2>3, <3>1 DEF RestoredTrue, RestoredJob, Stands, Steady
    <3>2. CASE Claim(j, p)' BY <2>3, <3>2 DEF Claim
    <3> QED BY <1>2, <2>3, <3>1, <3>2
  <2>4. RestoredTrue(p)' BY <2>2, <2>3 DEF RestoredTrue
  <2> QED BY <1>2, <2>4 DEF Part
<1>3. CASE k = "connected"
  <2> SUFFICES ASSUME row'[p].there, <<"connected", p>> \notin overtaken' PROVE ConnTrue(p)'
    BY <1>3 DEF Part, ConnTrue
  <2>1. ConnTrue(p) /\ row[p].there /\ <<"connected", p>> \notin overtaken BY <1>3 DEF Part
  <2>2. IsThere("connected", p) => IsThere("connected", p)' BY <1>0, <1>3 DEF IsThere, Stands, Steady, Alone
  <2>3. \A c \in Calls : Connects(c, p)' => Connects(c, p) /\ call'[c] = call[c] BY <1>3 DEF Connects
  <2>4. ASSUME NEW c \in Calls, Connects(c, p)' PROVE ConnCall(call[c], p)'
    <3>1. ConnCall(call[c], p) BY <2>1, <2>3, <2>4 DEF ConnTrue
    <3>2. \A j \in Jobs' : j.kind = "connected" => j.of # p BY <1>3, <3>1 DEF ConnCall
    <3> QED BY <1>3, <2>3, <2>4, <3>1, <3>2 DEF ConnCall
  <2>5. ASSUME NEW j \in Jobs', j.kind = "connected", j.of = p PROVE ConnJob(j, p)'
    <3>1. CASE j \in Jobs
      <4>1. ConnJob(j, p) BY <2>1, <2>5, <3>1 DEF ConnTrue
      <4> QED BY <1>3, <2>2, <4>1 DEF ConnJob
    <3>2. CASE Claim(j, p)' BY <2>5, <3>2 DEF Claim
    <3> QED BY <1>3, <2>5, <3>1, <3>2
  <2>6. (row[p].hostReady => IsThere("connected", p) /\ row[p].st["connected"] # "none")'
    BY <1>3, <2>1, <2>2 DEF ConnTrue
  <2>7. (row[p].st["connected"] = "ready" => row[p].hostReady)' BY <1>3, <2>1 DEF ConnTrue
  <2>8. (\A c, d \in Calls : Connects(c, p) /\ Connects(d, p) => c = d)' BY <2>1, <2>3 DEF ConnTrue
  <2> QED BY <2>4, <2>5, <2>6, <2>7, <2>8 DEF ConnTrue
<1> QED BY <1>1, <1>2, <1>3 DEF Shown

\* A project that goes on being created.
LEMMA CreationStays ==
    ASSUME TruthInv, NEW c \in Calls, given' = given, call'[c] = call[c], call[c].of \in Projects,
           ~row[call[c].of].there => ~row'[call[c].of].there,
           Creating(call[c]) =>
             /\ \A d \in Calls \ {c} : call'[d].of = call[c].of => call[d].of = call[c].of
             /\ \A j \in Jobs' : j.of = call[c].of => \E i \in Jobs : i.of = call[c].of
             /\ Namesakes(call[c].of) = {} => Steady(Inst("own", call[c].of))
    PROVE  CreatesAlone(c)'
<1>1. CreatesAlone(c) BY DEF TruthInv
<1>2. Inst("own", call[c].of)' = Inst("own", call[c].of) /\ Namesakes(call[c].of)' = Namesakes(call[c].of)
  BY DEF Inst, Namesakes
<1> QED BY <1>1, <1>2 DEF CreatesAlone, Creating, Stands, Steady

\* A step of the job w: it is about its kind, project and instance alone.
LEMMA JobMoves ==
    ASSUME InstInv, TruthInv, NEW w \in Jobs,
           UNCHANGED <<given, call, overtaken>>, overlooked \subseteq overlooked',
           \A j \in Jobs' : j \in Jobs \/ (j.kind = w.kind /\ j.of = w.of /\ JobShape(j)),
           \A n \in DOMAIN queue' : queue'[n].pc = "waiting",
           \A q \in Projects \ {w.of} : row'[q] = row[q],
           row'[w.of].there = row[w.of].there, RowShape(w.of)',
           \A k \in Shown \ {w.kind} : row'[w.of].st[k] = row[w.of].st[k] /\ row'[w.of].port[k] = row[w.of].port[k],
           w.kind # "connected" => row'[w.of].hostReady = row[w.of].hostReady,
           \A i \in Insts : Steady(i) \/ (i = w.inst /\ w.kind \in Shown),
           w.kind \in Shown => Part(w.kind, w.of)'
    PROVE  TruthInv'
<1>0. InstancesType /\ Jobs \subseteq Job BY JobsAreJobs DEF InstInv
<1>1. w \in Job /\ w.of \in Projects /\ w.kind \in Kinds /\ JobShape(w) BY <1>0 DEF Job, TruthInv
<1>2. w.kind = "restart" \/ (w.kind \in Shown /\ w.inst = Inst(w.kind, w.of))
  <2>1. w.kind # "restart" => w.kind \in Shown BY <1>1 DEF Kinds, Shown
  <2>2. ASSUME w.kind # "restart" PROVE Target(w.kind, w.of) = Inst(w.kind, w.of) BY <2>2 DEF Target
  <2> QED BY <1>1, <2>1, <2>2 DEF JobShape
<1>3. ASSUME NEW j \in Jobs' PROVE JobShape(j)' BY DEF TruthInv, JobShape, Target, Inst
<1>4. ASSUME NEW k \in Shown, NEW p \in Projects, <<k, p>> # <<w.kind, w.of>>, Alone(k, p)
      PROVE  Steady(Inst(k, p))
  <2>1. Inst(k, p) \in Insts BY <1>0, NamesOfInstances DEF Shown
  <2>2. CASE w.kind = "restart" BY <2>1, <2>2 DEF Shown
  <2>3. CASE w.kind \in Shown /\ w.inst = Inst(w.kind, w.of)
    <3>1. k # w.kind \/ p # w.of BY <1>4
    <3>2. k = "own" => Namesakes(p) = {} BY <1>4 DEF Alone
    <3>3. Inst(k, p) # w.inst BY <1>0, <1>1, <2>3, <3>1, <3>2, Apart
    <3> QED BY <2>1, <3>3
  <2> QED BY <1>2, <2>2, <2>3
<1>5. ASSUME NEW c \in Calls PROVE CallShape(call[c])' BY DEF TruthInv, CallShape
<1>6. ASSUME NEW c \in Calls PROVE CreatesAlone(c)'
  <2> DEFINE p == call[c].of
  <2> SUFFICES ASSUME Creating(call[c]) PROVE CreatesAlone(c)' BY DEF CreatesAlone
  <2>1. p \in Projects
    <3>1. call[c].pc # "idle" BY DEF Creating, TruthInv, CallShape, Free
    <3> QED BY <3>1 DEF InstInv, CallInv
  <2>2. CreatesAlone(c) BY DEF TruthInv
  <2>3. p # w.of BY <2>2 DEF CreatesAlone
  <2>4. \A j \in Jobs' : j.of = p => \E i \in Jobs : i.of = p BY <2>3
  <2>5. Namesakes(p) = {} => Steady(Inst("own", p)) BY <1>4, <2>1, <2>3 DEF Shown, Alone
  <2>6. row'[p] = row[p] BY <2>1, <2>3
  <2> QED BY <2>1, <2>4, <2>5, <2>6, CreationStays
<1>7. ASSUME NEW p \in Projects PROVE RowShape(p)'
  <2>1. CASE p = w.of BY <2>1
  <2>2. CASE p # w.of BY <2>2 DEF TruthInv, RowShape
  <2> QED BY <2>1, <2>2
<1>8. ASSUME NEW k \in Shown, NEW p \in Projects PROVE Part(k, p)'
  <2>1. CASE <<k, p>> = <<w.kind, w.of>> BY <2>1
  <2>2. CASE <<k, p>> # <<w.kind, w.of>>
    <3>1. Part(k, p) BY DEF TruthInv
    <3>2. Alone(k, p) => Steady(Inst(k, p)) BY <1>4, <2>2
    <3>3. /\ row'[p].there = row[p].there /\ row'[p].st[k] = row[p].st[k] /\ row'[p].port[k] = row[p].port[k]
          /\ k = "connected" => row'[p].hostReady = row[p].hostReady
      <4>1. CASE p = w.of BY <2>2, <4>1
      <4>2. CASE p # w.of BY <4>2
      <4> QED BY <4>1, <4>2
    <3>4. Torn(p) => Torn(p)' BY DEF Torn
    <3>5. \A j \in Jobs' : j.kind = k /\ j.of = p => j \in Jobs BY <2>2
    <3> QED BY <3>1, <3>2, <3>3, <3>4, <3>5, PartStays
  <2> QED BY <2>1, <2>2
<1> QED BY <1>3, <1>5, <1>6, <1>7, <1>8 DEF TruthInv

\* A step of a request about the project q.
LEMMA RequestMoves ==
    ASSUME InstInv, TruthInv, NEW c \in Calls, NEW q \in Projects, given' = given,
           \A d \in Calls \ {c} : call'[d] = call[d] /\ (call[d].of = q => ~Creating(call[d])),
           call[c].of \in {q, NoProject}, call'[c].of \in {q, NoProject},
           CallShape(call[c])', CreatesAlone(c)',
           \A p \in Projects \ {q} : <<"own", p>> \in overlooked => <<"own", p>> \in overlooked',
           overtaken \subseteq overtaken',
           \A j \in Jobs' : j \in Jobs \/ (j.of = q /\ JobShape(j)),
           \A n \in DOMAIN queue' : queue'[n].pc = "waiting",
           \A p \in Projects \ {q} : row'[p] = row[p], RowShape(q)',
           \A i \in Insts \ {Inst("own", q)} : Steady(i),
           \A k \in Shown : Part(k, q)'
    PROVE  TruthInv'
<1>0. InstancesType BY DEF InstInv
<1>1. ASSUME NEW j \in Jobs' PROVE JobShape(j)' BY DEF TruthInv, JobShape, Target, Inst
<1>2. ASSUME NEW k \in Shown, NEW p \in Projects \ {q}, Alone(k, p) PROVE Steady(Inst(k, p))
  <2>1. Inst(k, p) \in Insts BY <1>0, NamesOfInstances DEF Shown
  <2>2. Inst(k, p) # Inst("own", q)
    <3>1. "own" \in Shown /\ (k = "own" => Namesakes(p) = {}) BY <1>2 DEF Shown, Alone
    <3> QED BY <1>0, <1>2, <3>1, Apart
  <2> QED BY <2>1, <2>2
<1>3. ASSUME NEW d \in Calls PROVE CallShape(call[d])'
  <2>1. CASE d = c BY <2>1
  <2>2. CASE d # c BY <2>2 DEF TruthInv, CallShape
  <2> QED BY <2>1, <2>2
<1>4. ASSUME NEW d \in Calls PROVE CreatesAlone(d)'
  <2>1. CASE d = c BY <2>1
  <2>2. CASE d # c
    <3> DEFINE p == call[d].of
    <3> SUFFICES ASSUME Creating(call[d]) PROVE CreatesAlone(d)' BY <2>2 DEF CreatesAlone
    <3>1. p \in Projects
      <4>1. call[d].pc # "idle" BY DEF Creating, TruthInv, CallShape, Free
      <4> QED BY <4>1 DEF InstInv, CallInv
    <3>2. p # q BY <2>2
    <3>3. p # NoProject BY <3>1, InstancesAssumption
    <3>4. \A e \in Calls \ {d} : call'[e].of = p => call[e].of = p BY <3>2, <3>3
    <3>5. Namesakes(p) = {} => Steady(Inst("own", p)) BY <1>2, <3>1, <3>2 DEF Shown, Alone
    <3> QED BY <2>2, <3>1, <3>2, <3>4, <3>5, CreationStays
  <2> QED BY <2>1, <2>2
<1>5. ASSUME NEW p \in Projects PROVE RowShape(p)'
  <2>1. CASE p = q BY <2>1
  <2>2. CASE p # q BY <2>2 DEF TruthInv, RowShape
  <2> QED BY <2>1, <2>2
<1>6. ASSUME NEW k \in Shown, NEW p \in Projects PROVE Part(k, p)'
  <2>1. CASE p = q BY <2>1
  <2>2. CASE p # q
    <3>1. Part(k, p) BY DEF TruthInv
    <3>2. Alone(k, p) => Steady(Inst(k, p)) BY <1>2, <2>2
    <3>3. p # NoProject BY InstancesAssumption
    <3>4. Torn(p) => Torn(p)'
      <4>1. \A d \in Calls : call[d].of = p => call'[d] = call[d] BY <2>2, <3>3
      <4> QED BY <2>2, <4>1 DEF Torn
    <3>5. \A j \in Jobs' : j.kind = k /\ j.of = p => j \in Jobs BY <2>2
    <3>6. \A d \in Calls : Connects(d, p)' => call'[d] = call[d] BY <2>2, <3>3 DEF Connects
    <3>7. row'[p] = row[p] BY <2>2
    <3>8. <<"connected", p>> \in overtaken => <<"connected", p>> \in overtaken' OBVIOUS
    <3> QED BY <3>1, <3>2, <3>4, <3>5, <3>6, <3>7, <3>8, PartStays
  <2> QED BY <2>1, <2>2
<1> QED BY <1>1, <1>3, <1>4, <1>5, <1>6 DEF TruthInv

-----------------------------------------------------------------------------
(* Steps of the worker.                                                     *)

\* Only the job that is carried out is anywhere but waiting.
LEMMA OthersWait ==
    ASSUME TruthInv, NEW j \in Jobs, j.pc # "waiting" PROVE working # NoJob /\ j = working
BY DEF TruthInv, Jobs

LEMMA WorkerMoves ==
    ASSUME InstInv, TruthInv, working # NoJob, SameOtherwise,
           NEW k \in Kinds, NEW p \in Projects, working.kind = k, working.of = p,
           working'.kind = k, working'.of = p, JobShape(working'),
           \A q \in Projects \ {p} : row'[q] = row[q], row'[p].there = row[p].there, RowShape(p)',
           \A j \in Shown \ {k} : row'[p].st[j] = row[p].st[j] /\ row'[p].port[j] = row[p].port[j],
           k # "connected" => row'[p].hostReady = row[p].hostReady,
           \A i \in Insts : Steady(i) \/ (i = working.inst /\ k \in Shown),
           k \in Shown => Part(k, p)'
    PROVE  TruthInv'
<1>1. working \in Jobs BY DEF Jobs
<1>2. \A j \in Jobs' : j \in Jobs \/ j = working' BY DEF Jobs, SameOtherwise
<1>3. \A n \in DOMAIN queue' : queue'[n].pc = "waiting" BY DEF SameOtherwise, TruthInv
<1>4. UNCHANGED <<given, call, overtaken>> /\ overlooked \subseteq overlooked' BY DEF SameOtherwise
<1> PICK w \in Jobs : w = working BY <1>1
<1> QED BY <1>2, <1>3, <1>4, JobMoves

\* A status is written and nothing else.
LEMMA StatusAlone ==
    ASSUME row \in [Projects -> Row], NEW k \in Kinds, NEW p \in Projects, NEW s \in Statuses, SetStatus(k, p, s)
    PROVE  /\ \A q \in Projects \ {p} : row'[q] = row[q]
           /\ row'[p].there = row[p].there /\ row'[p].port = row[p].port /\ row'[p].hostReady = row[p].hostReady
           /\ \A j \in Kinds : row'[p].st[j] = IF j = k /\ row[p].there THEN s ELSE row[p].st[j]
<1> DEFINE v == IF row[p].there THEN s ELSE row[p].st[k]
           f == [row[p].st EXCEPT ![k] = v]
           r == [row[p] EXCEPT !.st = f]
<1>1. row[p] \in Row /\ row[p].st \in [Kinds -> Statuses] BY DEF Row
<1>2. f[k] = v /\ \A j \in Kinds \ {k} : f[j] = row[p].st[j] BY <1>1
<1>3. row' = [row EXCEPT ![p] = r] BY DEF SetStatus
<1> HIDE DEF f
<1>4. r.there = row[p].there /\ r.st = f /\ r.port = row[p].port /\ r.hostReady = row[p].hostReady BY <1>1 DEF Row
<1> HIDE DEF r
<1>5. row'[p] = r /\ \A q \in Projects \ {p} : row'[q] = row[q] BY <1>3
<1> QED BY <1>2, <1>4, <1>5

LEMMA WorkingShape ==
    ASSUME InstInv, TruthInv, working # NoJob
    PROVE  /\ working \in Job /\ working \in Jobs /\ JobShape(working)
           /\ working.kind \in Kinds /\ working.of \in Projects /\ working.inst \in Insts
<1>1. working \in Job /\ working \in Jobs BY DEF InstInv, InstancesType, Jobs
<1>2. JobShape(working) BY <1>1 DEF TruthInv
<1> QED BY <1>1, <1>2 DEF Job

LEMMA StillSteady == ASSUME NEW i \in Insts, host'[i] = host[i] PROVE Steady(i)
BY DEF Steady

\* A step that leaves the rows alone: what is true of the jobs is said of them.
LEMMA JobAdvances ==
    ASSUME InstInv, TruthInv, NEW w \in Jobs, NEW next,
           UNCHANGED <<given, row, call, overtaken>>, overlooked \subseteq overlooked',
           \A j \in Jobs' : j \in Jobs \/ j = next,
           next.kind = w.kind, next.of = w.of, JobShape(next),
           \A n \in DOMAIN queue' : queue'[n].pc = "waiting",
           \A i \in Insts : Steady(i),
           w.kind \in Shown => Claim(next, w.of)'
    PROVE  TruthInv'
<1>1. w \in Job /\ w.of \in Projects BY JobsAreJobs DEF InstInv, Job
<1>2. RowShape(w.of)' BY <1>1 DEF TruthInv, RowShape
<1>3. ASSUME w.kind \in Shown PROVE Part(w.kind, w.of)'
  <2>1. Part(w.kind, w.of) /\ Inst(w.kind, w.of) \in Insts
    BY <1>1, <1>3, NamesOfInstances DEF TruthInv, InstInv, Shown
  <2>2. Torn(w.of) => Torn(w.of)' BY DEF Torn
  <2>3. \A j \in Jobs' : j.kind = w.kind /\ j.of = w.of => j \in Jobs \/ Claim(j, w.of)' BY <1>3
  <2> PICK p \in Projects, k \in Shown : p = w.of /\ k = w.kind BY <1>1, <1>3
  <2>4. \E i \in Jobs : i.kind = k /\ i.of = p OBVIOUS
  <2>5. \A j \in Jobs' : j.kind = k /\ j.of = p =>
            j \in Jobs \/ (Claim(j, p)' /\ \E i \in Jobs : i.kind = k /\ i.of = p)
    BY <2>3, <2>4
  <2>6. Part(k, p)' BY <2>1, <2>2, <2>5, PartStays
  <2> QED BY <2>6
<1> QED BY <1>1, <1>2, <1>3, JobMoves

LEMMA WorkerAdvances ==
    ASSUME InstInv, TruthInv, working # NoJob, SameOtherwise, UNCHANGED row,
           working'.kind = working.kind, working'.of = working.of, JobShape(working'),
           \A i \in Insts : Steady(i),
           NEW p \in Projects, p = working.of, NEW next, next = working',
           working.kind \in Shown => Claim(next, p)'
    PROVE  TruthInv'
<1>1. working \in Jobs BY DEF Jobs
<1>2. \A j \in Jobs' : j \in Jobs \/ j = next BY DEF Jobs, SameOtherwise
<1>3. \A n \in DOMAIN queue' : queue'[n].pc = "waiting" BY DEF SameOtherwise, TruthInv
<1>4. UNCHANGED <<given, call, overtaken>> /\ overlooked \subseteq overlooked' BY DEF SameOtherwise
<1> PICK w \in Jobs : w = working BY <1>1
<1> QED BY <1>2, <1>3, <1>4, JobAdvances

\* The row of a connected instance is written on by its job, while no request is about it.
LEMMA ConnGoesOn ==
    ASSUME InstInv, TruthInv, working # NoJob, SameOtherwise, NEW p \in Projects,
           working.kind = "connected", working.of = p,
           row[p].there, <<"connected", p>> \notin overtaken,
           working'.resume = working.resume, working'.port = working.port,
           Steady(Inst("connected", p)), row'[p].port["connected"] = row[p].port["connected"],
           row[p].hostReady => row'[p].hostReady, row'[p].hostReady => IsThere("connected", p),
           row'[p].st["connected"] = "ready" => row'[p].hostReady, row'[p].st["connected"] # "none",
           working'.pc \notin {"grant", "mark"}, working'.pc \in {"secure", "record"} => row'[p].hostReady
    PROVE  ConnTrue(p)'
<1>1. working \in Jobs /\ ConnTrue(p) BY DEF Jobs, TruthInv, Part, Shown
<1>2. ConnJob(working, p) BY <1>1 DEF ConnTrue
<1>3. given' = given /\ call' = call /\ overtaken' = overtaken BY DEF SameOtherwise
<1>4. Inst("connected", p)' = Inst("connected", p) BY <1>3 DEF Inst
<1>5. IsThere("connected", p) => IsThere("connected", p)' BY <1>4 DEF IsThere, Stands, Steady
<1> PICK next : next = working' OBVIOUS
<1>6. \A j \in Jobs' : j = next \/ (j \in Jobs /\ j.pc = "waiting") BY DEF Jobs, SameOtherwise, TruthInv
<1>7. \A c \in Calls : ~Connects(c, p)' BY <1>1, <1>3 DEF Connects, ConnTrue, ConnCall
<1>8. ASSUME NEW j \in Jobs', j.kind = "connected", j.of = p PROVE ConnJob(j, p)'
  <2>1. CASE j = next BY <1>2, <2>1 DEF ConnJob
  <2>2. CASE j \in Jobs /\ j.pc = "waiting"
    <3>1. ConnJob(j, p) BY <1>1, <1>8, <2>2 DEF ConnTrue
    <3> QED BY <2>2, <3>1 DEF ConnJob
  <2> QED BY <1>6, <2>1, <2>2
<1> QED BY <1>5, <1>7, <1>8 DEF ConnTrue

\* The outcome of a job that failed.
LEMMA JobFails ==
    ASSUME InstInv, TruthInv, working # NoJob, Outcome("failed"), SameOtherwise,
           NEW k \in Kinds, NEW p \in Projects, working.kind = k, working.of = p,
           \A i \in Insts : Steady(i) \/ (i = working.inst /\ k = "own" /\ Namesakes(p) # {})
    PROVE  TruthInv'
<1>0. /\ working \in Job /\ working \in Jobs /\ JobShape(working)
      /\ row \in [Projects -> Row]
  BY WorkingShape DEF InstInv, InstancesType
<1>1. SetStatus(k, p, "failed") /\ Then("finish") BY DEF Outcome
<1>2. /\ \A q \in Projects \ {p} : row'[q] = row[q]
      /\ row'[p].there = row[p].there /\ row'[p].port = row[p].port /\ row'[p].hostReady = row[p].hostReady
      /\ \A j \in Kinds : row'[p].st[j] = IF j = k /\ row[p].there THEN "failed" ELSE row[p].st[j]
  BY <1>0, <1>1, StatusAlone DEF Statuses
<1>3. /\ working'.kind = k /\ working'.of = p /\ working'.pc = "finish" /\ working'.resume = working.resume
      /\ working'.inst = working.inst /\ working'.port = working.port
  BY <1>0, <1>1 DEF Then, Job
<1>4. JobShape(working') BY <1>0, <1>3 DEF JobShape
<1>5. RowShape(p)' BY <1>0, <1>2 DEF RowShape, TruthInv
<1>6. \A j \in Jobs' : j = working' \/ (j \in Jobs /\ j.pc = "waiting") BY DEF Jobs, SameOtherwise, TruthInv
<1>7. row'[p].st[k] # "ready" BY <1>0, <1>2 DEF TruthInv, RowShape
<1>8. k = "own" => OwnTrue(p)' BY <1>3, <1>6, <1>7 DEF OwnTrue, OwnJob
<1>9. k = "restored" => RestoredTrue(p)' BY <1>3, <1>6, <1>7 DEF RestoredTrue, RestoredJob
<1>10. ASSUME k = "connected" PROVE ConnTrue(p)'
  <2> SUFFICES ASSUME row[p].there, <<"connected", p>> \notin overtaken PROVE ConnTrue(p)'
    BY <1>2 DEF ConnTrue, SameOtherwise
  <2>1. ConnTrue(p) BY <1>10 DEF TruthInv, Part, Shown
  <2>2. Inst("connected", p) \in Insts BY NamesOfInstances DEF InstInv
  <2>3. Steady(Inst("connected", p)) BY <1>10, <2>2
  <2>4. row'[p].hostReady => IsThere("connected", p) BY <1>2, <2>1 DEF ConnTrue
  <2>5. row'[p].st["connected"] = "failed" BY <1>2, <1>10
  <2> QED BY <1>2, <1>3, <1>10, <2>3, <2>4, <2>5, ConnGoesOn
<1>11. k \in Shown => Part(k, p)' BY <1>8, <1>9, <1>10 DEF Part, Shown
<1>12. \A i \in Insts : Steady(i) \/ (i = working.inst /\ k \in Shown) BY DEF Shown
<1> QED BY <1>0, <1>2, <1>3, <1>4, <1>5, <1>11, <1>12, WorkerMoves DEF Shown, Kinds

LEMMA AllocateInJobTells == ASSUME InstInv, TruthInv, AllocateInJob PROVE TruthInv'
<1>1. working # NoJob /\ working.pc = "allocate" /\ SameOtherwise /\ host' = host BY DEF AllocateInJob, At
<1>2. working \in Job /\ JobShape(working) /\ working.kind = "restored" /\ working.of \in Projects
  BY <1>1, WorkingShape DEF JobShape
<1> PICK p \in Projects : p = working.of BY <1>2
<1>3. \A i \in Insts : Steady(i) BY <1>1, StillSteady
<1>4. CASE Outcome("failed") BY <1>1, <1>2, <1>3, <1>4, JobFails DEF Kinds
<1>5. CASE (\E n \in Allocated("restored") : working' = [working EXCEPT !.port = n, !.pc = "build"]) /\ UNCHANGED row
  <2>1. /\ working'.kind = "restored" /\ working'.of = p /\ working'.pc = "build"
        /\ working'.inst = working.inst /\ working'.resume = working.resume
    BY <1>2, <1>5 DEF Job
  <2>2. JobShape(working') BY <1>2, <2>1 DEF JobShape
  <2> PICK next : next = working' OBVIOUS
  <2>3. Claim(next, p)' BY <2>1 DEF Claim, RestoredJob
  <2> QED BY <1>1, <1>2, <1>3, <1>5, <2>1, <2>2, <2>3, WorkerAdvances
<1> QED BY <1>4, <1>5 DEF AllocateInJob

\* The script refuses, or begins where there is nothing.
LEMMA BuildTells == ASSUME InstInv, TruthInv, Build PROVE TruthInv'
<1>1. working # NoJob /\ working.pc = "build" /\ SameOtherwise BY DEF Build, At
<1>2. /\ working \in Job /\ working \in Jobs /\ JobShape(working) /\ working.kind \in Kinds
      /\ working.of \in Projects /\ working.inst \in Insts /\ host \in [Insts -> Instance]
  BY <1>1, WorkingShape DEF InstInv, InstancesType
<1> PICK p \in Projects, k \in Kinds : p = working.of /\ k = working.kind BY <1>2
<1>3. k \in Shown BY <1>1, <1>2 DEF JobShape, Kinds, Shown
<1>4. CASE /\ ~Refuses(working.inst, working.port) /\ Builds(working.inst, working.port, working.of)
           /\ Then("start") /\ UNCHANGED row
  <2>1. /\ working'.kind = k /\ working'.of = p /\ working'.inst = working.inst /\ working'.pc = "start"
        /\ working'.resume = working.resume /\ working'.port = working.port
    BY <1>2, <1>4 DEF Then, Job
  <2>2. JobShape(working') BY <1>2, <1>3, <2>1 DEF JobShape, Shown
  <2>3. ASSUME NEW i \in Insts PROVE Steady(i)
    <3>1. CASE i = working.inst BY <1>4, <3>1 DEF Refuses, Steady
    <3>2. CASE i # working.inst BY <1>2, <1>4, <3>2 DEF Builds, Steady
    <3> QED BY <3>1, <3>2
  <2> PICK next : next = working' OBVIOUS
  <2>4. Part(k, p) BY <1>3 DEF TruthInv
  <2>5. Claim(next, p)'
    <3>1. CASE k = "own" BY <2>1, <3>1 DEF Claim, OwnJob
    <3>2. CASE k = "restored" BY <2>1, <3>2 DEF Claim, RestoredJob
    <3>3. CASE k = "connected"
      <4>1. row[p].there /\ <<"connected", p>> \notin overtaken => ConnJob(working, p)
        BY <1>2, <2>4, <3>3 DEF Part, ConnTrue
      <4>2. (row[p].there /\ <<"connected", p>> \notin overtaken)' => ConnJob(next, p)'
        BY <1>1, <1>4, <2>1, <4>1 DEF ConnJob, SameOtherwise
      <4> QED BY <2>1, <3>3, <4>2 DEF Claim
    <3> QED BY <1>3, <3>1, <3>2, <3>3 DEF Shown
  <2> QED BY <1>1, <1>4, <2>1, <2>2, <2>3, <2>5, WorkerAdvances
<1>5. CASE Outcome("failed") /\ UNCHANGED host
  <2>1. \A i \in Insts : Steady(i) BY <1>5, StillSteady
  <2> QED BY <1>1, <1>5, <2>1, JobFails
<1> QED BY <1>4, <1>5 DEF Build

\* It starts what it has built, at the job's port; or what it removes was not there yet.
LEMMA StartTells == ASSUME InstInv, TruthInv, StandInv, Start PROVE TruthInv'
<1>1. working # NoJob /\ working.pc = "start" /\ SameOtherwise BY DEF Start, At
<1>2. /\ working \in Job /\ working \in Jobs /\ JobShape(working) /\ working.kind \in Kinds
      /\ working.of \in Projects /\ working.inst \in Insts /\ host \in [Insts -> Instance]
  BY <1>1, WorkingShape DEF InstInv, InstancesType
<1> PICK p \in Projects, k \in Kinds : p = working.of /\ k = working.kind BY <1>2
<1>3. k \in Shown /\ working.inst = Inst(k, p) BY <1>1, <1>2 DEF JobShape, Kinds, Shown, Target
<1>4. CASE /\ Starts(working.inst, working.port, working.of)
           /\ Then(IF working.kind = "restored" THEN "record" ELSE "grant")
           /\ UNCHANGED <<row, left>>
  <2>1. /\ working'.kind = k /\ working'.of = p /\ working'.inst = working.inst
        /\ working'.pc = IF k = "restored" THEN "record" ELSE "grant"
        /\ working'.resume = working.resume /\ working'.port = working.port
    BY <1>2, <1>4 DEF Then, Job
  <2>2. JobShape(working') BY <1>2, <1>3, <2>1 DEF JobShape, Shown
  <2>3. ASSUME NEW i \in Insts PROVE Steady(i)
    <3>1. CASE i = working.inst BY <1>4, <3>1 DEF Starts, Half, Steady
    <3>2. CASE i # working.inst BY <1>2, <1>4, <3>2 DEF Starts, Steady
    <3> QED BY <3>1, <3>2
  <2> PICK next : next = working' OBVIOUS
  <2>4. Part(k, p) /\ Inst(k, p)' = Inst(k, p) BY <1>1, <1>3 DEF TruthInv, Inst, SameOtherwise
  <2>5. Stands(k, p, next.port)' BY <1>2, <1>3, <1>4, <2>1, <2>4 DEF Starts, Up, Stands
  <2>6. Claim(next, p)'
    <3>1. CASE k = "own" BY <2>1, <2>5, <3>1 DEF Claim, OwnJob
    <3>2. CASE k = "restored" BY <2>1, <2>5, <3>2 DEF Claim, RestoredJob
    <3>3. CASE k = "connected"
      <4>1. row[p].there /\ <<"connected", p>> \notin overtaken => ConnJob(working, p)
        BY <1>2, <2>4, <3>3 DEF Part, ConnTrue
      <4>2. (row[p].there /\ <<"connected", p>> \notin overtaken)' => ConnJob(next, p)'
        BY <1>1, <1>4, <2>1, <2>5, <3>3, <4>1 DEF ConnJob, SameOtherwise, IsThere
      <4> QED BY <2>1, <3>3, <4>2 DEF Claim
    <3> QED BY <1>3, <3>1, <3>2, <3>3 DEF Shown
  <2> QED BY <1>1, <1>4, <2>1, <2>2, <2>3, <2>6, WorkerAdvances
<1>5. CASE CleansUp(working.inst) /\ Outcome("failed")
  <2>1. ASSUME NEW i \in Insts PROVE Steady(i) \/ (i = working.inst /\ k = "own" /\ Namesakes(p) # {})
    <3>1. CASE i # working.inst BY <1>2, <1>5, <3>1 DEF CleansUp, Steady
    <3>2. CASE Alone(k, p)
      <4>1. host[working.inst].st \in {"none", "half"} BY <1>1, <3>2 DEF StandInv, Unstarted, At
      <4> QED BY <3>1, <4>1 DEF Steady
    <3> QED BY <3>1, <3>2 DEF Alone
  <2> QED BY <1>1, <1>5, <2>1, JobFails
<1>6. CASE Outcome("failed") /\ UNCHANGED host
  <2>1. \A i \in Insts : Steady(i) BY <1>6, StillSteady
  <2> QED BY <1>1, <1>6, <2>1, JobFails
<1> QED BY <1>4, <1>5, <1>6 DEF Start

LEMMA GrantTells == ASSUME InstInv, TruthInv, Grant PROVE TruthInv'
<1>1. working # NoJob /\ working.pc = "grant" /\ SameOtherwise /\ host' = host BY DEF Grant, At
<1>2. /\ working \in Job /\ working \in Jobs /\ JobShape(working) /\ working.kind \in {"own", "connected"}
      /\ working.of \in Projects
  BY <1>1, WorkingShape DEF JobShape
<1> PICK p \in Projects, k \in {"own", "connected"} : p = working.of /\ k = working.kind BY <1>2
<1>3. Part(k, p) /\ Inst(k, p)' = Inst(k, p) BY <1>1 DEF TruthInv, Shown, SameOtherwise, Inst
<1>4. \A i \in Insts : Steady(i) BY <1>1, StillSteady
<1>5. CASE Then(IF working.kind = "own" THEN "record" ELSE "mark") /\ UNCHANGED row
  <2>1. /\ working'.kind = k /\ working'.of = p /\ working'.inst = working.inst /\ working'.resume = working.resume
        /\ working'.port = working.port /\ working'.pc = IF k = "own" THEN "record" ELSE "mark"
    BY <1>2, <1>5 DEF Then, Job
  <2>2. JobShape(working') BY <1>2, <2>1 DEF JobShape
  <2> PICK next : next = working' OBVIOUS
  <2>3. Claim(next, p)'
    <3>1. CASE k = "own"
      <4>1. Namesakes(p)' = Namesakes(p) /\ (Torn(p) => Torn(p)') BY <1>1 DEF Namesakes, Torn, SameOtherwise
      <4>2. Namesakes(p) = {} => OwnJob(working, p) BY <1>2, <1>3, <3>1 DEF Part, OwnTrue
      <4>3. Namesakes(p) = {} => OwnJob(next, p)'
        BY <1>1, <1>3, <1>5, <2>1, <3>1, <4>1, <4>2 DEF OwnJob, Stands
      <4> QED BY <2>1, <3>1, <4>1, <4>3 DEF Claim
    <3>2. CASE k = "connected"
      <4>1. row[p].there /\ <<"connected", p>> \notin overtaken => ConnJob(working, p)
        BY <1>2, <1>3, <3>2 DEF Part, ConnTrue
      <4>2. (row[p].there /\ <<"connected", p>> \notin overtaken)' => ConnJob(next, p)'
        BY <1>1, <1>3, <1>5, <2>1, <3>2, <4>1 DEF ConnJob, SameOtherwise, IsThere, Stands
      <4> QED BY <2>1, <3>2, <4>2 DEF Claim
    <3> QED BY <3>1, <3>2
  <2> QED BY <1>1, <1>4, <1>5, <2>1, <2>2, <2>3, WorkerAdvances
<1>6. CASE Outcome("failed") BY <1>1, <1>4, <1>6, JobFails DEF Kinds
<1> QED BY <1>5, <1>6 DEF Grant

LEMMA MarkHostReadyTells == ASSUME InstInv, TruthInv, MarkHostReady PROVE TruthInv'
<1>1. /\ working # NoJob /\ working.pc = "mark" /\ SameOtherwise /\ host' = host /\ Then("secure")
      /\ row' = [row EXCEPT ![working.of].hostReady = row[working.of].there]
  BY DEF MarkHostReady, At
<1>2. /\ working \in Job /\ working \in Jobs /\ JobShape(working) /\ working.kind = "connected"
      /\ working.of \in Projects /\ row \in [Projects -> Row]
  BY <1>1, WorkingShape DEF JobShape, InstInv, InstancesType
<1> PICK p \in Projects : p = working.of BY <1>2
<1> DEFINE r == [row[p] EXCEPT !.hostReady = row[p].there]
<1>3. row' = [row EXCEPT ![p] = r] BY <1>1, <1>2 DEF Row
<1>4. r.there = row[p].there /\ r.st = row[p].st /\ r.port = row[p].port /\ r.hostReady = row[p].there
  BY <1>2 DEF Row
<1> HIDE DEF r
<1>5. /\ \A q \in Projects \ {p} : row'[q] = row[q]
      /\ row'[p].there = row[p].there /\ row'[p].st = row[p].st /\ row'[p].port = row[p].port
      /\ row'[p].hostReady = row[p].there
  BY <1>2, <1>3, <1>4
<1>6. /\ working'.kind = "connected" /\ working'.of = p /\ working'.inst = working.inst
      /\ working'.resume = working.resume /\ working'.port = working.port /\ working'.pc = "secure"
  BY <1>1, <1>2 DEF Then, Job
<1>7. JobShape(working') BY <1>2, <1>6 DEF JobShape
<1>8. RowShape(p)' BY <1>5 DEF RowShape, TruthInv
<1>9. ConnTrue(p)'
  <2> SUFFICES ASSUME row[p].there, <<"connected", p>> \notin overtaken PROVE ConnTrue(p)'
    BY <1>1, <1>5 DEF ConnTrue, SameOtherwise
  <2>1. ConnTrue(p) BY DEF TruthInv, Part, Shown
  <2>2. ConnJob(working, p) BY <1>2, <2>1 DEF ConnTrue
  <2>3. IsThere("connected", p) /\ row[p].st["connected"] # "none" BY <1>1, <2>2 DEF ConnJob
  <2>4. Inst("connected", p) \in Insts BY NamesOfInstances DEF InstInv
  <2>5. Steady(Inst("connected", p)) BY <1>1, <2>4, StillSteady
  <2> QED BY <1>1, <1>2, <1>5, <1>6, <2>3, <2>5, ConnGoesOn
<1>10. Part("connected", p)' BY <1>9 DEF Part
<1>11. \A i \in Insts : Steady(i) BY <1>1, StillSteady
<1> QED BY <1>1, <1>2, <1>5, <1>6, <1>7, <1>8, <1>10, <1>11, WorkerMoves DEF Kinds

LEMMA SecureTells == ASSUME InstInv, TruthInv, Secure PROVE TruthInv'
<1>1. working # NoJob /\ working.pc = "secure" /\ SameOtherwise /\ host' = host BY DEF Secure, At
<1>2. /\ working \in Job /\ working \in Jobs /\ JobShape(working) /\ working.kind = "connected"
      /\ working.of \in Projects
  BY <1>1, WorkingShape DEF JobShape
<1> PICK p \in Projects : p = working.of BY <1>2
<1>3. \A i \in Insts : Steady(i) BY <1>1, StillSteady
<1>4. CASE Then("record") /\ UNCHANGED row
  <2>1. /\ working'.kind = "connected" /\ working'.of = p /\ working'.inst = working.inst
        /\ working'.resume = working.resume /\ working'.port = working.port /\ working'.pc = "record"
    BY <1>2, <1>4 DEF Then, Job
  <2>2. JobShape(working') BY <1>2, <2>1 DEF JobShape
  <2> PICK next : next = working' OBVIOUS
  <2>3. Claim(next, p)'
    <3>1. row[p].there /\ <<"connected", p>> \notin overtaken => ConnJob(working, p)
      BY <1>2 DEF TruthInv, Shown, Part, ConnTrue
    <3>2. (row[p].there /\ <<"connected", p>> \notin overtaken)' => ConnJob(next, p)'
      BY <1>1, <1>4, <2>1, <3>1 DEF ConnJob, SameOtherwise
    <3> QED BY <2>1, <3>2 DEF Claim
  <2> QED BY <1>1, <1>2, <1>3, <1>4, <2>1, <2>2, <2>3, WorkerAdvances
<1>5. CASE Outcome("failed") BY <1>1, <1>2, <1>3, <1>5, JobFails DEF Kinds
<1> QED BY <1>4, <1>5 DEF Secure

\* A restart stops a unit and starts it; the instance stays.
LEMMA RestartTells == ASSUME InstInv, TruthInv, Restart PROVE TruthInv'
<1>1. working # NoJob /\ working.pc = "run" /\ SameOtherwise BY DEF Restart, At
<1>2. /\ working \in Job /\ JobShape(working) /\ working.kind = "restart" /\ working.of \in Projects
      /\ working.inst \in Insts /\ host \in [Insts -> Instance]
  BY <1>1, WorkingShape DEF JobShape, InstInv, InstancesType
<1> PICK p \in Projects : p = working.of BY <1>2
<1>3. CASE /\ Then("upgrade") /\ UNCHANGED row
           /\ host' = [host EXCEPT ![working.inst] = Stopped(host[working.inst])]
  <2>1. working'.kind = "restart" /\ working'.of = p /\ working'.inst = working.inst /\ working'.pc = "upgrade"
    BY <1>2, <1>3 DEF Then, Job
  <2>2. JobShape(working') BY <1>2, <2>1 DEF JobShape
  <2>3. \A i \in Insts : Steady(i)
    <3> TAKE i \in Insts
    <3>1. host[i] \in Instance /\ host'[i] \in {host[i], Stopped(host[i])} BY <1>2, <1>3
    <3> QED BY <3>1 DEF Stopped, Steady, Instance
  <2> PICK next : next = working' OBVIOUS
  <2> QED BY <1>1, <1>2, <1>3, <2>1, <2>2, <2>3, WorkerAdvances DEF Shown
<1>4. CASE Outcome("failed") /\ UNCHANGED host
  <2>1. \A i \in Insts : Steady(i) BY <1>4, StillSteady
  <2> QED BY <1>1, <1>2, <1>4, <2>1, JobFails DEF Kinds
<1> QED BY <1>3, <1>4 DEF Restart

LEMMA UpgradeTells == ASSUME InstInv, TruthInv, Upgrade PROVE TruthInv'
<1>1. working # NoJob /\ working.pc = "upgrade" /\ SameOtherwise BY DEF Upgrade, At
<1>2. /\ working \in Job /\ JobShape(working) /\ working.kind = "restart" /\ working.of \in Projects
      /\ row \in [Projects -> Row] /\ working.inst \in Insts /\ host \in [Insts -> Instance]
  BY <1>1, WorkingShape DEF JobShape, InstInv, InstancesType
<1> PICK p \in Projects, s \in {"ready", "failed"} : p = working.of /\ Outcome(s) BY <1>2 DEF Upgrade
<1>3. SetStatus("restart", p, s) /\ Then("finish") BY <1>2 DEF Outcome
<1>4. /\ \A q \in Projects \ {p} : row'[q] = row[q]
      /\ row'[p].there = row[p].there /\ row'[p].port = row[p].port /\ row'[p].hostReady = row[p].hostReady
      /\ \A j \in Kinds : row'[p].st[j] = IF j = "restart" /\ row[p].there THEN s ELSE row[p].st[j]
  BY <1>2, <1>3, StatusAlone DEF Statuses, Kinds
<1>5. /\ working'.kind = "restart" /\ working'.of = p /\ working'.inst = working.inst /\ working'.pc = "finish"
  BY <1>2, <1>3 DEF Then, Job
<1>6. JobShape(working') BY <1>2, <1>5 DEF JobShape
<1>7. RowShape(p)' BY <1>4 DEF RowShape, TruthInv
<1>8. \A j \in Shown : row'[p].st[j] = row[p].st[j] BY <1>4 DEF Shown, Kinds
<1>9. "restart" \in Kinds /\ "restart" \notin Shown BY DEF Kinds, Shown
<1>10. \A i \in Insts : Steady(i)
  <2>1. host' = [host EXCEPT ![working.inst].st = "up"] \/ UNCHANGED host BY DEF Upgrade
  <2> TAKE i \in Insts
  <2>2. host[i] \in Instance /\ host'[i] \in {host[i], [host[i] EXCEPT !.st = "up"]} BY <1>2, <2>1
  <2> QED BY <2>2 DEF Steady, Instance
<1> QED BY <1>1, <1>2, <1>4, <1>5, <1>6, <1>7, <1>8, <1>9, <1>10, WorkerMoves

LEMMA RecordTells == ASSUME InstInv, TruthInv, Record PROVE TruthInv'
<1>1. working # NoJob /\ working.pc = "record" /\ SameOtherwise /\ host' = host /\ Then("finish")
  BY DEF Record, At
<1>2. /\ working \in Job /\ working \in Jobs /\ JobShape(working) /\ working.kind \in Shown
      /\ working.of \in Projects /\ row \in [Projects -> Row]
  BY <1>1, WorkingShape DEF JobShape, Kinds, Shown, InstInv, InstancesType
<1> PICK p \in Projects, k \in Shown : p = working.of /\ k = working.kind BY <1>2
<1>3. k \in Kinds BY DEF Shown, Kinds
<1>4. /\ \A q \in Projects \ {p} : row'[q] = row[q]
      /\ row'[p].there = row[p].there /\ row'[p].hostReady = row[p].hostReady
      /\ ~row[p].there => row'[p] = row[p]
      /\ row[p].there => /\ row'[p].st[k] = "ready"
                         /\ row'[p].port[k] = IF k = "connected" THEN row[p].port[k] ELSE working.port
      /\ \A j \in Kinds \ {k} : row'[p].st[j] = row[p].st[j] /\ row'[p].port[j] = row[p].port[j]
  <2> DEFINE f == [row[p].st EXCEPT ![k] = "ready"]
             g == [row[p].port EXCEPT ![k] = IF k = "connected" THEN @ ELSE working.port]
             r == [row[p] EXCEPT !.st = f, !.port = g]
  <2>1. row[p] \in Row BY <1>2
  <2>2. row[p].st \in [Kinds -> Statuses] /\ row[p].port \in [Kinds -> Ports \cup {NoPort}] BY <2>1 DEF Row
  <2>3. f[k] = "ready" /\ \A j \in Kinds \ {k} : f[j] = row[p].st[j] BY <1>3, <2>2
  <2>4. /\ g[k] = IF k = "connected" THEN row[p].port[k] ELSE working.port
        /\ \A j \in Kinds \ {k} : g[j] = row[p].port[j]
    BY <1>3, <2>2
  <2>5. row' = IF row[p].there THEN [row EXCEPT ![p] = r] ELSE row BY <1>2, <2>1 DEF Record, Row
  <2> HIDE DEF f, g
  <2>6. r.there = row[p].there /\ r.hostReady = row[p].hostReady /\ r.st = f /\ r.port = g BY <2>1 DEF Row
  <2> HIDE DEF r
  <2>7. CASE row[p].there
    <3>1. row'[p] = r /\ \A q \in Projects \ {p} : row'[q] = row[q] BY <1>2, <2>5, <2>7
    <3> QED BY <2>3, <2>4, <2>6, <2>7, <3>1
  <2>8. CASE ~row[p].there BY <2>5, <2>8
  <2> QED BY <2>7, <2>8
<1>5. /\ working'.kind = k /\ working'.of = p /\ working'.inst = working.inst
      /\ working'.resume = working.resume /\ working'.port = working.port /\ working'.pc = "finish"
  BY <1>1, <1>2 DEF Then, Job
<1>6. JobShape(working') BY <1>2, <1>5 DEF JobShape
<1>7. RowShape(p)'
  <2>1. CASE row[p].there BY <1>4, <2>1 DEF RowShape
  <2>2. CASE ~row[p].there BY <1>4, <2>2 DEF RowShape, TruthInv
  <2> QED BY <2>1, <2>2
<1> PICK next : next = working' OBVIOUS
<1>8. \A j \in Jobs' : j = next \/ (j \in Jobs /\ j.pc = "waiting") BY <1>1 DEF Jobs, SameOtherwise, TruthInv
<1>9. given' = given /\ Inst(k, p)' = Inst(k, p) /\ (Torn(p) => Torn(p)') BY <1>1 DEF SameOtherwise, Inst, Torn
<1>10. Part(k, p) BY DEF TruthInv
<1>11. row'[p].st[k] = "ready" => row[p].there BY <1>3, <1>4 DEF TruthInv, RowShape
<1>12. k = "own" => OwnTrue(p)'
  <2> SUFFICES ASSUME k = "own", Namesakes(p) = {} PROVE OwnTrue(p)' BY <1>9 DEF OwnTrue, Namesakes
  <2>1. OwnJob(working, p) BY <1>2, <1>10 DEF Part, OwnTrue
  <2>2. (row[p].st["own"] = "ready" => IsThere("own", p) \/ Torn(p))'
    BY <1>1, <1>4, <1>9, <1>11, <2>1 DEF OwnJob, IsThere, Stands
  <2>3. \A j \in Jobs' : OwnJob(j, p)' BY <1>5, <1>8 DEF OwnJob
  <2> QED BY <2>2, <2>3 DEF OwnTrue
<1>13. k = "restored" => RestoredTrue(p)'
  <2> SUFFICES ASSUME k = "restored" PROVE RestoredTrue(p)' OBVIOUS
  <2>1. RestoredJob(working, p) BY <1>2, <1>10 DEF Part, RestoredTrue
  <2>2. (row[p].st["restored"] = "ready" => IsThere("restored", p))'
    BY <1>1, <1>4, <1>9, <1>11, <2>1 DEF RestoredJob, IsThere, Stands
  <2>3. \A j \in Jobs' : RestoredJob(j, p)' BY <1>5, <1>8 DEF RestoredJob
  <2> QED BY <2>2, <2>3 DEF RestoredTrue
<1>14. k = "connected" => ConnTrue(p)'
  <2> SUFFICES ASSUME k = "connected", row[p].there, <<"connected", p>> \notin overtaken PROVE ConnTrue(p)'
    BY <1>1, <1>4 DEF ConnTrue, SameOtherwise
  <2>1. ConnTrue(p) BY <1>10 DEF Part
  <2>2. row[p].hostReady /\ IsThere("connected", p) BY <1>1, <1>2, <2>1 DEF ConnTrue, ConnJob
  <2>3. Inst("connected", p) \in Insts BY NamesOfInstances DEF InstInv
  <2>4. Steady(Inst("connected", p)) BY <1>1, <2>3, StillSteady
  <2> QED BY <1>1, <1>2, <1>4, <1>5, <2>2, <2>4, ConnGoesOn
<1>15. Part(k, p)' BY <1>12, <1>13, <1>14 DEF Part, Shown
<1>16. k # "restart" /\ \A j \in Shown \ {k} : j \in Kinds BY DEF Shown, Kinds
<1>17. \A i \in Insts : Steady(i) BY <1>1, StillSteady
<1> QED BY <1>1, <1>3, <1>4, <1>5, <1>6, <1>7, <1>15, <1>16, <1>17, WorkerMoves

\* A job ends, is taken, or is put back by a death: rows stay as they are.
LEMMA FinishJobTells == ASSUME InstInv, TruthInv, FinishJob PROVE TruthInv'
<1>1. working # NoJob /\ working' = NoJob /\ UNCHANGED <<given, row, call, queue, host, overlooked, overtaken>>
  BY DEF FinishJob, At
<1>2. working \in Jobs /\ working.kind \in Kinds /\ working.of \in Projects BY <1>1, WorkingShape
<1> PICK w \in Jobs : w = working BY <1>2
<1>3. \A j \in Jobs' : j \in Jobs BY <1>1 DEF Jobs
<1>4. \A n \in DOMAIN queue' : queue'[n].pc = "waiting" BY <1>1 DEF TruthInv
<1>5. RowShape(w.of)' BY <1>1, <1>2 DEF TruthInv, RowShape
<1>6. \A i \in Insts : Steady(i) BY <1>1, StillSteady
<1>7. ASSUME NEW k \in Shown, NEW p \in Projects PROVE Part(k, p)'
  <2>1. Part(k, p) /\ Inst(k, p) \in Insts BY NamesOfInstances DEF TruthInv, Shown, InstInv
  <2> QED BY <1>1, <1>3, <1>6, <2>1, PartStays DEF Torn, Connects
<1> QED BY <1>1, <1>2, <1>3, <1>4, <1>5, <1>6, <1>7, JobMoves

\* What is said of a job that begins, or begins again.
LEMMA JobBegins ==
    ASSUME InstInv, TruthInv, NEW w \in Jobs, NEW next,
           UNCHANGED <<given, row, call, overtaken, host>>, overlooked \subseteq overlooked',
           \A j \in Jobs' : j \in Jobs \/ j = next,
           next.kind = w.kind, next.of = w.of, next.resume = w.resume, next.port = w.port,
           JobShape(next), next.pc \in {"waiting", "allocate", "run", "build", "secure"},
           next.pc = "secure" => w.resume,
           \A n \in DOMAIN queue' : queue'[n].pc = "waiting"
    PROVE  TruthInv'
<1>1. w \in Job /\ w.of \in Projects /\ w.kind \in Kinds BY JobsAreJobs DEF InstInv, Job
<1> PICK p \in Projects, k \in Kinds : p = w.of /\ k = w.kind BY <1>1
<1>2. \A i \in Insts : Steady(i) BY StillSteady
<1>3. k \in Shown => Claim(next, p)'
  <2>1. CASE k = "own" BY <2>1 DEF Claim, OwnJob
  <2>2. CASE k = "restored" BY <2>2 DEF Claim, RestoredJob
  <2>3. CASE k = "connected"
    <3>1. row[p].there /\ <<"connected", p>> \notin overtaken => ConnJob(w, p)
      BY <2>3 DEF TruthInv, Shown, Part, ConnTrue
    <3>2. (row[p].there /\ <<"connected", p>> \notin overtaken)' => ConnJob(next, p)' BY <3>1 DEF ConnJob
    <3> QED BY <2>3, <3>2 DEF Claim
  <2> QED BY <2>1, <2>2, <2>3 DEF Shown
<1> QED BY <1>2, <1>3, JobAdvances

LEMMA TakeJobTells == ASSUME InstInv, TruthInv, TakeJob PROVE TruthInv'
<1>1. /\ working = NoJob /\ queue # <<>> /\ working' = [Head(queue) EXCEPT !.pc = FirstStep(Head(queue))]
      /\ queue' = Tail(queue) /\ UNCHANGED <<given, row, call, done, host, overlooked, overtaken, left>>
  BY DEF TakeJob
<1>2. queue \in Seq(Job) BY DEF InstInv, InstancesType
<1>3. /\ Head(queue) \in Job /\ Head(queue) = queue[1] /\ 1 \in DOMAIN queue
      /\ \A n \in DOMAIN Tail(queue) : n + 1 \in DOMAIN queue /\ Tail(queue)[n] = queue[n + 1]
  BY <1>1, <1>2, Shortened
<1>4. Head(queue) \in Jobs BY <1>3 DEF Jobs
<1> PICK w \in Jobs : w = Head(queue) BY <1>4
<1> PICK next : next = working' OBVIOUS
<1>5. w \in Job /\ JobShape(w) /\ w.kind \in Kinds BY <1>3 DEF TruthInv, Job
<1>6. /\ next.kind = w.kind /\ next.of = w.of /\ next.inst = w.inst /\ next.resume = w.resume
      /\ next.port = w.port /\ next.pc = FirstStep(w)
  BY <1>1, <1>5 DEF Job
<1>7. /\ w.kind = "restart" => FirstStep(w) = "run"
      /\ w.kind = "restored" => FirstStep(w) = "allocate"
      /\ w.kind \in {"own", "connected"} => FirstStep(w) = IF w.resume THEN "secure" ELSE "build"
  BY <1>5 DEF FirstStep
<1>8. JobShape(next) BY <1>5, <1>6, <1>7 DEF JobShape, Kinds
<1>9. next.pc \in {"waiting", "allocate", "run", "build", "secure"} BY <1>5, <1>6, <1>7 DEF Kinds
<1>10. next.pc = "secure" => w.resume BY <1>5, <1>6, <1>7 DEF Kinds
<1>11. \A j \in Jobs' : j \in Jobs \/ j = next BY <1>1, <1>3 DEF Jobs
<1>12. \A n \in DOMAIN queue' : queue'[n].pc = "waiting" BY <1>1, <1>3 DEF TruthInv
<1> QED BY <1>1, <1>6, <1>8, <1>9, <1>10, <1>11, <1>12, JobBegins

LEMMA WorkerDiesTells == ASSUME InstInv, TruthInv, WorkerDies PROVE TruthInv'
<1>1. working # NoJob /\ working' = NoJob /\ UNCHANGED <<given, row, call, host, overtaken>> BY DEF WorkerDies
<1>2. /\ working \in Job /\ working \in Jobs /\ JobShape(working) /\ working.kind \in Kinds
      /\ working.inst \in Insts /\ queue \in Seq(Job) /\ host \in [Insts -> Instance]
  BY <1>1, WorkingShape DEF InstInv, InstancesType
<1> PICK w \in Jobs : w = working BY <1>2
<1> DEFINE back == [w EXCEPT !.pc = "waiting", !.stalled = TRUE]
<1>3. back \in Job /\ back.kind = w.kind /\ back.of = w.of /\ back.inst = w.inst /\ back.resume = w.resume
      /\ back.port = w.port /\ back.pc = "waiting"
  BY <1>2 DEF Job
<1>4. overlooked \subseteq overlooked' BY DEF WorkerDies
<1>5. IF w.stalled THEN queue' = queue ELSE queue' = <<back>> \o queue BY DEF WorkerDies
<1> PICK next : next = back OBVIOUS
<1> HIDE DEF back
<1>6. \A n \in DOMAIN queue' : queue'[n] = next \/ \E m \in DOMAIN queue : queue'[n] = queue[m]
  <2>1. CASE w.stalled BY <1>5, <2>1
  <2>2. CASE ~w.stalled BY <1>2, <1>3, <1>5, <2>2, Fronted
  <2> QED BY <2>1, <2>2
<1>7. \A j \in Jobs' : j \in Jobs \/ j = next BY <1>1, <1>6 DEF Jobs
<1>8. \A n \in DOMAIN queue' : queue'[n].pc = "waiting" BY <1>3, <1>6 DEF TruthInv
<1>9. JobShape(next) BY <1>2, <1>3 DEF JobShape
<1> QED BY <1>1, <1>3, <1>4, <1>7, <1>8, <1>9, JobBegins

-----------------------------------------------------------------------------
(* Steps of requests.                                                       *)

\* Two requests about a project are not there while it is being created.
LEMMA CreatedAlone ==
    ASSUME InstInv, TruthInv, NEW c \in Calls, NEW q \in Projects, call[c].of = q \/ row[q].there,
           NEW d \in Calls \ {c}, call[d].of = q
    PROVE  ~Creating(call[d])
<1>1. CreatesAlone(d) BY DEF TruthInv
<1> QED BY <1>1 DEF CreatesAlone

LEMMA AtWork ==
    ASSUME InstInv, TruthInv, NEW c \in Calls, call[c].pc # "idle"
    PROVE  call[c] \in Call /\ call[c].of \in Projects /\ CallShape(call[c]) /\ CreatesAlone(c)
BY DEF InstInv, InstancesType, CallInv, TruthInv

LEMMA AtRest ==
    ASSUME TruthInv, NEW c \in Calls, call[c].pc = "idle" PROVE call[c] = Free
BY DEF TruthInv, CallShape

LEMMA FreeShape == \A c \in Calls : call[c] = Free => CallShape(call[c]) /\ CreatesAlone(c)
BY DEF CallShape, CreatesAlone, Creating, Free

\* Only the request itself changes.
LEMMA CallMoves ==
    ASSUME InstInv, TruthInv, NEW c \in Calls, NEW q \in Projects,
           UNCHANGED <<given, row, jobs, host, overlooked>>, overtaken \subseteq overtaken',
           \A d \in Calls \ {c} : call'[d] = call[d] /\ (call[d].of = q => ~Creating(call[d])),
           call[c].of \in {q, NoProject}, call'[c].of \in {q, NoProject}, call[c].pc # "remove",
           CallShape(call[c])', CreatesAlone(c)', Connects(c, q)' => ConnTrue(q)'
    PROVE  TruthInv'
<1>1. Jobs' = Jobs BY DEF Jobs, jobs
<1>2. \A n \in DOMAIN queue' : queue'[n].pc = "waiting" BY DEF TruthInv, jobs
<1>3. RowShape(q)' BY DEF TruthInv, RowShape
<1>4. ASSUME NEW k \in Shown PROVE Part(k, q)'
  <2>1. CASE k = "connected" /\ Connects(c, q)' BY <2>1 DEF Part
  <2>2. CASE k # "connected" \/ ~Connects(c, q)'
    <3>1. Part(k, q) BY DEF TruthInv
    <3>2. Torn(q) => Torn(q)' BY DEF Torn
    <3>3. k = "connected" => \A d \in Calls : Connects(d, q)' => call'[d] = call[d] BY <2>2
    <3>4. Steady(Inst(k, q)) BY NamesOfInstances, StillSteady DEF InstInv, Shown
    <3> QED BY <1>1, <3>1, <3>2, <3>3, <3>4, PartStays
  <2> QED BY <2>1, <2>2
<1>5. \A i \in Insts : Steady(i) BY StillSteady
<1> QED BY <1>1, <1>2, <1>3, <1>4, <1>5, RequestMoves

LEMMA AskCreateTells ==
    ASSUME InstInv, TruthInv, NEW c \in Calls, NEW p \in Projects, AskCreate(c, p) PROVE TruthInv'
<1>0. given.type[p] = "ai" BY DEF AskCreate
<1>1. /\ call[c].pc = "idle" /\ ~row[p].there /\ \A d \in Calls : call[d].of # p
      /\ \A j \in Jobs : j.of # p
      /\ UNCHANGED <<given, row, jobs, host, overlooked, overtaken>>
  BY DEF AskCreate, Jobs
<1>2. call[c] = Free /\ call \in [Calls -> Call] BY <1>1, AtRest DEF InstInv, InstancesType
<1> PICK direct \in BOOLEAN :
           call' = [call EXCEPT ![c] = [Free EXCEPT !.pc = "allocate", !.kind = "own", !.of = p,
                                                    !.resume = direct]]
  BY DEF AskCreate
<1>3. /\ call'[c].pc = "allocate" /\ call'[c].kind = "own" /\ call'[c].of = p
      /\ \A d \in Calls \ {c} : call'[d] = call[d]
  BY <1>2 DEF Free
<1>4. CallShape(call[c])' BY <1>0, <1>1, <1>3 DEF CallShape
<1>5. Jobs' = Jobs BY <1>1 DEF Jobs, jobs
<1>6. CreatesAlone(c)' BY <1>1, <1>3, <1>5 DEF CreatesAlone
<1>7. ~Connects(c, p)' BY <1>3 DEF Connects
<1>8. call[c].of = NoProject BY <1>2 DEF Free
<1> QED BY <1>1, <1>3, <1>4, <1>6, <1>7, <1>8, CallMoves

LEMMA AskDeleteTells ==
    ASSUME InstInv, TruthInv, NEW c \in Calls, NEW p \in Projects, AskDelete(c, p) PROVE TruthInv'
<1>1. /\ call[c].pc = "idle" /\ row[p].there
      /\ UNCHANGED <<given, row, jobs, host, overlooked, overtaken>>
  BY DEF AskDelete
<1>2. call[c] = Free /\ call \in [Calls -> Call] BY <1>1, AtRest DEF InstInv, InstancesType
<1>3. /\ call'[c].pc = IF given.type[p] = "ai" THEN "teardown" ELSE "remove"
      /\ call'[c].kind = "delete" /\ call'[c].of = p /\ \A d \in Calls \ {c} : call'[d] = call[d]
  BY <1>2 DEF AskDelete, Free
<1>4. CallShape(call[c])' BY <1>1, <1>3 DEF CallShape
<1>5. CreatesAlone(c)' /\ ~Connects(c, p)' BY <1>3 DEF CreatesAlone, Creating, Connects
<1>6. call[c].of = NoProject BY <1>2 DEF Free
<1>7. \A d \in Calls \ {c} : call[d].of = p => ~Creating(call[d]) BY <1>1, CreatedAlone
<1> QED BY <1>1, <1>3, <1>4, <1>5, <1>6, <1>7, CallMoves

\* A connected instance is asked for, to go on with what was built, at its port, or anew,
\* while no job of an earlier request is about it.
LEMMA AskTells ==
    ASSUME InstInv, TruthInv, NEW c \in Calls, NEW k \in Kinds, NEW p \in Projects, Ask(c, k, p) PROVE TruthInv'
<1> DEFINE resume == k = "connected" /\ Resumes(p)
<1>1. /\ call[c].pc = "idle" /\ k # "own" /\ Admits(k, p) /\ row[p].there
      /\ UNCHANGED <<given, row, jobs, host, overlooked>> /\ overtaken \subseteq overtaken'
      /\ overtaken' = IF JobAbout(k, p) \/ \E d \in Calls : call[d].of = p /\ call[d].kind = k
                      THEN overtaken \cup {<<k, p>>} ELSE overtaken
  BY DEF Ask, Admits
<1>2. call[c] = Free /\ call \in [Calls -> Call] /\ row[p] \in Row BY <1>1, AtRest DEF InstInv, InstancesType
<1>3. /\ call'[c].pc = (IF k = "connected" /\ ~PortKept(resume) THEN "allocate" ELSE "update")
      /\ call'[c].kind = k /\ call'[c].of = p /\ call'[c].resume = resume
      /\ call'[c].port = (IF resume THEN row[p].port[k] ELSE NoPort)
      /\ \A d \in Calls \ {c} : call'[d] = call[d]
  BY <1>2 DEF Ask
<1>4. resume \in BOOLEAN BY DEF Resumes
<1>5. k \in {"connected", "restored", "restart"} BY <1>1 DEF Kinds
<1>6. CallShape(call[c])' BY <1>3, <1>4, <1>5 DEF CallShape, PortKept
<1>7. CreatesAlone(c)' BY <1>3, <1>5 DEF CreatesAlone, Creating
<1>8. call[c].of = NoProject BY <1>2 DEF Free
<1>9. \A d \in Calls \ {c} : call[d].of = p => ~Creating(call[d]) BY <1>1, CreatedAlone
<1>10. Connects(c, p)' => ConnTrue(p)'
  <2> SUFFICES ASSUME k = "connected", <<"connected", p>> \notin overtaken' PROVE ConnTrue(p)'
    BY <1>3 DEF Connects, ConnTrue
  <2>1. /\ <<"connected", p>> \notin overtaken /\ ~JobAbout("connected", p)
        /\ \A d \in Calls : ~Connects(d, p)
    BY <1>1 DEF Connects
  <2>2. \A j \in Jobs : j.kind = "connected" => j.of # p BY <2>1 DEF Jobs, JobAbout
  <2>3. ConnTrue(p) BY DEF TruthInv, Part, Shown
  <2>4. Jobs' = Jobs /\ IsThere("connected", p)' = IsThere("connected", p)
    BY <1>1 DEF Jobs, jobs, IsThere, Stands, Inst
  <2>5. \A d \in Calls : Connects(d, p)' => d = c BY <1>3, <2>1 DEF Connects
  <2>6. ~resume => ~row[p].hostReady
    <3>1. row[p].st["connected"] \in Statuses BY <1>2 DEF Row, Kinds
    <3>2. row[p].st["connected"] \notin {"pending", "ready"} BY <1>1 DEF Admits
    <3>3. row[p].hostReady => row[p].st["connected"] = "failed"
      BY <1>1, <2>1, <2>3, <3>1, <3>2 DEF ConnTrue, Statuses
    <3> QED BY <3>3 DEF Resumes
  <2>7. resume => row[p].hostReady BY DEF Resumes
  <2>8. ConnCall(call[c], p)' BY <1>1, <1>3, <1>4, <2>2, <2>4, <2>6, <2>7 DEF ConnCall
  <2> QED BY <1>1, <2>1, <2>2, <2>3, <2>4, <2>5, <2>8 DEF ConnTrue
<1> HIDE DEF resume
<1> QED BY <1>1, <1>3, <1>6, <1>7, <1>8, <1>9, <1>10, CallMoves

\* A request that is answered leaves what it was about.
LEMMA CallEndsTells ==
    ASSUME InstInv, TruthInv, NEW c \in Calls, call[c].pc \notin {"idle", "remove"}, Ends(c),
           UNCHANGED <<given, row, jobs, host, overlooked, overtaken>>
    PROVE  TruthInv'
<1>1. /\ call[c].of \in Projects /\ call'[c] = Free /\ \A d \in Calls \ {c} : call'[d] = call[d]
  BY AtWork, CallEnds DEF InstInv, InstancesType
<1> PICK q \in Projects : q = call[c].of BY <1>1
<1>2. CallShape(call[c])' /\ CreatesAlone(c)' /\ ~Connects(c, q)' /\ call'[c].of = NoProject
  BY <1>1 DEF CallShape, CreatesAlone, Creating, Connects, Free
<1>3. \A d \in Calls \ {c} : call[d].of = q => ~Creating(call[d]) BY CreatedAlone
<1> QED BY <1>1, <1>2, <1>3, CallMoves

LEMMA AllocateForTells == ASSUME InstInv, TruthInv, NEW c \in Calls, AllocateFor(c) PROVE TruthInv'
<1>1. call[c].pc = "allocate" /\ UNCHANGED <<given, row, jobs, host, overlooked, overtaken, left>> BY DEF AllocateFor
<1>2. CASE Ends(c) BY <1>1, <1>2, CallEndsTells
<1>3. ASSUME NEW n \in Allocated(call[c].kind),
             call' = [call EXCEPT ![c].port = n,
                                  ![c].pc = CASE call[c].kind = "connected" -> "update"
                                              [] call[c].kind = "own" /\ call[c].resume -> "script"
                                              [] OTHER -> "insert"]
      PROVE  TruthInv'
  <2>1. /\ call[c] \in Call /\ call[c].of \in Projects /\ CallShape(call[c]) /\ CreatesAlone(c)
        /\ call[c].kind \in {"own", "connected"} /\ call \in [Calls -> Call]
    BY <1>1, AtWork DEF InstInv, InstancesType, CallInv
  <2> PICK q \in Projects : q = call[c].of BY <2>1
  <2> DEFINE pc == CASE call[c].kind = "connected" -> "update"
                     [] call[c].kind = "own" /\ call[c].resume -> "script"
                     [] OTHER -> "insert"
  <2>2. pc = IF call[c].kind = "connected" THEN "update" ELSE IF call[c].resume THEN "script" ELSE "insert"
    <3>1. CASE call[c].kind = "connected" BY <3>1
    <3>2. CASE call[c].kind = "own" /\ call[c].resume BY <3>2
    <3>3. CASE call[c].kind = "own" /\ ~call[c].resume BY <3>3
    <3>4. call[c].resume \in BOOLEAN BY <2>1 DEF Call
    <3> QED BY <2>1, <3>1, <3>2, <3>3, <3>4
  <2>3. call' = [call EXCEPT ![c].port = n, ![c].pc = pc] BY <1>3
  <2> HIDE DEF pc
  <2>4. /\ call'[c].pc = pc /\ call'[c].kind = call[c].kind /\ call'[c].of = q /\ call'[c].resume = call[c].resume
        /\ call'[c].port = n /\ \A d \in Calls \ {c} : call'[d] = call[d]
    BY <2>1, <2>3 DEF Call
  <2>5. CallShape(call[c])' BY <1>1, <2>1, <2>2, <2>4 DEF CallShape
  <2>6. Jobs' = Jobs BY <1>1 DEF Jobs, jobs
  <2>7. CreatesAlone(c)'
    <3> SUFFICES ASSUME call[c].kind = "own" PROVE CreatesAlone(c)' BY <2>4 DEF CreatesAlone, Creating
    <3>1. ~row[q].there /\ (\A d \in Calls \ {c} : call[d].of # q) /\ \A j \in Jobs : j.of # q
      BY <1>1, <2>1 DEF CreatesAlone, Creating
    <3>2. ~(call'[c].pc = "insert" /\ call'[c].resume) BY <2>2, <2>4
    <3> QED BY <1>1, <2>4, <2>6, <3>1, <3>2 DEF CreatesAlone
  <2>8. Connects(c, q)' => ConnTrue(q)'
    <3> SUFFICES ASSUME call[c].kind = "connected", row[q].there, <<"connected", q>> \notin overtaken PROVE ConnTrue(q)'
      BY <1>1, <2>4 DEF Connects, ConnTrue
    <3>1. ConnTrue(q) BY DEF TruthInv, Part, Shown
    <3>2. /\ IsThere("connected", q)' = IsThere("connected", q)
          /\ \A d \in Calls : Connects(d, q)' = Connects(d, q)
      BY <1>1, <2>4 DEF IsThere, Stands, Inst, Connects
    <3>3. Connects(c, q) BY DEF Connects
    <3>4. ~call[c].resume /\ ConnCall(call[c], q) BY <1>1, <2>1, <3>1, <3>3 DEF CallShape, ConnTrue
    <3>5. ConnCall(call[c], q)' BY <1>1, <2>2, <2>4, <2>6, <3>4 DEF ConnCall
    <3>6. \A d \in Calls : Connects(d, q)' => d = c BY <3>1, <3>2, <3>3 DEF ConnTrue
    <3>7. \A j \in Jobs' : j.kind = "connected" => j.of # q BY <2>6, <3>4 DEF ConnCall
    <3> QED BY <1>1, <3>1, <3>2, <3>5, <3>6, <3>7 DEF ConnTrue
  <2>9. \A d \in Calls \ {c} : call[d].of = q => ~Creating(call[d]) BY CreatedAlone
  <2> QED BY <1>1, <2>4, <2>5, <2>7, <2>8, <2>9, CallMoves
<1> QED BY <1>2, <1>3 DEF AllocateFor

\* The row of a project that is being created is not there and no job is about it, so
\* that nothing is said of its instances.
LEMMA NothingSaid ==
    ASSUME InstInv, TruthInv, NEW q \in Projects, ~row[q].there, \A j \in Jobs' : j.of # q, row' = row
    PROVE  \A k \in Shown : Part(k, q)'
<1>1. \A k \in Kinds : row'[q].st[k] = "none" BY DEF TruthInv, RowShape
<1>2. OwnTrue(q)' BY <1>1 DEF OwnTrue, Kinds
<1>3. RestoredTrue(q)' BY <1>1 DEF RestoredTrue, Kinds
<1>4. ConnTrue(q)' BY DEF ConnTrue
<1> QED BY <1>2, <1>3, <1>4 DEF Part, Shown

LEMMA ScriptTells == ASSUME InstInv, TruthInv, NEW c \in Calls, Script(c) PROVE TruthInv'
<1>1. call[c].pc = "script" /\ UNCHANGED <<given, row, jobs, overlooked, overtaken>> BY DEF Script
<1>2. /\ call[c] \in Call /\ call[c].of \in Projects /\ CallShape(call[c]) /\ CreatesAlone(c)
      /\ call[c].kind = "own" /\ call \in [Calls -> Call] /\ host \in [Insts -> Instance]
  BY <1>1, AtWork DEF InstInv, InstancesType, CallInv
<1> PICK q \in Projects : q = call[c].of BY <1>2
<1>3. Inst("own", q) \in Insts /\ Inst("own", q)' = Inst("own", q) BY <1>1, NamesOfInstances DEF InstInv, Inst
<1>4. Jobs' = Jobs /\ queue' = queue BY <1>1 DEF Jobs, jobs
<1>5. ~row[q].there /\ (\A d \in Calls \ {c} : call[d].of # q) /\ \A j \in Jobs' : j.of # q
  BY <1>1, <1>2, <1>4 DEF CreatesAlone, Creating
<1>6. \A k \in Shown : Part(k, q)' BY <1>1, <1>5, NothingSaid
<1>7. RowShape(q)' /\ \A n \in DOMAIN queue' : queue'[n].pc = "waiting" BY <1>1, <1>4 DEF TruthInv, RowShape
<1>8. \A i \in Insts \ {Inst("own", q)} : Steady(i) BY <1>2, <1>3 DEF Script, Builds, Steady
<1>9. CASE Ends(c)
  <2>1. call'[c] = Free /\ \A d \in Calls \ {c} : call'[d] = call[d] BY <1>2, <1>9, CallEnds
  <2>2. CallShape(call[c])' /\ CreatesAlone(c)' /\ call'[c].of = NoProject
    BY <2>1 DEF CallShape, CreatesAlone, Creating, Free
  <2> QED BY <1>1, <1>4, <1>5, <1>6, <1>7, <1>8, <2>1, <2>2, RequestMoves
<1>10. CASE Goes(c, "start")
  <2>1. /\ call'[c].pc = "start" /\ call'[c].kind = "own" /\ call'[c].of = q /\ call'[c].resume = call[c].resume
        /\ \A d \in Calls \ {c} : call'[d] = call[d]
    BY <1>2, <1>10 DEF Goes, Call
  <2>2. CallShape(call[c])' BY <1>1, <1>2, <2>1 DEF CallShape
  <2>3. CreatesAlone(c)' BY <1>1, <1>5, <2>1 DEF CreatesAlone
  <2> QED BY <1>1, <1>4, <1>5, <1>6, <1>7, <1>8, <2>1, <2>2, <2>3, RequestMoves
<1> QED BY <1>9, <1>10 DEF Script

LEMMA ScriptStartsTells == ASSUME InstInv, TruthInv, NEW c \in Calls, ScriptStarts(c) PROVE TruthInv'
<1>1. call[c].pc = "start" /\ UNCHANGED <<given, row, jobs, overlooked, overtaken>> BY DEF ScriptStarts
<1>2. /\ call[c] \in Call /\ call[c].of \in Projects /\ CallShape(call[c]) /\ CreatesAlone(c)
      /\ call[c].kind = "own" /\ call \in [Calls -> Call] /\ host \in [Insts -> Instance]
  BY <1>1, AtWork DEF InstInv, InstancesType, CallInv
<1> PICK q \in Projects : q = call[c].of BY <1>2
<1>3. Inst("own", q) \in Insts /\ Inst("own", q)' = Inst("own", q) BY <1>1, NamesOfInstances DEF InstInv, Inst
<1>4. Jobs' = Jobs /\ queue' = queue BY <1>1 DEF Jobs, jobs
<1>5. ~row[q].there /\ (\A d \in Calls \ {c} : call[d].of # q) /\ \A j \in Jobs' : j.of # q
  BY <1>1, <1>2, <1>4 DEF CreatesAlone, Creating
<1>6. \A k \in Shown : Part(k, q)' BY <1>1, <1>5, NothingSaid
<1>7. RowShape(q)' /\ \A n \in DOMAIN queue' : queue'[n].pc = "waiting" BY <1>1, <1>4 DEF TruthInv, RowShape
<1>8. \A i \in Insts \ {Inst("own", q)} : Steady(i) BY <1>2, <1>3 DEF ScriptStarts, Starts, CleansUp, Steady
<1>9. CASE Ends(c)
  <2>1. call'[c] = Free /\ \A d \in Calls \ {c} : call'[d] = call[d] BY <1>2, <1>9, CallEnds
  <2>2. CallShape(call[c])' /\ CreatesAlone(c)' /\ call'[c].of = NoProject
    BY <2>1 DEF CallShape, CreatesAlone, Creating, Free
  <2> QED BY <1>1, <1>4, <1>5, <1>6, <1>7, <1>8, <2>1, <2>2, RequestMoves
<1>10. CASE Starts(Inst("own", q), call[c].port, q) /\ Goes(c, "insert")
  <2>1. /\ call'[c].pc = "insert" /\ call'[c].kind = "own" /\ call'[c].of = q /\ call'[c].resume = call[c].resume
        /\ call'[c].port = call[c].port /\ \A d \in Calls \ {c} : call'[d] = call[d]
    BY <1>2, <1>10 DEF Goes, Call
  <2>2. CallShape(call[c])' BY <1>1, <1>2, <2>1 DEF CallShape
  <2>3. host'[Inst("own", q)] = Up(call[c].port, q) BY <1>2, <1>3, <1>10 DEF Starts
  <2>4. CreatesAlone(c)' BY <1>1, <1>3, <1>5, <2>1, <2>3 DEF CreatesAlone, Stands, Up
  <2> QED BY <1>1, <1>4, <1>5, <1>6, <1>7, <1>8, <2>1, <2>2, <2>4, RequestMoves
<1> QED BY <1>9, <1>10 DEF ScriptStarts

LEMMA TeardownTells == ASSUME InstInv, TruthInv, NEW c \in Calls, Teardown(c) PROVE TruthInv'
<1>1. call[c].pc = "teardown" /\ UNCHANGED <<given, row, jobs, overlooked, overtaken>> /\ Goes(c, "remove")
  BY DEF Teardown
<1>2. /\ call[c] \in Call /\ call[c].of \in Projects /\ CallShape(call[c]) /\ call \in [Calls -> Call]
      /\ host \in [Insts -> Instance]
  BY <1>1, AtWork DEF InstInv, InstancesType
<1> PICK q \in Projects : q = call[c].of BY <1>2
<1>3. given.type[q] = "ai" /\ call[c].kind = "delete" BY <1>1, <1>2 DEF CallShape
<1>4. /\ call'[c].pc = "remove" /\ call'[c].kind = "delete" /\ call'[c].of = q
      /\ \A d \in Calls \ {c} : call'[d] = call[d]
  BY <1>1, <1>2, <1>3 DEF Goes, Call
<1>5. Jobs' = Jobs /\ queue' = queue BY <1>1 DEF Jobs, jobs
<1>6. CallShape(call[c])' /\ CreatesAlone(c)' /\ ~Connects(c, q)'
  BY <1>4 DEF CallShape, CreatesAlone, Creating, Connects
<1>7. RowShape(q)' /\ \A n \in DOMAIN queue' : queue'[n].pc = "waiting" BY <1>1, <1>5 DEF TruthInv, RowShape
<1>8. \A i \in Insts \ {Inst("own", q)} : Steady(i) BY <1>2 DEF Teardown, Steady
<1>9. \A d \in Calls \ {c} : call[d].of = q => ~Creating(call[d]) BY CreatedAlone
<1>10. Torn(q)' BY <1>1, <1>3, <1>4 DEF Torn
<1>11. ASSUME NEW k \in Shown PROVE Part(k, q)'
  <2>1. CASE k = "own"
    <3>1. OwnTrue(q)' BY <1>10 DEF OwnTrue, OwnJob
    <3> QED BY <2>1, <3>1 DEF Part
  <2>2. CASE k # "own"
    <3>1. Inst(k, q) # Inst("own", q) /\ Inst(k, q) \in Insts
      BY <2>2, Apart, NamesOfInstances DEF Shown, InstInv
    <3>2. Steady(Inst(k, q)) BY <1>8, <3>1
    <3>3. \A d \in Calls : Connects(d, q)' => call'[d] = call[d] BY <1>4, <1>6
    <3>4. Part(k, q) BY DEF TruthInv
    <3> QED BY <1>1, <1>5, <2>2, <3>2, <3>3, <3>4, PartStays
  <2> QED BY <2>1, <2>2
<1> QED BY <1>1, <1>4, <1>5, <1>6, <1>7, <1>8, <1>9, <1>11, RequestMoves

LEMMA RemoveTells == ASSUME InstInv, TruthInv, NEW c \in Calls, Remove(c) PROVE TruthInv'
<1>1. /\ call[c].pc = "remove" /\ Ends(c) /\ row' = [row EXCEPT ![call[c].of] = NoRow]
      /\ UNCHANGED <<given, jobs, host, overlooked, overtaken, left>>
  BY DEF Remove
<1>2. /\ call[c].of \in Projects /\ call \in [Calls -> Call] /\ row \in [Projects -> Row]
  BY <1>1, AtWork DEF InstInv, InstancesType
<1> PICK q \in Projects : q = call[c].of BY <1>2
<1>3. call'[c] = Free /\ \A d \in Calls \ {c} : call'[d] = call[d] BY <1>1, <1>2, CallEnds
<1>4. /\ row'[q] = NoRow /\ ~row'[q].there /\ (\A k \in Kinds : row'[q].st[k] = "none")
      /\ \A p \in Projects \ {q} : row'[p] = row[p]
  BY <1>1, <1>2, NoRowType
<1>5. Jobs' = Jobs /\ queue' = queue BY <1>1 DEF Jobs, jobs
<1>6. CallShape(call[c])' /\ CreatesAlone(c)' /\ call'[c].of = NoProject
  BY <1>3 DEF CallShape, CreatesAlone, Creating, Free
<1>7. RowShape(q)' /\ \A n \in DOMAIN queue' : queue'[n].pc = "waiting" BY <1>4, <1>5 DEF TruthInv, RowShape
<1>8. \A d \in Calls \ {c} : call[d].of = q => ~Creating(call[d]) BY CreatedAlone
<1>9. OwnTrue(q)' BY <1>4 DEF OwnTrue, OwnJob, Kinds
<1>10. RestoredTrue(q)'
  <2>1. RestoredTrue(q) /\ Inst("restored", q)' = Inst("restored", q) BY <1>1 DEF TruthInv, Part, Shown, Inst
  <2>2. \A j \in Jobs' : j.kind = "restored" /\ j.of = q => RestoredJob(j, q)'
    BY <1>1, <1>5, <2>1 DEF RestoredTrue, RestoredJob, Stands
  <2> QED BY <1>4, <2>2 DEF RestoredTrue, Kinds
<1>11. ConnTrue(q)' BY <1>4 DEF ConnTrue
<1>12. \A k \in Shown : Part(k, q)' BY <1>9, <1>10, <1>11 DEF Part, Shown
<1>13. \A i \in Insts : Steady(i) BY <1>1, StillSteady
<1> QED BY <1>1, <1>3, <1>4, <1>5, <1>6, <1>7, <1>8, <1>12, <1>13, RequestMoves

LEMMA InsertTells == ASSUME InstInv, TruthInv, NEW c \in Calls, Insert(c) PROVE TruthInv'
<1>1. call[c].pc = "insert" /\ UNCHANGED <<given, jobs, host, overtaken>> BY DEF Insert
<1>2. /\ call[c] \in Call /\ call[c].of \in Projects /\ CallShape(call[c]) /\ CreatesAlone(c)
      /\ call[c].kind = "own" /\ call \in [Calls -> Call] /\ row \in [Projects -> Row]
  BY <1>1, AtWork DEF InstInv, InstancesType, CallInv
<1> PICK q \in Projects : q = call[c].of BY <1>2
<1> DEFINE f == [NoRow.st EXCEPT !["own"] = IF call[c].resume THEN "ready" ELSE "pending"]
           g == [NoRow.port EXCEPT !["own"] = call[c].port]
           r == [NoRow EXCEPT !.there = TRUE, !.port = g, !.st = f]
<1>3. row' = [row EXCEPT ![q] = r] BY DEF Insert
<1>4. /\ f["own"] = (IF call[c].resume THEN "ready" ELSE "pending") /\ g["own"] = call[c].port
      /\ \A k \in Kinds \ {"own"} : f[k] = "none"
  BY DEF NoRow, Kinds
<1> HIDE DEF f, g
<1>5. r.there = TRUE /\ r.st = f /\ r.port = g /\ r.hostReady = FALSE BY DEF NoRow
<1> HIDE DEF r
<1>6. /\ row'[q].there /\ row'[q].st = f /\ row'[q].port = g /\ ~row'[q].hostReady
      /\ \A p \in Projects \ {q} : row'[p] = row[p]
  BY <1>2, <1>3, <1>5
<1>7. IF call[c].resume THEN Ends(c) ELSE Goes(c, "enqueue") BY DEF Insert
<1>8. /\ \A d \in Calls \ {c} : call'[d] = call[d]
      /\ call'[c] = Free \/ /\ call'[c].kind = "own" /\ call'[c].of = q /\ call'[c].pc = "enqueue"
                            /\ ~call'[c].resume
  BY <1>2, <1>7, CallEnds DEF Goes, Call
<1>9. CallShape(call[c])' /\ CreatesAlone(c)' /\ call'[c].of \in {q, NoProject} /\ call'[c].kind # "connected"
  BY <1>1, <1>2, <1>8 DEF CallShape, CreatesAlone, Creating, Free
<1>10. Jobs' = Jobs /\ queue' = queue BY <1>1 DEF Jobs, jobs
<1>11. (\A d \in Calls \ {c} : call[d].of # q) /\ \A j \in Jobs' : j.of # q
  BY <1>1, <1>2, <1>10 DEF CreatesAlone, Creating
<1>12. Inst("own", q)' = Inst("own", q) /\ Namesakes(q)' = Namesakes(q) BY <1>1 DEF Inst, Namesakes
<1>13. OwnTrue(q)'
  <2>1. call[c].resume /\ Namesakes(q) = {} => Stands("own", q, call[c].port)
    BY <1>1, <1>2 DEF CreatesAlone, Creating
  <2>2. call[c].resume /\ Namesakes(q) = {} => IsThere("own", q)' BY <1>1, <1>4, <1>6, <1>12, <2>1 DEF IsThere, Stands
  <2> QED BY <1>4, <1>6, <1>11, <1>12, <2>2 DEF OwnTrue
<1>14. RestoredTrue(q)' BY <1>4, <1>6, <1>11 DEF RestoredTrue, Kinds
<1>15. ConnTrue(q)'
  <2>1. \A d \in Calls : ~Connects(d, q)' BY <1>8, <1>9, <1>11 DEF Connects
  <2>2. row'[q].st["connected"] = "none" BY <1>4, <1>6 DEF Kinds
  <2> QED BY <1>6, <1>11, <2>1, <2>2 DEF ConnTrue
<1>16. \A k \in Shown : Part(k, q)' BY <1>13, <1>14, <1>15 DEF Part, Shown
<1>17. RowShape(q)' /\ \A n \in DOMAIN queue' : queue'[n].pc = "waiting" BY <1>6, <1>10 DEF TruthInv, RowShape
<1>18. \A p \in Projects \ {q} : <<"own", p>> \in overlooked => <<"own", p>> \in overlooked' BY DEF Insert
<1>19. \A d \in Calls \ {c} : call[d].of = q => ~Creating(call[d]) BY <1>11
<1>20. \A i \in Insts : Steady(i) BY <1>1, StillSteady
<1> QED BY <1>1, <1>6, <1>8, <1>9, <1>10, <1>16, <1>17, <1>18, <1>19, <1>20, RequestMoves

\* What an update writes on a row that is there.
LEMMA Updated ==
    ASSUME row \in [Projects -> Row], NEW c \in Calls, Update(c), NEW k \in Kinds, NEW q \in Projects,
           call[c].kind = k, call[c].of = q, call[c].resume \in BOOLEAN, row[q].there
    PROVE  /\ \A p \in Projects \ {q} : row'[p] = row[p]
           /\ row'[q].there /\ row'[q].hostReady = (row[q].hostReady /\ (k = "connected" => call[c].resume))
           /\ row'[q].st[k] = "pending" /\ row'[q].port[k] = call[c].port
           /\ \A j \in Kinds \ {k} : row'[q].st[j] = row[q].st[j] /\ row'[q].port[j] = row[q].port[j]
<1> DEFINE f == [row[q].st EXCEPT ![k] = "pending"]
           g == [row[q].port EXCEPT ![k] = call[c].port]
           b == row[q].hostReady /\ (k = "connected" => call[c].resume)
           r == [row[q] EXCEPT !.st = f, !.port = g, !.hostReady = b]
<1>1. row[q] \in Row /\ row[q].st \in [Kinds -> Statuses] /\ row[q].port \in [Kinds -> Ports \cup {NoPort}]
  BY DEF Row
<1>2. row' = [row EXCEPT ![q] = r] BY <1>1 DEF Update, Row
<1>3. /\ f[k] = "pending" /\ g[k] = call[c].port
      /\ \A j \in Kinds \ {k} : f[j] = row[q].st[j] /\ g[j] = row[q].port[j]
  BY <1>1
<1> HIDE DEF f, g, b
<1>4. r.there = row[q].there /\ r.st = f /\ r.port = g /\ r.hostReady = b BY <1>1 DEF Row
<1> HIDE DEF r
<1>5. row'[q] = r /\ \A p \in Projects \ {q} : row'[p] = row[p] BY <1>2
<1> QED BY <1>3, <1>4, <1>5 DEF b


\* The kinds that an update is not for stay as they are.
LEMMA UpdateTells == ASSUME InstInv, TruthInv, NEW c \in Calls, Update(c) PROVE TruthInv'
<1>1. call[c].pc = "update" /\ UNCHANGED <<given, jobs, host, overtaken>> /\ Goes(c, "enqueue") BY DEF Update
<1>2. /\ call[c] \in Call /\ call[c].of \in Projects /\ CallShape(call[c]) /\ call[c].kind \in Kinds
      /\ call \in [Calls -> Call] /\ row \in [Projects -> Row] /\ call[c].resume \in BOOLEAN
  BY <1>1, AtWork DEF InstInv, InstancesType, CallInv, Call
<1> PICK q \in Projects, k \in Kinds : q = call[c].of /\ k = call[c].kind BY <1>2
<1>3. k # "own" BY <1>1, <1>2 DEF CallShape
<1>4. /\ call'[c].pc = "enqueue" /\ call'[c].kind = k /\ call'[c].of = q /\ call'[c].resume = call[c].resume
      /\ call'[c].port = call[c].port /\ \A d \in Calls \ {c} : call'[d] = call[d]
  BY <1>1, <1>2 DEF Goes, Call
<1>5. CallShape(call[c])' /\ CreatesAlone(c)' BY <1>3, <1>4 DEF CallShape, CreatesAlone, Creating, Kinds
<1>6. Jobs' = Jobs /\ queue' = queue BY <1>1 DEF Jobs, jobs
<1>7. \A p \in Projects : <<"own", p>> \in overlooked => <<"own", p>> \in overlooked' BY <1>3 DEF Update
<1>8. ~row[q].there => row' = row BY DEF Update
<1>9. row[q].there =>
        /\ \A p \in Projects \ {q} : row'[p] = row[p]
        /\ row'[q].there /\ row'[q].hostReady = (row[q].hostReady /\ (k = "connected" => call[c].resume))
        /\ row'[q].st[k] = "pending" /\ row'[q].port[k] = call[c].port
        /\ \A j \in Kinds \ {k} : row'[q].st[j] = row[q].st[j] /\ row'[q].port[j] = row[q].port[j]
  BY <1>2, Updated
<1>10. \A p \in Projects \ {q} : row'[p] = row[p] BY <1>8, <1>9
<1>11. row'[q].there = row[q].there /\ row[q].there \in BOOLEAN BY <1>2, <1>8, <1>9 DEF Row
<1>12. RowShape(q)'
  <2>1. RowShape(q) BY DEF TruthInv
  <2> QED BY <1>8, <1>9, <2>1 DEF RowShape
<1>13. ASSUME NEW j \in Shown, j # k PROVE Part(j, q)'
  <2>1. Part(j, q) /\ j \in Kinds BY DEF TruthInv, Shown, Kinds
  <2>2. /\ row'[q].st[j] = row[q].st[j] /\ row'[q].port[j] = row[q].port[j]
        /\ j = "connected" => row'[q].hostReady = row[q].hostReady
    <3>1. row[q].hostReady \in BOOLEAN BY <1>2 DEF Row
    <3> QED BY <1>8, <1>9, <1>11, <1>13, <2>1, <3>1
  <2>3. Torn(q) => Torn(q)' BY <1>1, <1>4, <1>7 DEF Torn
  <2>4. j = "connected" => \A d \in Calls : Connects(d, q)' => call'[d] = call[d] BY <1>4, <1>13 DEF Connects
  <2>5. Steady(Inst(j, q)) BY <1>1, NamesOfInstances, StillSteady DEF InstInv, Shown
  <2> QED BY <1>1, <1>6, <1>11, <2>1, <2>2, <2>3, <2>4, <2>5, PartStays
<1>14. k = "restored" => RestoredTrue(q)'
  <2> SUFFICES ASSUME k = "restored" PROVE RestoredTrue(q)' OBVIOUS
  <2>1. RestoredTrue(q) /\ Inst("restored", q)' = Inst("restored", q) BY DEF TruthInv, Part, Shown, Inst
  <2>2. \A j \in Jobs' : j.kind = "restored" /\ j.of = q => RestoredJob(j, q)'
    BY <1>1, <1>6, <2>1 DEF RestoredTrue, RestoredJob, Stands
  <2>3. row'[q].st["restored"] # "ready"
    <3>1. RowShape(q) BY DEF TruthInv
    <3> QED BY <1>8, <1>9, <1>11, <3>1 DEF RowShape
  <2> QED BY <2>2, <2>3 DEF RestoredTrue
<1>15. k = "connected" => ConnTrue(q)'
  <2> SUFFICES ASSUME k = "connected", row[q].there, <<"connected", q>> \notin overtaken PROVE ConnTrue(q)'
    BY <1>1, <1>11 DEF ConnTrue
  <2>1. ConnTrue(q) /\ Connects(c, q) BY DEF TruthInv, Part, Shown, Connects
  <2>2. ConnCall(call[c], q) BY <2>1 DEF ConnTrue
  <2>3. \A d \in Calls : Connects(d, q)' => d = c BY <1>4, <2>1 DEF ConnTrue, Connects
  <2>4. row'[q].st["connected"] = "pending" /\ row'[q].port["connected"] = call[c].port BY <1>9
  <2>5. row'[q].hostReady = row[q].hostReady /\ (row[q].hostReady => call[c].resume)
    <3>1. row[q].hostReady \in BOOLEAN BY <1>2 DEF Row
    <3> QED BY <1>9, <2>2, <3>1 DEF ConnCall
  <2>6. row'[q].hostReady => IsThere("connected", q)'
    <3>1. row[q].hostReady => row'[q].port["connected"] = row[q].port["connected"] BY <2>2, <2>4, <2>5 DEF ConnCall
    <3> QED BY <1>1, <2>1, <2>5, <3>1 DEF ConnTrue, IsThere, Stands, Inst
  <2>7. \A j \in Jobs' : j.kind = "connected" => j.of # q BY <1>6, <2>2 DEF ConnCall
  <2>8. ConnCall(call[c], q)' BY <1>2, <1>4, <2>2, <2>4, <2>5, <2>7 DEF ConnCall
  <2> QED BY <2>3, <2>4, <2>6, <2>7, <2>8 DEF ConnTrue
<1>16. ASSUME NEW j \in Shown PROVE Part(j, q)'
  <2>1. CASE j # k BY <1>13, <2>1
  <2>2. CASE j = k BY <1>3, <1>14, <1>15, <2>2 DEF Part, Shown
  <2> QED BY <2>1, <2>2
<1>17. \A n \in DOMAIN queue' : queue'[n].pc = "waiting" BY <1>6 DEF TruthInv
<1>18. \A d \in Calls \ {c} : call[d].of = q => ~Creating(call[d]) BY CreatedAlone
<1>19. \A i \in Insts : Steady(i) BY <1>1, StillSteady
<1> QED BY <1>1, <1>4, <1>5, <1>6, <1>7, <1>10, <1>12, <1>16, <1>17, <1>18, <1>19, RequestMoves

\* The job of a request: one to build goes with the row's port, one to resume with what is up.
LEMMA EnqueueTells == ASSUME InstInv, TruthInv, NEW c \in Calls, Enqueue(c) PROVE TruthInv'
<1>1. call[c].pc = "enqueue" /\ UNCHANGED <<given, host, overtaken>> /\ Ends(c) BY DEF Enqueue
<1>2. /\ call[c] \in Call /\ call[c].of \in Projects /\ CallShape(call[c]) /\ call[c].kind \in Kinds
      /\ call \in [Calls -> Call] /\ row \in [Projects -> Row] /\ queue \in Seq(Job)
  BY <1>1, AtWork DEF InstInv, InstancesType, CallInv
<1> PICK q \in Projects, k \in Kinds : q = call[c].of /\ k = call[c].kind BY <1>2
<1> PICK new : new = JobOf(c) OBVIOUS
<1>3. /\ new.kind = k /\ new.of = q /\ new.inst = Target(k, q) /\ new.port = call[c].port
      /\ new.resume = call[c].resume /\ new.pc = "waiting"
  BY DEF JobOf
<1>4. JobShape(new) BY <1>1, <1>2, <1>3 DEF JobShape, CallShape
<1>5. call'[c] = Free /\ \A d \in Calls \ {c} : call'[d] = call[d] BY <1>1, <1>2, CallEnds
<1>6. CallShape(call[c])' /\ CreatesAlone(c)' /\ call'[c].of = NoProject
  BY <1>5 DEF CallShape, CreatesAlone, Creating, Free
<1>7. working' = working /\ (queue' = queue \/ queue' = Append(queue, new)) BY DEF Enqueue, Enqueued, jobs
<1>8. \A n \in DOMAIN queue' : queue'[n] = new \/ \E m \in DOMAIN queue : queue'[n] = queue[m] BY <1>2, <1>7
<1>9. \A j \in Jobs' : j \in Jobs \/ j = new BY <1>7, <1>8 DEF Jobs
<1>10. \A n \in DOMAIN queue' : queue'[n].pc = "waiting" BY <1>3, <1>8 DEF TruthInv
<1>11. overlooked \subseteq overlooked' BY DEF Enqueue, Enqueued
<1>12. row' = row \/ (k = "restored" /\ SetStatus(k, q, "failed")) BY DEF Enqueue
<1>13. /\ \A p \in Projects \ {q} : row'[p] = row[p]
       /\ row'[q].there = row[q].there /\ row'[q].port = row[q].port /\ row'[q].hostReady = row[q].hostReady
       /\ \A j \in Kinds : row'[q].st[j] = row[q].st[j] \/ (j = "restored" /\ row[q].there /\ row'[q].st[j] = "failed")
  BY <1>2, <1>12, StatusAlone DEF Statuses
<1>14. RowShape(q)'
  <2>1. RowShape(q) BY DEF TruthInv
  <2> QED BY <1>13, <2>1 DEF RowShape
<1>15. Torn(q) => Torn(q)'
  <2>1. \A d \in Calls : call[d].pc = "remove" => d # c BY <1>1
  <2> QED BY <1>1, <1>5, <1>11, <2>1 DEF Torn
<1>16. OwnTrue(q)'
  <2>1. OwnTrue(q) BY DEF TruthInv, Part, Shown
  <2>2. Inst("own", q)' = Inst("own", q) /\ Namesakes(q)' = Namesakes(q) BY <1>1 DEF Inst, Namesakes
  <2> SUFFICES ASSUME Namesakes(q) = {} PROVE OwnTrue(q)' BY <2>2 DEF OwnTrue
  <2>3. row'[q].st["own"] = row[q].st["own"] BY <1>13 DEF Kinds
  <2>4. IsThere("own", q)' = IsThere("own", q) BY <1>1, <1>13, <2>2 DEF IsThere, Stands
  <2>5. ASSUME NEW j \in Jobs', j.kind = "own", j.of = q PROVE OwnJob(j, q)'
    <3>1. j # new => OwnJob(j, q) BY <1>9, <2>1, <2>5 DEF OwnTrue
    <3> QED BY <1>1, <1>3, <1>13, <1>15, <2>2, <3>1 DEF OwnJob, Stands
  <2> QED BY <1>15, <2>1, <2>3, <2>4, <2>5 DEF OwnTrue
<1>17. RestoredTrue(q)'
  <2>1. RestoredTrue(q) /\ Inst("restored", q)' = Inst("restored", q) BY <1>1 DEF TruthInv, Part, Shown, Inst
  <2>2. row'[q].st["restored"] = "ready" => row[q].st["restored"] = "ready" BY <1>13 DEF Kinds
  <2>3. IsThere("restored", q)' = IsThere("restored", q) BY <1>1, <1>13, <2>1 DEF IsThere, Stands
  <2>4. \A j \in Jobs' : j.kind = "restored" /\ j.of = q => RestoredJob(j, q)'
    BY <1>1, <1>3, <1>9, <2>1 DEF RestoredTrue, RestoredJob, Stands
  <2> QED BY <2>1, <2>2, <2>3, <2>4 DEF RestoredTrue
<1>18. ConnTrue(q)'
  <2> SUFFICES ASSUME row[q].there, <<"connected", q>> \notin overtaken PROVE ConnTrue(q)' BY <1>1, <1>13 DEF ConnTrue
  <2>1. ConnTrue(q) BY DEF TruthInv, Part, Shown
  <2>2. IsThere("connected", q)' = IsThere("connected", q) BY <1>1, <1>13 DEF IsThere, Stands, Inst
  <2>3. row'[q].st["connected"] = row[q].st["connected"] BY <1>13 DEF Kinds
  <2>4. \A d \in Calls : Connects(d, q)' => d # c /\ Connects(d, q) /\ call'[d] = call[d]
    BY <1>5 DEF Connects, Free
  <2>5. k = "connected" => ConnJob(new, q)
    <3> SUFFICES ASSUME k = "connected" PROVE ConnJob(new, q) OBVIOUS
    <3>1. ConnCall(call[c], q) BY <2>1 DEF ConnTrue, Connects
    <3> QED BY <1>1, <1>3, <3>1 DEF ConnJob, ConnCall
  <2>6. ASSUME NEW j \in Jobs', j.kind = "connected", j.of = q PROVE ConnJob(j, q)'
    <3>1. CASE j = new BY <1>3, <1>13, <2>2, <2>3, <2>5, <2>6, <3>1 DEF ConnJob
    <3>2. CASE j # new
      <4>1. ConnJob(j, q) BY <1>9, <2>1, <2>6, <3>2 DEF ConnTrue
      <4> QED BY <1>13, <2>2, <2>3, <4>1 DEF ConnJob
    <3> QED BY <3>1, <3>2
  <2>7. ASSUME NEW d \in Calls, Connects(d, q)' PROVE ConnCall(call[d], q)'
    <3>1. call'[d] = call[d] /\ d # c /\ ConnCall(call[d], q) BY <2>1, <2>4, <2>7 DEF ConnTrue
    <3>2. k # "connected" BY <2>1, <2>4, <2>7, <3>1 DEF ConnTrue, Connects
    <3>3. \A j \in Jobs' : j.kind = "connected" => j.of # q BY <1>3, <1>9, <3>1, <3>2 DEF ConnCall
    <3> QED BY <1>13, <2>3, <3>1, <3>3 DEF ConnCall
  <2>8. \A d, e \in Calls : Connects(d, q)' /\ Connects(e, q)' => d = e BY <2>1, <2>4 DEF ConnTrue
  <2> QED BY <1>13, <2>1, <2>2, <2>3, <2>6, <2>7, <2>8 DEF ConnTrue
<1>19. \A j \in Shown : Part(j, q)' BY <1>16, <1>17, <1>18 DEF Part, Shown
<1>20. \A d \in Calls \ {c} : call[d].of = q => ~Creating(call[d]) BY CreatedAlone
<1>21. \A j \in Jobs' : j \in Jobs \/ (j.of = q /\ JobShape(j)) BY <1>3, <1>4, <1>9
<1>22. \A i \in Insts : Steady(i) BY <1>1, StillSteady
<1> QED BY <1>1, <1>5, <1>6, <1>10, <1>11, <1>13, <1>14, <1>19, <1>20, <1>21, <1>22, RequestMoves


\* Every request is gone: one that had torn an instance down is noted.
LEMMA ApiDiesTells == ASSUME InstInv, TruthInv, ApiDies PROVE TruthInv'
<1>1. UNCHANGED <<given, row, jobs, host, overtaken>> /\ \A c \in Calls : call'[c] = Free BY DEF ApiDies
<1>2. Jobs' = Jobs /\ queue' = queue BY <1>1 DEF Jobs, jobs
<1>3. \A j \in Jobs' : JobShape(j)' BY <1>1, <1>2 DEF TruthInv, JobShape, Target, Inst
<1>4. ASSUME NEW c \in Calls PROVE CallShape(call[c])' /\ CreatesAlone(c)'
  <2>1. call'[c] = Free BY <1>1
  <2> QED BY <2>1 DEF CallShape, CreatesAlone, Creating, Free
<1>5. \A p \in Projects : RowShape(p)' BY <1>1 DEF TruthInv, RowShape
<1>6. ASSUME NEW p \in Projects, Torn(p) PROVE Torn(p)'
  <2>1. CASE <<"own", p>> \in overlooked BY <2>1 DEF ApiDies, Torn
  <2>2. ASSUME NEW c \in Calls, given.type[p] = "ai", call[c].of = p, call[c].pc = "remove" PROVE Torn(p)'
    BY <2>2 DEF ApiDies, Torn
  <2> QED BY <1>6, <2>1, <2>2 DEF Torn
<1>7. ASSUME NEW k \in Shown, NEW p \in Projects PROVE Part(k, p)'
  <2>1. Part(k, p) BY DEF TruthInv
  <2>2. \A c \in Calls : ~Connects(c, p)' BY <1>1 DEF Connects, Free
  <2>3. Steady(Inst(k, p)) BY <1>1, NamesOfInstances, StillSteady DEF InstInv, Shown
  <2> QED BY <1>1, <1>2, <1>6, <2>1, <2>2, <2>3, PartStays
<1> QED BY <1>2, <1>3, <1>4, <1>5, <1>7 DEF TruthInv

\* Scripts that go on, or nothing.
LEMMA InstancesStayTells ==
    ASSUME InstInv, TruthInv, UNCHANGED <<given, row, call, jobs, overlooked, overtaken>>,
           \A i \in Insts : Steady(i)
    PROVE  TruthInv'
<1>1. Jobs' = Jobs /\ queue' = queue BY DEF Jobs, jobs
<1>2. \A j \in Jobs' : JobShape(j)' BY <1>1 DEF TruthInv, JobShape, Target, Inst
<1>3. ASSUME NEW c \in Calls PROVE CallShape(call[c])' /\ CreatesAlone(c)'
  <2>1. CallShape(call[c])' BY DEF TruthInv, CallShape
  <2>2. ASSUME Creating(call[c]) PROVE CreatesAlone(c)'
    <3>1. call[c].of \in Projects
      <4>1. call[c].pc # "idle" BY <2>2 DEF Creating, TruthInv, CallShape, Free
      <4> QED BY <4>1 DEF InstInv, CallInv
    <3>2. Steady(Inst("own", call[c].of)) BY <3>1, NamesOfInstances DEF InstInv
    <3> QED BY <1>1, <3>1, <3>2, CreationStays
  <2> QED BY <2>1, <2>2 DEF CreatesAlone
<1>4. \A p \in Projects : RowShape(p)' BY DEF TruthInv, RowShape
<1>5. ASSUME NEW k \in Shown, NEW p \in Projects PROVE Part(k, p)'
  <2>1. Part(k, p) /\ (Torn(p) => Torn(p)') BY DEF TruthInv, Torn
  <2>2. Steady(Inst(k, p)) BY NamesOfInstances DEF InstInv, Shown
  <2> QED BY <1>1, <2>1, <2>2, PartStays
<1> QED BY <1>1, <1>2, <1>3, <1>4, <1>5 DEF TruthInv

LEMMA GoesOnTells == ASSUME InstInv, TruthInv, NEW i \in Insts, GoesOn(i) PROVE TruthInv'
<1>1. UNCHANGED <<given, row, call, jobs, overlooked, overtaken>> /\ host[i].st \in {"half", "down"}
  BY DEF GoesOn
<1>2. host \in [Insts -> Instance] BY DEF InstInv, InstancesType
<1>3. \A e \in Insts : Steady(e)
  <2> TAKE e \in Insts
  <2>1. CASE e # i BY <1>2, <2>1 DEF GoesOn, CleansUp, Steady
  <2>2. CASE e = i /\ host' = [host EXCEPT ![i].st = "up"]
    <3>1. host[i] \in Instance /\ host'[i] = [host[i] EXCEPT !.st = "up"] BY <1>2, <2>2
    <3> QED BY <2>2, <3>1 DEF Steady, Instance
  <2>3. CASE e = i /\ host[i].st = "half" BY <2>3 DEF Steady
  <2> QED BY <2>1, <2>2, <2>3 DEF GoesOn
<1> QED BY <1>1, <1>3, InstancesStayTells

-----------------------------------------------------------------------------
(* A unit that is down.                                                     *)

\* No unit stops.
NoneStops == \A i \in Insts : host'[i].st = "down" => host[i].st = "down" /\ host'[i].of = host[i].of

LEMMA CreatedOf == ASSUME InstInv, TruthInv, NEW c \in Calls, Creating(call[c]) PROVE call[c].of \in Projects
<1>1. call[c].pc # "idle" BY DEF Creating, TruthInv, CallShape, Free
<1> QED BY <1>1 DEF InstInv, CallInv

\* Where the unit of a project's instance is down it was down before.
LEMMA LaidBefore ==
    ASSUME InstInv, given' = given, NEW k \in Shown, NEW p \in Projects,
           host'[Inst(k, p)].st = "down" =>
               host[Inst(k, p)].st = "down" /\ host'[Inst(k, p)].of = host[Inst(k, p)].of,
           Lies(k, p)'
    PROVE  Lies(k, p)
<1>1. Inst(k, p)' = Inst(k, p) /\ Namesakes(p)' = Namesakes(p) BY DEF Inst, Namesakes
<1> QED BY <1>1 DEF Lies, Alone

LEMMA StandStays ==
    ASSUME InstInv, TruthInv, StandInv, given' = given, NoneStops, Unstarted',
           \A p \in Projects : Falters(p) => Falters(p)' \/ \A k \in Shown : ~Lies(k, p)',
           \A c \in Calls : Creating(call[c])' =>
               (Creating(call[c]) /\ call'[c].of = call[c].of) \/ ~Lies("own", call[c].of)'
    PROVE  StandInv'
<1>1. ASSUME NEW k \in Shown, NEW p \in Projects, Lies(k, p)' PROVE Lies(k, p)
  <2>1. Inst(k, p) \in Insts BY NamesOfInstances DEF InstInv, Shown
  <2> QED BY <1>1, <2>1, LaidBefore DEF NoneStops
<1>2. ASSUME NEW k \in Shown, NEW p \in Projects, Lies(k, p)'
      PROVE  (Falters(p) /\ Target("restart", p) = Inst(k, p))'
  <2>1. Falters(p) /\ Target("restart", p) = Inst(k, p) BY <1>1, <1>2 DEF StandInv
  <2>2. (Target("restart", p) = Inst(k, p))' BY <2>1 DEF Target, Inst
  <2> QED BY <1>2, <2>1, <2>2
<1>3. ASSUME NEW c \in Calls, Creating(call[c])', Lies("own", call[c].of)' PROVE FALSE
  <2>1. Creating(call[c]) /\ call'[c].of = call[c].of BY <1>3
  <2>2. call[c].of \in Projects BY <2>1, CreatedOf
  <2> PICK p \in Projects : p = call[c].of BY <2>2
  <2>3. Lies("own", p)' BY <1>3, <2>1
  <2>4. Lies("own", p) BY <1>1, <2>3 DEF Shown
  <2> QED BY <2>1, <2>4 DEF StandInv
<1> QED BY <1>2, <1>3 DEF StandInv

\* Nothing of that changes but what is on the host.
LEMMA FaltersStill ==
    ASSUME NEW p \in Projects, row'[p].there = row[p].there,
           row'[p].st["restart"] = row[p].st["restart"],
           <<"restart", p>> \in overlooked => <<"restart", p>> \in overlooked',
           \A j \in Jobs : j.kind = "restart" /\ j.of = p /\ j.pc # "finish" =>
               \E i \in Jobs' : i.kind = "restart" /\ i.of = p /\ i.pc # "finish",
           Falters(p)
    PROVE  Falters(p)'
BY DEF Falters

\* A step of a job that builds.
LEMMA BuilderStands ==
    ASSUME InstInv, TruthInv, StandInv, working # NoJob, SameOtherwise, working.kind # "restart",
           \A p \in Projects : row'[p].there = row[p].there /\ row'[p].st["restart"] = row[p].st["restart"],
           NoneStops, Unstarted'
    PROVE  StandInv'
<1>1. given' = given /\ call' = call /\ overlooked' = overlooked /\ queue' = queue BY DEF SameOtherwise
<1>2. \A j \in Jobs : j.kind = "restart" => j \in Jobs' BY <1>1 DEF Jobs
<1>3. \A p \in Projects : Falters(p) => Falters(p)' BY <1>1, <1>2, FaltersStill
<1> QED BY <1>1, <1>3, StandStays

\* The outcome of a job that builds is written.
LEMMA OutcomeStands ==
    ASSUME InstInv, TruthInv, StandInv, working # NoJob, SameOtherwise, working.kind # "restart",
           NEW s \in Statuses, Outcome(s), NoneStops
    PROVE  StandInv'
<1>1. /\ working \in Job /\ working.kind \in Kinds /\ working.of \in Projects /\ row \in [Projects -> Row]
  BY WorkingShape DEF InstInv, InstancesType
<1> PICK p \in Projects, k \in Kinds : p = working.of /\ k = working.kind BY <1>1
<1>2. SetStatus(k, p, s) /\ Then("finish") BY DEF Outcome
<1>3. \A q \in Projects : row'[q].there = row[q].there /\ row'[q].st["restart"] = row[q].st["restart"]
  <2>1. /\ \A q \in Projects \ {p} : row'[q] = row[q]
        /\ row'[p].there = row[p].there
        /\ \A j \in Kinds : row'[p].st[j] = IF j = k /\ row[p].there THEN s ELSE row[p].st[j]
    BY <1>1, <1>2, StatusAlone
  <2>2. "restart" \in Kinds BY DEF Kinds
  <2> QED BY <2>1, <2>2
<1>4. working'.pc = "finish" BY <1>1, <1>2 DEF Then, Job
<1>5. Unstarted' BY <1>4 DEF Unstarted, At
<1> QED BY <1>3, <1>5, BuilderStands

LEMMA NoneStopsAnew == ASSUME host' = host PROVE NoneStops
BY DEF NoneStops

LEMMA AllocateInJobStands == ASSUME InstInv, TruthInv, StandInv, AllocateInJob PROVE StandInv'
<1>1. working # NoJob /\ working.pc = "allocate" /\ SameOtherwise /\ host' = host BY DEF AllocateInJob, At
<1>2. working \in Job /\ working.kind = "restored" BY <1>1, WorkingShape DEF JobShape
<1>3. CASE Outcome("failed") BY <1>1, <1>2, <1>3, NoneStopsAnew, OutcomeStands DEF Statuses
<1>4. CASE (\E n \in Allocated("restored") : working' = [working EXCEPT !.port = n, !.pc = "build"]) /\ UNCHANGED row
  <2>1. working'.pc = "build" BY <1>2, <1>4 DEF Job
  <2>2. Unstarted' BY <2>1 DEF Unstarted, At
  <2> QED BY <1>1, <1>2, <1>4, <2>2, NoneStopsAnew, BuilderStands
<1> QED BY <1>3, <1>4 DEF AllocateInJob

LEMMA BuildStands == ASSUME InstInv, TruthInv, StandInv, Build PROVE StandInv'
<1>1. working # NoJob /\ working.pc = "build" /\ SameOtherwise BY DEF Build, At
<1>2. /\ working \in Job /\ working.kind # "restart" /\ working.inst \in Insts /\ host \in [Insts -> Instance]
  BY <1>1, WorkingShape DEF JobShape, InstInv, InstancesType
<1>3. CASE Builds(working.inst, working.port, working.of) /\ Then("start") /\ UNCHANGED row
  <2>1. working'.inst = working.inst BY <1>2, <1>3 DEF Then, Job
  <2>2. host'[working.inst].st = "half" /\ \A i \in Insts \ {working.inst} : host'[i] = host[i]
    BY <1>2, <1>3 DEF Builds, Half
  <2>3. NoneStops BY <2>2 DEF NoneStops
  <2>4. Unstarted' BY <2>1, <2>2 DEF Unstarted
  <2> QED BY <1>1, <1>2, <1>3, <2>3, <2>4, BuilderStands
<1>4. CASE Outcome("failed") /\ UNCHANGED host BY <1>1, <1>2, <1>4, NoneStopsAnew, OutcomeStands DEF Statuses
<1> QED BY <1>3, <1>4 DEF Build

LEMMA StartStands == ASSUME InstInv, TruthInv, StandInv, Start PROVE StandInv'
<1>1. working # NoJob /\ working.pc = "start" /\ SameOtherwise BY DEF Start, At
<1>2. /\ working \in Job /\ working.kind # "restart" /\ working.inst \in Insts /\ host \in [Insts -> Instance]
  BY <1>1, WorkingShape DEF JobShape, InstInv, InstancesType
<1>3. CASE /\ Starts(working.inst, working.port, working.of)
           /\ Then(IF working.kind = "restored" THEN "record" ELSE "grant") /\ UNCHANGED <<row, left>>
  <2>1. working'.pc # "start" BY <1>2, <1>3 DEF Then, Job
  <2>2. host'[working.inst].st = "up" /\ \A i \in Insts \ {working.inst} : host'[i] = host[i]
    BY <1>2, <1>3 DEF Starts, Up
  <2>3. NoneStops BY <2>2 DEF NoneStops
  <2>4. Unstarted' BY <2>1 DEF Unstarted, At
  <2> QED BY <1>1, <1>2, <1>3, <2>3, <2>4, BuilderStands
<1>4. CASE CleansUp(working.inst) /\ Outcome("failed")
  <2>1. host'[working.inst].st = "none" /\ \A i \in Insts \ {working.inst} : host'[i] = host[i]
    BY <1>2, <1>4 DEF CleansUp, Nothing
  <2>2. NoneStops BY <2>1 DEF NoneStops
  <2> QED BY <1>1, <1>2, <1>4, <2>2, OutcomeStands DEF Statuses
<1>5. CASE Outcome("failed") /\ UNCHANGED host BY <1>1, <1>2, <1>5, NoneStopsAnew, OutcomeStands DEF Statuses
<1> QED BY <1>3, <1>4, <1>5 DEF Start

LEMMA GrantStands == ASSUME InstInv, TruthInv, StandInv, Grant PROVE StandInv'
<1>1. working # NoJob /\ working.pc = "grant" /\ SameOtherwise /\ host' = host BY DEF Grant, At
<1>2. working \in Job /\ working.kind # "restart" BY <1>1, WorkingShape DEF JobShape
<1>3. CASE Then(IF working.kind = "own" THEN "record" ELSE "mark") /\ UNCHANGED row
  <2>1. working'.pc # "start" BY <1>2, <1>3 DEF Then, Job
  <2>2. Unstarted' BY <2>1 DEF Unstarted, At
  <2> QED BY <1>1, <1>2, <1>3, <2>2, NoneStopsAnew, BuilderStands
<1>4. CASE Outcome("failed") BY <1>1, <1>2, <1>4, NoneStopsAnew, OutcomeStands DEF Statuses
<1> QED BY <1>3, <1>4 DEF Grant

LEMMA SecureStands == ASSUME InstInv, TruthInv, StandInv, Secure PROVE StandInv'
<1>1. working # NoJob /\ working.pc = "secure" /\ SameOtherwise /\ host' = host BY DEF Secure, At
<1>2. working \in Job /\ working.kind # "restart" BY <1>1, WorkingShape DEF JobShape
<1>3. CASE Then("record") /\ UNCHANGED row
  <2>1. working'.pc # "start" BY <1>2, <1>3 DEF Then, Job
  <2>2. Unstarted' BY <2>1 DEF Unstarted, At
  <2> QED BY <1>1, <1>2, <1>3, <2>2, NoneStopsAnew, BuilderStands
<1>4. CASE Outcome("failed") BY <1>1, <1>2, <1>4, NoneStopsAnew, OutcomeStands DEF Statuses
<1> QED BY <1>3, <1>4 DEF Secure

LEMMA MarkHostReadyStands == ASSUME InstInv, TruthInv, StandInv, MarkHostReady PROVE StandInv'
<1>1. working # NoJob /\ working.pc = "mark" /\ SameOtherwise /\ host' = host /\ Then("secure")
  BY DEF MarkHostReady, At
<1>2. /\ working \in Job /\ working.kind # "restart" /\ row \in [Projects -> Row]
  BY <1>1, WorkingShape DEF JobShape, InstInv, InstancesType
<1>3. row' = [row EXCEPT ![working.of].hostReady = row[working.of].there] BY DEF MarkHostReady
<1>4. \A p \in Projects : row'[p].there = row[p].there /\ row'[p].st["restart"] = row[p].st["restart"]
  <2> TAKE p \in Projects
  <2>1. row[p] \in Row /\ row'[p] \in {row[p], [row[p] EXCEPT !.hostReady = row[working.of].there]} BY <1>2, <1>3
  <2> QED BY <2>1 DEF Row
<1>5. working'.pc # "start" BY <1>1, <1>2 DEF Then, Job
<1>6. Unstarted' BY <1>5 DEF Unstarted, At
<1> QED BY <1>1, <1>2, <1>4, <1>6, NoneStopsAnew, BuilderStands

LEMMA RecordStands == ASSUME InstInv, TruthInv, StandInv, Record PROVE StandInv'
<1>1. working # NoJob /\ working.pc = "record" /\ SameOtherwise /\ host' = host /\ Then("finish")
  BY DEF Record, At
<1>2. /\ working \in Job /\ working.kind # "restart" /\ working.kind \in Kinds /\ working.of \in Projects
      /\ row \in [Projects -> Row]
  BY <1>1, WorkingShape DEF JobShape, InstInv, InstancesType
<1> PICK q \in Projects, k \in Kinds : q = working.of /\ k = working.kind BY <1>2
<1>3. \A p \in Projects : row'[p].there = row[p].there /\ row'[p].st["restart"] = row[p].st["restart"]
  <2> DEFINE f == [row[q].st EXCEPT ![k] = "ready"]
             g == [row[q].port EXCEPT ![k] = IF k = "connected" THEN @ ELSE working.port]
             r == [row[q] EXCEPT !.st = f, !.port = g]
  <2>1. row[q] \in Row BY <1>2
  <2>2. row[q].st \in [Kinds -> Statuses] BY <2>1 DEF Row
  <2>3. f["restart"] = row[q].st["restart"] BY <1>2, <2>2 DEF Kinds
  <2>4. row' = IF row[q].there THEN [row EXCEPT ![q] = r] ELSE row BY <1>2, <2>1 DEF Record, Row
  <2> HIDE DEF f, g
  <2>5. r.there = row[q].there /\ r.st = f BY <2>1 DEF Row
  <2> HIDE DEF r
  <2> QED BY <1>2, <2>3, <2>4, <2>5
<1>4. working'.pc # "start" BY <1>1, <1>2 DEF Then, Job
<1>5. Unstarted' BY <1>4 DEF Unstarted, At
<1> QED BY <1>1, <1>2, <1>3, <1>5, NoneStopsAnew, BuilderStands

\* What a restart is of.
LEMMA RestartOf ==
    ASSUME InstInv, TruthInv, working # NoJob, working.kind = "restart"
    PROVE  \E k \in {"own", "connected"}, p \in Projects : p = working.of /\ working.inst = Inst(k, p)
<1>1. working.of \in Projects /\ working.inst = Target("restart", working.of) BY WorkingShape DEF JobShape
<1> QED BY <1>1 DEF Target

\* The only unit that stops is that of the project whose restart has begun.
LEMMA RestartStands == ASSUME InstInv, TruthInv, StandInv, Restart PROVE StandInv'
<1>1. working # NoJob /\ working.pc = "run" /\ SameOtherwise BY DEF Restart, At
<1>2. /\ working \in Job /\ working \in Jobs /\ JobShape(working) /\ working.kind = "restart"
      /\ working.of \in Projects /\ row \in [Projects -> Row]
      /\ working.inst \in Insts /\ host \in [Insts -> Instance] /\ InstancesType
  BY <1>1, WorkingShape DEF JobShape, InstInv, InstancesType
<1> PICK k0 \in {"own", "connected"}, p0 \in Projects : p0 = working.of /\ working.inst = Inst(k0, p0)
  BY <1>1, <1>2, RestartOf
<1>3. given' = given /\ call' = call /\ overlooked' = overlooked /\ queue' = queue BY <1>1 DEF SameOtherwise
<1>4. CASE /\ Then("upgrade") /\ UNCHANGED row
           /\ host' = [host EXCEPT ![working.inst] = Stopped(host[working.inst])]
  <2>1. working'.kind = "restart" /\ working'.of = p0 /\ working'.pc = "upgrade" /\ working' # NoJob
    <3>1. [working EXCEPT !.pc = "upgrade"] \in Job BY <1>2 DEF Job
    <3> QED BY <1>2, <1>4, <3>1, NoJobAssumption DEF Then, Job
  <2> PICK next : next = working' OBVIOUS
  <2>2. next \in Jobs' /\ \A j \in Jobs : j \in Jobs' \/ j = working BY <1>3, <2>1 DEF Jobs
  <2>3. Falters(p0)' BY <2>1, <2>2 DEF Falters
  <2>4. ASSUME NEW p \in Projects, Falters(p) PROVE Falters(p)'
    <3>1. CASE p = p0 BY <2>3, <3>1
    <3>2. CASE p # p0
      <4>1. \A j \in Jobs : j.of = p => j \in Jobs' BY <2>2, <3>2
      <4> QED BY <1>3, <1>4, <2>4, <4>1, FaltersStill
    <3> QED BY <3>1, <3>2
  <2>5. ASSUME NEW k \in Shown, NEW p \in Projects, Lies(k, p)', k # k0 \/ p # p0 PROVE Lies(k, p)
    <3>1. Inst(k, p) \in Insts /\ Alone(k, p)
      BY <1>2, <1>3, <2>5, NamesOfInstances DEF Shown, Lies, Alone, Namesakes
    <3>2. k0 \in Shown /\ (k = "own" => Namesakes(p) = {}) BY <3>1 DEF Shown, Alone
    <3>3. Inst(k, p) # working.inst BY <1>2, <2>5, <3>2, Apart
    <3>4. host'[Inst(k, p)] = host[Inst(k, p)] BY <1>2, <1>4, <3>1, <3>3
    <3> QED BY <1>3, <2>5, <3>4, LaidBefore
  <2>6. ASSUME NEW k \in Shown, NEW p \in Projects, Lies(k, p)'
        PROVE  (Falters(p) /\ Target("restart", p) = Inst(k, p))'
    <3>1. CASE k = k0 /\ p = p0
      <4>1. Target("restart", p) = Inst(k, p) BY <1>2, <3>1 DEF JobShape
      <4>2. (Target("restart", p) = Inst(k, p))' BY <1>3, <4>1 DEF Target, Inst
      <4> QED BY <2>3, <3>1, <4>2
    <3>2. CASE k # k0 \/ p # p0
      <4>1. Falters(p) /\ Target("restart", p) = Inst(k, p) BY <2>5, <2>6, <3>2 DEF StandInv
      <4>2. (Target("restart", p) = Inst(k, p))' BY <1>3, <4>1 DEF Target, Inst
      <4> QED BY <2>4, <4>1, <4>2
    <3> QED BY <3>1, <3>2
  <2>7. ASSUME NEW c \in Calls, Creating(call[c])', Lies("own", call[c].of)' PROVE FALSE
    <3>1. Creating(call[c]) /\ call'[c].of = call[c].of BY <1>3, <2>7
    <3>2. call[c].of \in Projects /\ call[c].of # p0 BY <1>2, <3>1, CreatedOf DEF TruthInv, CreatesAlone
    <3> PICK p \in Projects : p = call[c].of BY <3>2
    <3>3. Lies("own", p)' BY <2>7, <3>1
    <3>4. Lies("own", p) BY <2>5, <3>2, <3>3 DEF Shown
    <3> QED BY <3>1, <3>4 DEF StandInv
  <2>8. Unstarted' BY <2>1 DEF Unstarted, At
  <2> QED BY <2>6, <2>7, <2>8 DEF StandInv
<1>5. CASE Outcome("failed") /\ UNCHANGED host
  <2>1. SetStatus("restart", p0, "failed") /\ Then("finish") BY <1>2, <1>5 DEF Outcome
  <2>2. /\ \A p \in Projects \ {p0} : row'[p] = row[p]
        /\ row'[p0].there = row[p0].there /\ (row[p0].there => row'[p0].st["restart"] = "failed")
    BY <1>2, <2>1, StatusAlone DEF Statuses, Kinds
  <2>3. ASSUME NEW p \in Projects, Falters(p) PROVE Falters(p)'
    <3>1. CASE p = p0 BY <2>2, <3>1 DEF Falters
    <3>2. CASE p # p0
      <4>1. \A j \in Jobs : j.of = p => j \in Jobs' BY <1>3, <3>2 DEF Jobs
      <4> QED BY <1>3, <2>2, <2>3, <3>2, <4>1, FaltersStill
    <3> QED BY <3>1, <3>2
  <2>4. working'.pc = "finish" BY <1>2, <2>1 DEF Then, Job
  <2>5. Unstarted' BY <2>4 DEF Unstarted, At
  <2> QED BY <1>3, <1>5, <2>3, <2>5, NoneStopsAnew, StandStays
<1> QED BY <1>4, <1>5 DEF Restart

\* A restart that succeeds has started the unit.
LEMMA UpgradeStands == ASSUME InstInv, TruthInv, StandInv, Upgrade PROVE StandInv'
<1>1. working # NoJob /\ working.pc = "upgrade" /\ SameOtherwise BY DEF Upgrade, At
<1>2. /\ working \in Job /\ JobShape(working) /\ working.kind = "restart" /\ working.of \in Projects
      /\ row \in [Projects -> Row] /\ working.inst \in Insts /\ host \in [Insts -> Instance]
  BY <1>1, WorkingShape DEF JobShape, InstInv, InstancesType
<1> PICK p0 \in Projects : p0 = working.of BY <1>2
<1> PICK s \in {"ready", "failed"} :
        Outcome(s) /\ (s = "ready" => host[working.inst].st # "none" /\ host' = [host EXCEPT ![working.inst].st = "up"])
  BY DEF Upgrade
<1>3. given' = given /\ call' = call /\ overlooked' = overlooked /\ queue' = queue BY <1>1 DEF SameOtherwise
<1>4. SetStatus("restart", p0, s) /\ Then("finish") BY <1>2 DEF Outcome
<1>5. /\ \A p \in Projects \ {p0} : row'[p] = row[p]
      /\ row'[p0].there = row[p0].there /\ (row[p0].there => row'[p0].st["restart"] = s)
  BY <1>2, <1>4, StatusAlone DEF Statuses, Kinds
<1>6. NoneStops
  <2>1. host' = [host EXCEPT ![working.inst].st = "up"] \/ UNCHANGED host BY DEF Upgrade
  <2>2. ASSUME NEW i \in Insts, host'[i].st = "down" PROVE host[i].st = "down" /\ host'[i].of = host[i].of
    <3>1. host[i] \in Instance /\ host'[i] \in {host[i], [host[i] EXCEPT !.st = "up"]} BY <1>2, <2>1
    <3> QED BY <2>2, <3>1 DEF Instance
  <2> QED BY <2>2 DEF NoneStops
<1>7. ASSUME NEW p \in Projects, Falters(p) PROVE Falters(p)' \/ \A k \in Shown : ~Lies(k, p)'
  <2>1. CASE p # p0
    <3>1. \A j \in Jobs : j.of = p => j \in Jobs' BY <1>3, <2>1 DEF Jobs
    <3> QED BY <1>3, <1>5, <1>7, <2>1, <3>1, FaltersStill
  <2>2. CASE p = p0 /\ s = "failed" BY <1>5, <2>2 DEF Falters
  <2>3. CASE p = p0 /\ s = "ready"
    <3>1. ASSUME NEW k \in Shown, Lies(k, p)' PROVE FALSE
      <4>1. Inst(k, p) \in Insts /\ Inst(k, p)' = Inst(k, p) BY <1>3, NamesOfInstances DEF InstInv, Shown, Inst
      <4>2. Lies(k, p) BY <1>3, <1>6, <3>1, <4>1, LaidBefore DEF NoneStops
      <4>3. Inst(k, p) = working.inst BY <1>2, <2>3, <4>2 DEF StandInv, JobShape
      <4>4. host'[working.inst].st = "up"
        <5>1. host[working.inst] \in Instance BY <1>2
        <5> QED BY <1>2, <2>3, <5>1 DEF Instance
      <4> QED BY <3>1, <4>1, <4>3, <4>4 DEF Lies
    <3> QED BY <3>1
  <2> QED BY <2>1, <2>2, <2>3
<1>8. working'.pc = "finish" BY <1>2, <1>4 DEF Then, Job
<1>9. Unstarted' BY <1>8 DEF Unstarted, At
<1> QED BY <1>3, <1>6, <1>7, <1>9, StandStays

\* A job begins, begins again or ends: its restart is lost when two workers have died of it.
LEMMA QueueStands ==
    ASSUME InstInv, TruthInv, StandInv, UNCHANGED <<given, row, call, host>>, overlooked \subseteq overlooked',
           \A j \in Jobs : j.kind = "restart" /\ j.pc # "finish" =>
               \/ \E i \in Jobs' : i.kind = "restart" /\ i.of = j.of /\ i.pc # "finish"
               \/ <<"restart", j.of>> \in overlooked',
           Unstarted'
    PROVE  StandInv'
<1>1. \A p \in Projects : Falters(p) => Falters(p)' BY DEF Falters
<1> QED BY <1>1, NoneStopsAnew, StandStays

LEMMA FinishJobStands == ASSUME InstInv, TruthInv, StandInv, FinishJob PROVE StandInv'
<1>1. /\ working.pc = "finish" /\ working' = NoJob /\ UNCHANGED <<given, row, call, queue, host, overlooked>>
  BY DEF FinishJob, At
<1>2. \A j \in Jobs : j.pc # "finish" => j \in Jobs' BY <1>1 DEF Jobs
<1>3. Unstarted' BY <1>1 DEF Unstarted, At
<1> QED BY <1>1, <1>2, <1>3, QueueStands

LEMMA TakeJobStands == ASSUME InstInv, TruthInv, StandInv, TakeJob PROVE StandInv'
<1>1. /\ working = NoJob /\ queue # <<>> /\ working' = [Head(queue) EXCEPT !.pc = FirstStep(Head(queue))]
      /\ queue' = Tail(queue) /\ UNCHANGED <<given, row, call, done, host, overlooked, overtaken, left>>
  BY DEF TakeJob
<1>2. queue \in Seq(Job) BY DEF InstInv, InstancesType
<1>3. Head(queue) \in Job /\ Head(queue) = queue[1] BY <1>1, <1>2, Shortened
<1>4. Head(queue).kind \in Kinds BY <1>3 DEF Job
<1>5. FirstStep(Head(queue)) \in {"run", "allocate", "secure", "build"} BY <1>4 DEF FirstStep, Kinds
<1> PICK next : next = working' OBVIOUS
<1>6. /\ next.kind = Head(queue).kind /\ next.of = Head(queue).of /\ next.pc \in {"run", "allocate", "secure", "build"}
      /\ next # NoJob
  <2>1. next \in Job BY <1>1, <1>3, <1>5 DEF Job
  <2> QED BY <1>1, <1>3, <1>5, <2>1, NoJobAssumption DEF Job
<1>7. next \in Jobs' BY <1>6 DEF Jobs
<1>8. ASSUME NEW j \in Jobs PROVE j \in Jobs' \/ j = Head(queue)
  <2> PICK n \in DOMAIN queue : j = queue[n] BY <1>1 DEF Jobs
  <2>1. CASE n = 1 BY <1>3, <2>1
  <2>2. CASE n # 1
    <3>1. n - 1 \in DOMAIN Tail(queue) /\ Tail(queue)[n - 1] = queue[n] BY <1>1, <1>2, <2>2
    <3> QED BY <1>1, <3>1 DEF Jobs
  <2> QED BY <2>1, <2>2
<1>9. \A j \in Jobs : j.kind = "restart" /\ j.pc # "finish" =>
          \E i \in Jobs' : i.kind = "restart" /\ i.of = j.of /\ i.pc # "finish"
  BY <1>6, <1>7, <1>8
<1>10. Unstarted' BY <1>6 DEF Unstarted, At
<1> QED BY <1>1, <1>9, <1>10, QueueStands

LEMMA WorkerDiesStands == ASSUME InstInv, TruthInv, StandInv, WorkerDies PROVE StandInv'
<1>1. working # NoJob /\ working' = NoJob /\ UNCHANGED <<given, row, call, host, overtaken>> BY DEF WorkerDies
<1>2. working \in Job /\ queue \in Seq(Job) BY <1>1, WorkingShape DEF InstInv, InstancesType
<1> DEFINE back == [working EXCEPT !.pc = "waiting", !.stalled = TRUE]
<1>3. back.kind = working.kind /\ back.of = working.of /\ back.pc = "waiting" BY <1>2 DEF Job
<1>4. Unstarted' BY <1>1 DEF Unstarted, At
<1>5. CASE working.stalled
  <2>1. overlooked' = overlooked \cup {<<working.kind, working.of>>} /\ queue' = queue BY <1>5 DEF WorkerDies
  <2>2. \A j \in Jobs : j \in Jobs' \/ j = working BY <1>1, <2>1 DEF Jobs
  <2> QED BY <1>1, <1>4, <2>1, <2>2, QueueStands
<1>6. CASE ~working.stalled
  <2>1. overlooked' = overlooked /\ queue' = <<back>> \o queue BY <1>6 DEF WorkerDies
  <2> PICK new : new = back OBVIOUS
  <2> HIDE DEF back
  <2>2. /\ 1 \in DOMAIN queue' /\ queue'[1] = new
        /\ \A n \in DOMAIN queue : n + 1 \in DOMAIN queue' /\ queue'[n + 1] = queue[n]
    BY <1>2, <2>1
  <2>3. new \in Jobs' /\ \A j \in Jobs : j \in Jobs' \/ j = working BY <1>1, <2>2 DEF Jobs
  <2>4. \A j \in Jobs : j.kind = "restart" /\ j.pc # "finish" =>
            \E i \in Jobs' : i.kind = "restart" /\ i.of = j.of /\ i.pc # "finish"
    BY <1>3, <2>3
  <2> QED BY <1>1, <1>4, <2>1, <2>4, QueueStands
<1> QED BY <1>5, <1>6

\* A step of a request about the project q.
LEMMA RequestStands ==
    ASSUME InstInv, TruthInv, StandInv, given' = given, working' = working, NoneStops, Jobs \subseteq Jobs',
           NEW q \in Projects,
           \A p \in Projects \ {q} :
               row'[p] = row[p] /\ (<<"restart", p>> \in overlooked => <<"restart", p>> \in overlooked'),
           Falters(q) => Falters(q)' \/ \A k \in Shown : ~Lies(k, q)',
           \A c \in Calls : Creating(call[c])' =>
               (Creating(call[c]) /\ call'[c].of = call[c].of) \/ ~Lies("own", call[c].of)',
           host' = host \/ Unstarted'
    PROVE  StandInv'
<1>1. ASSUME NEW p \in Projects, Falters(p) PROVE Falters(p)' \/ \A k \in Shown : ~Lies(k, p)'
  <2>1. CASE p = q BY <1>1, <2>1
  <2>2. CASE p # q BY <1>1, <2>2, FaltersStill
  <2> QED BY <2>1, <2>2
<1>2. Unstarted'
  <2>1. CASE host' = host BY <2>1 DEF StandInv, Unstarted, At, Alone, Namesakes
  <2> QED BY <2>1
<1> QED BY <1>1, <1>2, StandStays

\* A request that leaves the rows and the host alone.
LEMMA CallStands ==
    ASSUME InstInv, TruthInv, StandInv, UNCHANGED <<given, row, jobs, host, overlooked>>,
           NEW c \in Calls, \A d \in Calls \ {c} : call'[d] = call[d],
           Creating(call[c])' =>
               (Creating(call[c]) /\ call'[c].of = call[c].of) \/ ~Lies("own", call[c].of)'
    PROVE  StandInv'
<1>1. Jobs' = Jobs /\ working' = working BY DEF Jobs, jobs
<1>2. \A p \in Projects : Falters(p) => Falters(p)' BY <1>1 DEF Falters
<1>3. Unstarted' BY <1>1 DEF StandInv, Unstarted, At, Alone, Namesakes
<1>4. \A d \in Calls : Creating(call[d])' =>
          (Creating(call[d]) /\ call'[d].of = call[d].of) \/ ~Lies("own", call[d].of)'
  <2> TAKE d \in Calls
  <2>1. CASE d = c BY <2>1
  <2>2. CASE d # c BY <2>2 DEF Creating
  <2> QED BY <2>1, <2>2
<1> QED BY <1>2, <1>3, <1>4, NoneStopsAnew, StandStays

LEMMA AskCreateStands ==
    ASSUME InstInv, TruthInv, StandInv, NEW c \in Calls, NEW p \in Projects, AskCreate(c, p) PROVE StandInv'
<1>1. /\ UNCHANGED <<given, row, jobs, host, overlooked, overtaken>> /\ p \notin {host[i].of : i \in Insts}
      /\ call \in [Calls -> Call]
  BY DEF AskCreate, InstInv, InstancesType
<1>2. call'[c].of = p /\ \A d \in Calls \ {c} : call'[d] = call[d] BY <1>1 DEF AskCreate, Free
<1>3. ~Lies("own", p)'
  <2>1. Inst("own", p) \in Insts /\ Inst("own", p)' = Inst("own", p) BY <1>1, NamesOfInstances DEF InstInv, Inst
  <2> QED BY <1>1, <2>1 DEF Lies
<1>4. ~Lies("own", call[c].of)' BY <1>2, <1>3
<1> QED BY <1>1, <1>2, <1>4, CallStands

LEMMA AskDeleteStands ==
    ASSUME InstInv, TruthInv, StandInv, NEW c \in Calls, NEW p \in Projects, AskDelete(c, p) PROVE StandInv'
<1>1. UNCHANGED <<given, row, jobs, host, overlooked, overtaken>> /\ call \in [Calls -> Call]
  BY DEF AskDelete, InstInv, InstancesType
<1>2. call'[c].kind = "delete" /\ \A d \in Calls \ {c} : call'[d] = call[d] BY <1>1 DEF AskDelete, Free
<1>3. ~Creating(call[c])' BY <1>2 DEF Creating
<1> QED BY <1>1, <1>2, <1>3, CallStands

LEMMA AskStands ==
    ASSUME InstInv, TruthInv, StandInv, NEW c \in Calls, NEW k \in Kinds, NEW p \in Projects, Ask(c, k, p)
    PROVE  StandInv'
<1>1. k # "own" /\ UNCHANGED <<given, row, jobs, host, overlooked>> /\ call \in [Calls -> Call]
  BY DEF Ask, InstInv, InstancesType
<1>2. call'[c].kind = k /\ \A d \in Calls \ {c} : call'[d] = call[d] BY <1>1 DEF Ask
<1>3. ~Creating(call[c])' BY <1>1, <1>2 DEF Creating
<1> QED BY <1>1, <1>2, <1>3, CallStands

LEMMA AllocateForStands ==
    ASSUME InstInv, TruthInv, StandInv, NEW c \in Calls, AllocateFor(c) PROVE StandInv'
<1>1. /\ call[c].pc = "allocate" /\ UNCHANGED <<given, row, jobs, host, overlooked, overtaken, left>>
      /\ call \in [Calls -> Call]
  BY DEF AllocateFor, InstInv, InstancesType
<1>2. CASE Ends(c)
  <2>1. call'[c] = Free /\ \A d \in Calls \ {c} : call'[d] = call[d] BY <1>1, <1>2, CallEnds
  <2>2. ~Creating(call[c])' BY <2>1 DEF Creating, Free
  <2> QED BY <1>1, <2>1, <2>2, CallStands
<1>3. ASSUME NEW n \in Allocated(call[c].kind), NEW pc,
             call' = [call EXCEPT ![c].port = n, ![c].pc = pc]
      PROVE  StandInv'
  <2>1. call[c] \in Call BY <1>1
  <2>2. /\ call'[c].kind = call[c].kind /\ call'[c].of = call[c].of
        /\ \A d \in Calls \ {c} : call'[d] = call[d]
    BY <1>1, <1>3, <2>1 DEF Call
  <2>3. Creating(call[c])' => Creating(call[c]) BY <1>1, <2>2 DEF Creating
  <2> QED BY <1>1, <2>2, <2>3, CallStands
<1> QED BY <1>2, <1>3 DEF AllocateFor

\* What is on the host is no longer there, half built or up.
LEMMA OneChanges ==
    ASSUME host \in [Insts -> Instance], NEW i \in Insts, NEW x, x.st # "down", host' = [host EXCEPT ![i] = x]
    PROVE  NoneStops /\ host'[i] = x /\ \A e \in Insts \ {i} : host'[e] = host[e]
BY DEF NoneStops

\* A script that makes a project's own instance, or takes it down, while no job is building it.
LEMMA ScriptStands ==
    ASSUME InstInv, TruthInv, StandInv, NEW c \in Calls, Script(c) PROVE StandInv'
<1>1. call[c].pc = "script" /\ UNCHANGED <<given, row, jobs, overlooked, overtaken>> BY DEF Script
<1>2. /\ call[c] \in Call /\ call[c].of \in Projects /\ call \in [Calls -> Call] /\ host \in [Insts -> Instance]
      /\ call[c].kind = "own"
  BY <1>1, AtWork DEF InstInv, InstancesType, CallInv
<1> PICK q \in Projects : q = call[c].of BY <1>2
<1>3. Inst("own", q) \in Insts BY NamesOfInstances DEF InstInv
<1>4. Jobs' = Jobs /\ working' = working BY <1>1 DEF Jobs, jobs
<1>5. host' = host \/ (host' = [host EXCEPT ![Inst("own", q)] = Half(call[c].port, q)]) BY DEF Script, Builds
<1>6. NoneStops /\ Unstarted'
  <2>1. CASE host' = host BY <1>1, <1>4, <2>1, NoneStopsAnew DEF StandInv, Unstarted, At, Alone, Namesakes
  <2>2. CASE host' = [host EXCEPT ![Inst("own", q)] = Half(call[c].port, q)]
    <3>1. Half(call[c].port, q).st = "half" BY DEF Half
    <3>2. /\ NoneStops /\ host'[Inst("own", q)].st = "half"
          /\ \A e \in Insts \ {Inst("own", q)} : host'[e] = host[e]
      BY <1>2, <1>3, <2>2, <3>1, OneChanges
    <3>3. working # NoJob => working.inst \in Insts BY WorkingShape
    <3>4. Unstarted' BY <1>1, <1>4, <3>2, <3>3 DEF StandInv, Unstarted, At, Alone, Namesakes
    <3> QED BY <3>2, <3>4
  <2> QED BY <1>5, <2>1, <2>2
<1>7. Creating(call[c]) BY <1>1, <1>2 DEF Creating
<1>8. /\ \A d \in Calls \ {c} : call'[d] = call[d]
      /\ Creating(call[c])' => call'[c].of = call[c].of
  <2>1. CASE Ends(c) BY <1>2, <2>1, CallEnds DEF Creating, Free
  <2>2. CASE Goes(c, "start") BY <1>2, <2>2 DEF Goes, Call
  <2> QED BY <2>1, <2>2 DEF Script
<1>9. \A d \in Calls : Creating(call[d])' => Creating(call[d]) /\ call'[d].of = call[d].of
  <2> TAKE d \in Calls
  <2>1. CASE d = c BY <1>7, <1>8, <2>1
  <2>2. CASE d # c BY <1>8, <2>2 DEF Creating
  <2> QED BY <2>1, <2>2
<1>10. \A p \in Projects : Falters(p) => Falters(p)' BY <1>1, <1>4 DEF Falters
<1> QED BY <1>1, <1>6, <1>9, <1>10, StandStays

LEMMA ScriptStartsStands ==
    ASSUME InstInv, TruthInv, StandInv, NEW c \in Calls, ScriptStarts(c) PROVE StandInv'
<1>1. call[c].pc = "start" /\ UNCHANGED <<given, row, jobs, overlooked, overtaken>> BY DEF ScriptStarts
<1>2. /\ call[c] \in Call /\ call[c].of \in Projects /\ call \in [Calls -> Call] /\ host \in [Insts -> Instance]
      /\ call[c].kind = "own" /\ CreatesAlone(c) /\ InstancesType
  BY <1>1, AtWork DEF InstInv, InstancesType, CallInv
<1> PICK q \in Projects : q = call[c].of BY <1>2
<1>3. Inst("own", q) \in Insts BY <1>2, NamesOfInstances
<1>4. Jobs' = Jobs /\ working' = working BY <1>1 DEF Jobs, jobs
<1>5. \E x \in {Up(call[c].port, q), Nothing} : host' = host \/ host' = [host EXCEPT ![Inst("own", q)] = x]
  BY DEF ScriptStarts, Starts, CleansUp
<1>6. Creating(call[c]) BY <1>1, <1>2 DEF Creating
<1>7. NoneStops /\ Unstarted'
  <2>1. CASE host' = host BY <1>1, <1>4, <2>1, NoneStopsAnew DEF StandInv, Unstarted, At, Alone, Namesakes
  <2>2. ASSUME NEW x \in {Up(call[c].port, q), Nothing}, host' = [host EXCEPT ![Inst("own", q)] = x]
        PROVE  NoneStops /\ Unstarted'
    <3>1. x.st # "down" BY DEF Up, Nothing
    <3>2. NoneStops /\ \A e \in Insts \ {Inst("own", q)} : host'[e] = host[e]
      BY <1>2, <1>3, <2>2, <3>1, OneChanges
    <3>3. ASSUME At("start"), Alone(working.kind, working.of)
          PROVE  working.inst \in Insts /\ working.inst # Inst("own", q)
      <4>1. working # NoJob /\ working.pc = "start" BY <3>3 DEF At
      <4>2. /\ working \in Jobs /\ JobShape(working) /\ working.kind \in Kinds /\ working.of \in Projects
            /\ working.inst \in Insts
        BY <4>1, WorkingShape
      <4>3. working.kind \in Shown /\ working.inst = Inst(working.kind, working.of)
        BY <4>1, <4>2 DEF JobShape, Kinds, Shown, Target
      <4>4. working.of # q BY <1>2, <1>6, <4>2 DEF CreatesAlone
      <4>5. working.kind = "own" => Namesakes(working.of) = {} BY <3>3 DEF Alone
      <4>6. Inst(working.kind, working.of) # Inst("own", q) BY <1>2, <4>2, <4>3, <4>4, <4>5, Apart DEF Shown
      <4> QED BY <4>2, <4>3, <4>6
    <3>4. Unstarted' BY <1>1, <1>4, <3>2, <3>3 DEF StandInv, Unstarted, At, Alone, Namesakes
    <3> QED BY <3>2, <3>4
  <2> QED BY <1>5, <2>1, <2>2
<1>8. /\ \A d \in Calls \ {c} : call'[d] = call[d]
      /\ Creating(call[c])' => call'[c].of = call[c].of
  <2>1. CASE Ends(c) BY <1>2, <2>1, CallEnds DEF Creating, Free
  <2>2. CASE Goes(c, "insert") BY <1>2, <2>2 DEF Goes, Call
  <2> QED BY <2>1, <2>2 DEF ScriptStarts
<1>9. \A d \in Calls : Creating(call[d])' => Creating(call[d]) /\ call'[d].of = call[d].of
  <2> TAKE d \in Calls
  <2>1. CASE d = c BY <1>6, <1>8, <2>1
  <2>2. CASE d # c BY <1>8, <2>2 DEF Creating
  <2> QED BY <2>1, <2>2
<1>10. \A p \in Projects : Falters(p) => Falters(p)' BY <1>1, <1>4 DEF Falters
<1> QED BY <1>1, <1>7, <1>9, <1>10, StandStays

\* The row of a new project: no unit of it was down.
LEMMA InsertStands == ASSUME InstInv, TruthInv, StandInv, NEW c \in Calls, Insert(c) PROVE StandInv'
<1>1. call[c].pc = "insert" /\ UNCHANGED <<given, jobs, host, overtaken>> BY DEF Insert
<1>2. /\ call[c] \in Call /\ call[c].of \in Projects /\ CallShape(call[c]) /\ call[c].kind = "own"
      /\ call \in [Calls -> Call] /\ row \in [Projects -> Row]
  BY <1>1, AtWork DEF InstInv, InstancesType, CallInv
<1> PICK q \in Projects : q = call[c].of BY <1>2
<1>3. Creating(call[c]) /\ given.type[q] = "ai" BY <1>1, <1>2 DEF Creating, CallShape
<1>4. Jobs' = Jobs /\ working' = working BY <1>1 DEF Jobs, jobs
<1>5. \A p \in Projects \ {q} :
          row'[p] = row[p] /\ (<<"restart", p>> \in overlooked => <<"restart", p>> \in overlooked')
  BY <1>2 DEF Insert
<1>6. ASSUME NEW k \in Shown, Lies(k, q)' PROVE FALSE
  <2>1. Lies(k, q) BY <1>1, <1>6, LaidBefore
  <2>2. Inst(k, q) = Inst("own", q) BY <1>3, <2>1 DEF StandInv, Target
  <2>3. k = "own" BY <2>2 DEF Inst, Shown
  <2> QED BY <1>3, <2>1, <2>3 DEF StandInv
<1>7. IF call[c].resume THEN Ends(c) ELSE Goes(c, "enqueue") BY DEF Insert
<1>8. (\A d \in Calls \ {c} : call'[d] = call[d]) /\ ~Creating(call[c])'
  <2>1. CASE Ends(c) BY <1>2, <2>1, CallEnds DEF Creating, Free
  <2>2. CASE Goes(c, "enqueue") BY <1>2, <2>2 DEF Goes, Call, Creating
  <2> QED BY <1>7, <2>1, <2>2
<1>9. \A d \in Calls : Creating(call[d])' => Creating(call[d]) /\ call'[d].of = call[d].of
  <2> TAKE d \in Calls
  <2>1. d # c => call'[d] = call[d] BY <1>8
  <2> QED BY <1>8, <2>1 DEF Creating
<1> QED BY <1>1, <1>4, <1>5, <1>6, <1>9, NoneStopsAnew, RequestStands

\* A restart that is asked for is pending, or the row is gone.
LEMMA UpdateStands == ASSUME InstInv, TruthInv, StandInv, NEW c \in Calls, Update(c) PROVE StandInv'
<1>1. call[c].pc = "update" /\ UNCHANGED <<given, jobs, host, overtaken>> /\ Goes(c, "enqueue") BY DEF Update
<1>2. /\ call[c] \in Call /\ call[c].of \in Projects /\ call[c].kind \in Kinds
      /\ call \in [Calls -> Call] /\ row \in [Projects -> Row] /\ call[c].resume \in BOOLEAN
  BY <1>1, AtWork DEF InstInv, InstancesType, CallInv, Call
<1> PICK q \in Projects, k \in Kinds : q = call[c].of /\ k = call[c].kind BY <1>2
<1>3. Jobs' = Jobs /\ working' = working BY <1>1 DEF Jobs, jobs
<1>4. ~row[q].there => row' = row BY DEF Update
<1>5. row[q].there =>
        /\ \A p \in Projects \ {q} : row'[p] = row[p]
        /\ row'[q].there /\ row'[q].st[k] = "pending"
        /\ \A j \in Kinds \ {k} : row'[q].st[j] = row[q].st[j]
  BY <1>2, Updated
<1>6. overlooked' = overlooked \ {<<k, q>>} BY DEF Update
<1>7. \A p \in Projects \ {q} :
          row'[p] = row[p] /\ (<<"restart", p>> \in overlooked => <<"restart", p>> \in overlooked')
  BY <1>4, <1>5, <1>6
<1>8. Falters(q) => Falters(q)'
  <2> HAVE Falters(q)
  <2>1. CASE ~row[q].there BY <1>4, <2>1 DEF Falters
  <2>2. CASE row[q].there /\ k = "restart" BY <1>5, <2>2 DEF Falters
  <2>3. CASE row[q].there /\ k # "restart"
    <3>1. row'[q].st["restart"] = row[q].st["restart"] /\ row'[q].there BY <1>5, <2>3 DEF Kinds
    <3>2. <<"restart", q>> \in overlooked => <<"restart", q>> \in overlooked' BY <1>6, <2>3
    <3> QED BY <1>3, <2>3, <3>1, <3>2 DEF Falters
  <2> QED BY <2>1, <2>2, <2>3
<1>9. \A d \in Calls : Creating(call[d])' => Creating(call[d]) /\ call'[d].of = call[d].of
  <2> TAKE d \in Calls
  <2>1. CASE d # c BY <1>1, <1>2, <2>1 DEF Goes, Creating
  <2>2. CASE d = c BY <1>1, <1>2, <2>2 DEF Goes, Creating, Call
  <2> QED BY <2>1, <2>2
<1> QED BY <1>1, <1>3, <1>7, <1>8, <1>9, NoneStopsAnew, RequestStands

LEMMA EnqueueStands == ASSUME InstInv, TruthInv, StandInv, NEW c \in Calls, Enqueue(c) PROVE StandInv'
<1>1. call[c].pc = "enqueue" /\ UNCHANGED <<given, host, overtaken>> /\ Ends(c) BY DEF Enqueue
<1>2. /\ call[c].of \in Projects /\ call \in [Calls -> Call] /\ row \in [Projects -> Row] /\ queue \in Seq(Job)
      /\ call[c] \in Call
  BY <1>1, AtWork DEF InstInv, InstancesType
<1> PICK q \in Projects : q = call[c].of BY <1>2
<1> PICK new : new = JobOf(c) OBVIOUS
<1>3. working' = working /\ (queue' = queue \/ queue' = Append(queue, new)) BY DEF Enqueue, Enqueued, jobs
<1>4. \A n \in DOMAIN queue : n \in DOMAIN queue' /\ queue'[n] = queue[n] BY <1>2, <1>3
<1>5. Jobs \subseteq Jobs' BY <1>3, <1>4 DEF Jobs
<1>6. overlooked \subseteq overlooked' BY DEF Enqueue, Enqueued
<1>7. row' = row \/ SetStatus("restored", q, "failed") BY DEF Enqueue
<1>8. /\ \A p \in Projects \ {q} : row'[p] = row[p]
      /\ row'[q].there = row[q].there /\ row'[q].st["restart"] = row[q].st["restart"]
  <2>1. CASE row' = row BY <2>1
  <2>2. CASE SetStatus("restored", q, "failed")
    <3>1. "restored" \in Kinds /\ "restart" \in Kinds /\ "failed" \in Statuses BY DEF Kinds, Statuses
    <3> QED BY <1>2, <2>2, <3>1, StatusAlone
  <2> QED BY <1>7, <2>1, <2>2
<1>9. Falters(q) => Falters(q)' BY <1>5, <1>6, <1>8, FaltersStill
<1>10. \A d \in Calls : Creating(call[d])' => Creating(call[d]) /\ call'[d].of = call[d].of
  <2>1. call'[c] = Free /\ \A d \in Calls \ {c} : call'[d] = call[d] BY <1>1, <1>2, CallEnds
  <2> TAKE d \in Calls
  <2>2. d = c => ~Creating(call[d])' BY <2>1 DEF Creating, Free
  <2>3. d # c => call'[d] = call[d] BY <2>1
  <2> QED BY <2>2, <2>3 DEF Creating
<1> QED BY <1>1, <1>3, <1>5, <1>6, <1>8, <1>9, <1>10, NoneStopsAnew, RequestStands

LEMMA TeardownStands == ASSUME InstInv, TruthInv, StandInv, NEW c \in Calls, Teardown(c) PROVE StandInv'
<1>1. call[c].pc = "teardown" /\ UNCHANGED <<given, row, jobs, overlooked, overtaken>> /\ Goes(c, "remove")
  BY DEF Teardown
<1>2. /\ call[c] \in Call /\ call[c].of \in Projects /\ CallShape(call[c]) /\ call \in [Calls -> Call]
      /\ host \in [Insts -> Instance]
  BY <1>1, AtWork DEF InstInv, InstancesType
<1> PICK i \in Insts : i = Inst("own", call[c].of) BY <1>2, NamesOfInstances DEF InstInv
<1>3. Jobs' = Jobs /\ working' = working BY <1>1 DEF Jobs, jobs
<1>4. NoneStops /\ Unstarted'
  <2>1. CASE host' = host BY <1>1, <1>3, <2>1, NoneStopsAnew DEF StandInv, Unstarted, At, Alone, Namesakes
  <2>2. CASE host' = [host EXCEPT ![i] = Nothing]
    <3>1. Nothing.st = "none" BY DEF Nothing
    <3>2. NoneStops /\ host'[i].st = "none" /\ \A e \in Insts \ {i} : host'[e] = host[e]
      BY <1>2, <2>2, <3>1, OneChanges
    <3>3. working # NoJob => working.inst \in Insts BY WorkingShape
    <3>4. Unstarted' BY <1>1, <1>3, <3>2, <3>3 DEF StandInv, Unstarted, At, Alone, Namesakes
    <3> QED BY <3>2, <3>4
  <2> QED BY <2>1, <2>2 DEF Teardown
<1>5. \A d \in Calls : Creating(call[d])' => Creating(call[d]) /\ call'[d].of = call[d].of
  <2> TAKE d \in Calls
  <2>1. CASE d # c BY <1>1, <1>2, <2>1 DEF Goes, Creating
  <2>2. CASE d = c
    <3>1. call[c].kind = "delete" BY <1>1, <1>2 DEF CallShape
    <3> QED BY <1>1, <1>2, <2>2, <3>1 DEF Goes, Creating, Call
  <2> QED BY <2>1, <2>2
<1>6. \A p \in Projects : Falters(p) => Falters(p)' BY <1>1, <1>3 DEF Falters
<1> QED BY <1>1, <1>4, <1>5, <1>6, StandStays

LEMMA RemoveStands == ASSUME InstInv, TruthInv, StandInv, NEW c \in Calls, Remove(c) PROVE StandInv'
<1>1. /\ call[c].pc = "remove" /\ Ends(c) /\ row' = [row EXCEPT ![call[c].of] = NoRow]
      /\ UNCHANGED <<given, jobs, host, overlooked, overtaken, left>>
  BY DEF Remove
<1>2. /\ call[c].of \in Projects /\ call \in [Calls -> Call] /\ row \in [Projects -> Row]
  BY <1>1, AtWork DEF InstInv, InstancesType
<1> PICK q \in Projects : q = call[c].of BY <1>2
<1>3. Jobs' = Jobs /\ working' = working BY <1>1 DEF Jobs, jobs
<1>4. ~row'[q].there /\ \A p \in Projects \ {q} : row'[p] = row[p] BY <1>1, <1>2 DEF NoRow
<1>5. Falters(q)' BY <1>4 DEF Falters
<1>6. \A d \in Calls : Creating(call[d])' => Creating(call[d]) /\ call'[d].of = call[d].of
  <2>1. call'[c] = Free /\ \A d \in Calls \ {c} : call'[d] = call[d] BY <1>1, <1>2, CallEnds
  <2> TAKE d \in Calls
  <2>2. d = c => ~Creating(call[d])' BY <2>1 DEF Creating, Free
  <2>3. d # c => call'[d] = call[d] BY <2>1
  <2> QED BY <2>2, <2>3 DEF Creating
<1> QED BY <1>1, <1>3, <1>4, <1>5, <1>6, NoneStopsAnew, RequestStands

LEMMA ApiDiesStands == ASSUME InstInv, TruthInv, StandInv, ApiDies PROVE StandInv'
<1>1. /\ UNCHANGED <<given, row, jobs, host, overtaken>> /\ overlooked \subseteq overlooked'
      /\ \A c \in Calls : call'[c] = Free
  BY DEF ApiDies
<1>2. Jobs' = Jobs /\ working' = working BY <1>1 DEF Jobs, jobs
<1>3. \A p \in Projects : Falters(p) => Falters(p)' BY <1>1, <1>2 DEF Falters
<1>4. Unstarted' BY <1>1, <1>2 DEF StandInv, Unstarted, At, Alone, Namesakes
<1>5. \A c \in Calls : ~Creating(call[c])' BY <1>1 DEF Creating, Free
<1> QED BY <1>1, <1>3, <1>4, <1>5, NoneStopsAnew, StandStays

\* Scripts that go on, or nothing.
LEMMA InstancesStayStands ==
    ASSUME InstInv, TruthInv, StandInv, UNCHANGED <<given, row, call, jobs, overlooked, overtaken>>,
           NoneStops, At("start") => host'[working.inst] = host[working.inst]
    PROVE  StandInv'
<1>1. Jobs' = Jobs /\ working' = working BY DEF Jobs, jobs
<1>2. \A p \in Projects : Falters(p) => Falters(p)' BY <1>1 DEF Falters
<1>3. Unstarted' BY <1>1 DEF StandInv, Unstarted, At, Alone, Namesakes
<1> QED BY <1>2, <1>3, StandStays

LEMMA GoesOnStands == ASSUME InstInv, TruthInv, StandInv, NEW i \in Insts, GoesOn(i) PROVE StandInv'
<1>1. UNCHANGED <<given, row, call, jobs, overlooked, overtaken>> BY DEF GoesOn
<1>2. host \in [Insts -> Instance] /\ host[i] \in Instance BY DEF InstInv, InstancesType
<1>3. PICK x \in {[host[i] EXCEPT !.st = "up"], Nothing} : host' = [host EXCEPT ![i] = x]
  BY DEF GoesOn, CleansUp
<1>4. x.st # "down" BY <1>2 DEF Nothing, Instance
<1>5. NoneStops /\ \A e \in Insts \ {i} : host'[e] = host[e] BY <1>2, <1>3, <1>4, OneChanges
<1>6. At("start") => working.inst \in Insts \ {i} BY WorkingShape DEF At, GoesOn, InHand
<1> QED BY <1>1, <1>5, <1>6, InstancesStayStands

-----------------------------------------------------------------------------
(* In the beginning, and after every step.                                  *)

LEMMA TruthStarts == Init => TruthInv /\ StandInv
<1> SUFFICES ASSUME Init PROVE TruthInv /\ StandInv OBVIOUS
<1>1. /\ row = [p \in Projects |-> [NoRow EXCEPT !.there = (given.type[p] = "odoo_sh")]]
      /\ \A c \in Calls : call[c] = Free
      /\ queue = <<>> /\ working = NoJob /\ host = [i \in Insts |-> Nothing]
      /\ InstancesType
  BY Begins DEF Init, InstancesInit, IInv, InstInv
<1>2. Jobs = {} BY <1>1 DEF Jobs
<1>3. \A p \in Projects : ~row[p].hostReady /\ \A k \in Kinds : row[p].st[k] = "none" BY <1>1 DEF NoRow
<1>4. \A c \in Calls : CallShape(call[c]) /\ CreatesAlone(c) BY <1>1, FreeShape
<1>5. ASSUME NEW p \in Projects PROVE OwnTrue(p) /\ RestoredTrue(p) /\ ConnTrue(p)
  <2>1. \A c \in Calls : ~Connects(c, p) BY <1>1 DEF Connects, Free
  <2> QED BY <1>2, <1>3, <2>1 DEF OwnTrue, RestoredTrue, ConnTrue, Kinds
<1>6. \A k \in Shown, p \in Projects : Part(k, p) BY <1>5 DEF Part, Shown
<1>7. \A n \in DOMAIN queue : queue[n].pc = "waiting" BY <1>1
<1>8. TruthInv BY <1>2, <1>3, <1>4, <1>6, <1>7 DEF TruthInv, RowShape
<1>9. \A k \in Shown, p \in Projects : ~Lies(k, p)
  <2> TAKE k \in Shown, p \in Projects
  <2>1. Inst(k, p) \in Insts BY <1>1, NamesOfInstances DEF Shown
  <2> QED BY <1>1, <2>1 DEF Lies, Nothing
<1>10. StandInv BY <1>1, <1>9 DEF StandInv, Unstarted, At, Creating, Free
<1> QED BY <1>8, <1>10

LEMMA TruthKept == IInv /\ TruthInv /\ StandInv /\ [Next]_vars => TruthInv' /\ StandInv'
<1> SUFFICES ASSUME IInv, TruthInv, StandInv, [Next]_vars PROVE TruthInv' /\ StandInv' OBVIOUS
<1>1. InstInv BY DEF IInv
<1>2. CASE Worker
  <2>1. TruthInv'
    BY <1>1, <1>2, TakeJobTells, AllocateInJobTells, BuildTells, StartTells, GrantTells, MarkHostReadyTells,
       SecureTells, RestartTells, UpgradeTells, RecordTells, FinishJobTells DEF Worker
  <2>2. StandInv'
    BY <1>1, <1>2, TakeJobStands, AllocateInJobStands, BuildStands, StartStands, GrantStands, MarkHostReadyStands,
       SecureStands, RestartStands, UpgradeStands, RecordStands, FinishJobStands DEF Worker
  <2> QED BY <2>1, <2>2
<1>3. CASE WorkerDies BY <1>1, <1>3, WorkerDiesTells, WorkerDiesStands
<1>4. ASSUME NEW c \in Calls, Asks(c) PROVE TruthInv' /\ StandInv'
  BY <1>1, <1>4, AskCreateTells, AskDeleteTells, AskTells, AskCreateStands, AskDeleteStands, AskStands DEF Asks
<1>5. ASSUME NEW c \in Calls, ServesBut(c) PROVE TruthInv' /\ StandInv'
  <2>1. TruthInv'
    BY <1>1, <1>5, AllocateForTells, ScriptTells, ScriptStartsTells, InsertTells, UpdateTells, EnqueueTells,
       TeardownTells DEF ServesBut
  <2>2. StandInv'
    BY <1>1, <1>5, AllocateForStands, ScriptStands, ScriptStartsStands, InsertStands, UpdateStands, EnqueueStands,
       TeardownStands DEF ServesBut
  <2> QED BY <2>1, <2>2
<1>6. ASSUME NEW c \in Calls, Remove(c) PROVE TruthInv' /\ StandInv' BY <1>1, <1>6, RemoveTells, RemoveStands
<1>7. CASE ApiDies BY <1>1, <1>7, ApiDiesTells, ApiDiesStands
<1>8. ASSUME NEW i \in Insts, GoesOn(i) PROVE TruthInv' /\ StandInv' BY <1>1, <1>8, GoesOnTells, GoesOnStands
<1>9. CASE UNCHANGED <<given, row, call, jobs, host, overlooked, overtaken>>
  <2>1. \A i \in Insts : Steady(i) BY <1>9, StillSteady
  <2> QED BY <1>1, <1>9, <2>1, NoneStopsAnew, InstancesStayTells, InstancesStayStands
<1>10. CASE UNCHANGED vars BY <1>9, <1>10 DEF vars, instanceVars, jobs
<1> QED BY <1>2, <1>3, <1>4, <1>5, <1>6, <1>7, <1>8, <1>9, <1>10 DEF Next

\* An instance that the row calls ready is up at the port the row gives, for any number of
\* projects, requests, faults and deaths and wherever scripts are cut off, but for what `Undone`
\* says of the code (project-connected-instance.service.ts:174-182, 193-196;
\* projects.service.ts:311-316, 1332).
THEOREM RowsAreTrue == Spec => []RowsTellTheTruth
<1>1. ASSUME InstInv, TruthInv, StandInv PROVE RowsTellTheTruth
  <2> SUFFICES ASSUME NEW k \in Kinds \ {"restart"}, NEW p \in Projects, row[p].st[k] = "ready", ~Undone(k, p)
               PROVE  host[Inst(k, p)] = Up(row[p].port[k], p)
    BY DEF RowsTellTheTruth
  <2>1. k \in Shown /\ Part(k, p) BY <1>1 DEF Shown, Kinds, TruthInv
  <2>2. row[p].there BY <1>1 DEF TruthInv, RowShape
  <2>3. IsThere(k, p)
    <3>1. CASE k = "own"
      <4>1. ~Torn(p) /\ Namesakes(p) = {} BY <3>1 DEF Torn, Undone
      <4> QED BY <2>1, <3>1, <4>1 DEF Part, OwnTrue
    <3>2. CASE k = "restored" BY <2>1, <3>2 DEF Part, RestoredTrue
    <3>3. CASE k = "connected"
      <4>1. <<"connected", p>> \notin overtaken BY <3>3 DEF Undone
      <4> QED BY <2>1, <2>2, <3>3, <4>1 DEF Part, ConnTrue
    <3> QED BY <2>1, <3>1, <3>2, <3>3 DEF Shown
  <2>4. host[Inst(k, p)].st # "down"
    <3> SUFFICES ASSUME host[Inst(k, p)].st = "down" PROVE FALSE OBVIOUS
    <3>1. Alone(k, p) BY DEF Alone, Undone
    <3>2. Lies(k, p) BY <2>3, <3>1 DEF Lies, IsThere, Stands
    <3>3. Falters(p) /\ Target("restart", p) = Inst(k, p) BY <1>1, <2>1, <3>2 DEF StandInv
    <3>4. k \in {"own", "connected"} BY <2>1, <3>3 DEF Target, Inst, Shown
    <3>5. Restarts(p) BY <2>2, <3>3 DEF Falters, Restarts, JobAbout, Jobs
    <3> QED BY <3>4, <3>5 DEF Undone
  <2>5. host[Inst(k, p)] \in Instance
    <3>1. InstancesType BY <1>1 DEF InstInv
    <3>2. Inst(k, p) \in Insts BY <2>1, <3>1, NamesOfInstances DEF Shown
    <3> QED BY <3>1, <3>2 DEF InstancesType
  <2> QED BY <2>3, <2>4, <2>5 DEF IsThere, Stands, Instance, Up
<1>2. IInv => InstInv BY DEF IInv
<1>3. Spec => [](TruthInv /\ StandInv) BY TruthStarts, TruthKept, Kept, PTL DEF Spec
<1> QED BY <1>1, <1>2, <1>3, Kept, PTL

=============================================================================
