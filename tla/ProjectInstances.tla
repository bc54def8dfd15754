-------------------------- MODULE ProjectInstances --------------------------
(***************************************************************************)
(* The Odoo instances of projects on the host: one the project is created  *)
(* with ("own"), one beside a connected odoo.sh project ("connected"), one *)
(* restored from a backup, and restarts of the first two.  The API writes  *)
(* a request on the project's row and queues a job; one worker carries the *)
(* jobs out, one at a time, by scripts it runs on the host.                *)
(*                                                                         *)
(* A port stands for the pair an instance takes.  Which modules, versions  *)
(* and passwords, the repository on GitHub and the setup of the database   *)
(* are left out; the database answers every statement.                     *)
(***************************************************************************)
EXTENDS Naturals, Sequences, FiniteSets

CONSTANTS Projects,
          Names,   \* directory names project names give: two projects may share one
          Ports,   \* the configured range, in its order
          Calls,   \* requests the API serves at once
          NoPort, NoProject, NoJob,
          Studied  \* bound: names and types of the projects, and what `left` is to begin with

Kinds == {"own", "connected", "restored", "restart"}
Statuses == {"none", "pending", "ready", "failed"}
Budget == [asks: Nat, faults: Nat, crashes: Nat, previews: Nat]

ASSUME InstancesAssumption ==
    /\ Ports \subseteq Nat /\ NoPort \notin Ports /\ NoProject \notin Projects
    /\ Studied \subseteq [name: [Projects -> Names], type: [Projects -> {"ai", "odoo_sh"}], left: Budget]

VARIABLES given,      \* the projects' names and types
          row,        \* projects: the statuses and ports of a row
          call,       \* requests being served
          queue, working, done,  \* BullMQ: jobs waiting, the active one, finished ones it remembers
          host,       \* the instances on the host
          overlooked, \* <<kind, project>> whose last request has put no job in the queue
          overtaken,  \* <<kind, project>> once asked for while a request or a job about it was there
          left

instanceVars == <<given, row, call, queue, working, done, host, overlooked, overtaken, left>>
jobs == <<queue, working, done>>

\* Names of instances: the derived one, or one made of the project's id.
Insts == ({"own"} \X Names) \cup ({"connected", "restored"} \X Projects)
Inst(k, p) == IF k = "own" THEN <<k, given.name[p]>> ELSE <<k, p>>

Row == [there: BOOLEAN, hostReady: BOOLEAN, st: [Kinds -> Statuses], port: [Kinds -> Ports \cup {NoPort}]]
\* Half built; down, its unit stopped; or up, its unit started, and kept so by systemd.
Instance == [st: {"none", "half", "down", "up"}, port: Ports \cup {NoPort}, of: Projects \cup {NoProject}]
Job == [kind: Kinds, inst: Insts, of: Projects, port: Ports \cup {NoPort}, resume: BOOLEAN, stalled: BOOLEAN,
        pc: {"waiting", "allocate", "build", "start", "grant", "mark", "secure", "run", "upgrade",
             "record", "finish"}]
Call == [pc: {"idle", "allocate", "script", "start", "insert", "update", "enqueue", "teardown", "remove"},
         kind: Kinds \cup {"delete"}, of: Projects \cup {NoProject},
         port: Ports \cup {NoPort}, resume: BOOLEAN]

ASSUME NoJobAssumption == NoJob \notin Job

NoRow == [there |-> FALSE, hostReady |-> FALSE, st |-> [k \in Kinds |-> "none"],
          port |-> [k \in Kinds |-> NoPort]]
Nothing == [st |-> "none", port |-> NoPort, of |-> NoProject]
Free == [pc |-> "idle", kind |-> "delete", of |-> NoProject, port |-> NoPort, resume |-> FALSE]

InstancesInit ==
    /\ \E x \in Studied : given = [name |-> x.name, type |-> x.type] /\ left = x.left
    /\ row = [p \in Projects |-> [NoRow EXCEPT !.there = (given.type[p] = "odoo_sh")]]
    /\ call = [c \in Calls |-> Free]
    /\ queue = <<>> /\ working = NoJob /\ done = {}
    /\ host = [i \in Insts |-> Nothing]
    /\ overlooked = {} /\ overtaken = {}

Spend(what) == left' = [left EXCEPT ![what] = @ - 1]
\* Something fails on the host.
Fault == left["faults"] > 0 /\ Spend("faults")
Goes(c, pc) == call' = [call EXCEPT ![c].pc = pc]
Ends(c) == call' = [call EXCEPT ![c] = Free]
\* An update of a row that has been deleted changes nothing.
SetStatus(k, p, s) == row' = [row EXCEPT ![p].st[k] = IF row[p].there THEN s ELSE @]

(* --------------------------------- ports -------------------------------- *)

\* The columns each allocator looks at.
Columns(k) == CASE k = "own" -> {"own"}
                [] k = "restored" -> {"own", "restored"}
                [] k = "connected" -> {"own", "restored", "connected"}
Recorded(k) == {row[p].port[j] : p \in {q \in Projects : row[q].there}, j \in Columns(k)}
Listening == {host[i].port : i \in {j \in Insts : host[j].st = "up"}}
FreePorts(k) == Ports \ (Recorded(k) \cup Listening)
\* The lowest free one, when there is one.
Allocated(k) == {n \in FreePorts(k) : \A m \in FreePorts(k) : n <= m}

(* -------------------------------- scripts ------------------------------- *)

Up(port, p) == [st |-> "up", port |-> port, of |-> p]
Half(port, p) == [st |-> "half", port |-> port, of |-> p]

\* create_project and the script of a restore refuse what is there already under the name,
\* in any state, and a port something listens at.
Refuses(i, port) == host[i].st # "none" \/ port \in Listening
Builds(i, port, p) == host' = [host EXCEPT ![i] = Half(port, p)]

\* Later they start the unit and look once whether it is active; one that finds its port taken
\* since is started again and again by systemd, and may be found active or not.
Starts(i, port, p) ==
    /\ host[i] = Half(port, p)
    /\ host' = [host EXCEPT ![i] = Up(port, p)]

\* Whatever else fails, they remove what is there under the name.
Thwarted(i, port, p) == host[i] # Half(port, p) \/ port \in Listening
CleansUp(i) == host' = [host EXCEPT ![i] = Nothing]

\* A restart begins by stopping the unit.
Stopped(x) == IF x.st = "up" THEN [x EXCEPT !.st = "down"] ELSE x

\* A script that was given up, or whose caller died, stops where it is, or goes on: one that
\* builds ends with the instance up or cleans up, one that restarts with the unit started.
InHand(i) ==
    \/ working # NoJob /\ working.inst = i /\ working.pc \in {"start", "upgrade"}
    \/ \E c \in Calls : call[c].pc = "start" /\ Inst("own", call[c].of) = i
GoesOn(i) ==
    /\ host[i].st \in {"half", "down"} /\ ~InHand(i)
    /\ \/ host' = [host EXCEPT ![i].st = "up"]
       \/ host[i].st = "half" /\ CleansUp(i)
    /\ UNCHANGED <<given, row, call, jobs, overlooked, overtaken, left>>

(* --------------------------------- queue -------------------------------- *)

JobId(j) == <<j.kind, j.inst>>
Active == IF working = NoJob THEN {} ELSE {JobId(working)}
Unfinished == {JobId(queue[n]) : n \in DOMAIN queue} \cup Active

JobAbout(k, p) ==
    \/ \E n \in DOMAIN queue : queue[n].kind = k /\ queue[n].of = p
    \/ working # NoJob /\ working.kind = k /\ working.of = p

\* A finished job of the same id is removed first, ...
KeepsFinished(id) == {}
Forgets(id) == {id}

\* ... then `add` drops a job whose id is still known.
Enqueued(job, p) ==
    LET id == JobId(job)
        known == Unfinished \cup (done \ Forgets(id)) IN
      /\ done' = done \ Forgets(id)
      /\ queue' = IF id \in known THEN queue ELSE Append(queue, job)
      /\ overlooked' = IF id \in Unfinished THEN overlooked \cup {<<job.kind, p>>} ELSE overlooked
      /\ UNCHANGED working

(* ------------------------------- requests ------------------------------- *)

\* createAiProject.  Without modules the instance is made by the request itself.
AskCreate(c, p) ==
    /\ call[c].pc = "idle" /\ left["asks"] > 0 /\ Spend("asks")
    /\ given.type[p] = "ai" /\ ~row[p].there /\ \A d \in Calls : call[d].of # p
    /\ p \notin {host[i].of : i \in Insts} /\ ~(working # NoJob /\ working.of = p)
    /\ \A n \in DOMAIN queue : queue[n].of # p
    /\ \E direct \in BOOLEAN :
           call' = [call EXCEPT ![c] = [Free EXCEPT !.pc = "allocate", !.kind = "own", !.of = p,
                                                    !.resume = direct]]
    /\ UNCHANGED <<given, row, jobs, host, overlooked, overtaken>>

\* A retry of a failed connected instance goes on with the one that was built, which
\* listens at its port.
Resumes(p) == row[p].st["connected"] = "failed" /\ row[p].hostReady
NeverKept(resume) == FALSE
PortKept(resume) == resume

\* What each request is refused for.
Admits(k, p) ==
    /\ row[p].there
    /\ k = "connected" => given.type[p] = "odoo_sh"
    /\ k \in {"connected", "restored"} => row[p].st[k] \notin {"pending", "ready"}
    /\ k = "restart" => given.type[p] = "ai" \/ row[p].st["connected"] = "ready"

\* request and restart: the row is read; a connected instance needs a port.
Ask(c, k, p) ==
    /\ call[c].pc = "idle" /\ left["asks"] > 0 /\ Spend("asks")
    /\ k # "own" /\ Admits(k, p)
    /\ LET resume == k = "connected" /\ Resumes(p) IN
         call' = [call EXCEPT ![c] =
                    [pc |-> IF k = "connected" /\ ~PortKept(resume) THEN "allocate" ELSE "update",
                     kind |-> k, of |-> p, resume |-> resume,
                     port |-> IF resume THEN row[p].port[k] ELSE NoPort]]
    /\ overtaken' = IF JobAbout(k, p) \/ \E d \in Calls : call[d].of = p /\ call[d].kind = k
                    THEN overtaken \cup {<<k, p>>} ELSE overtaken
    /\ UNCHANGED <<given, row, jobs, host, overlooked>>

AllocateFor(c) ==
    /\ call[c].pc = "allocate"
    /\ \/ \E n \in Allocated(call[c].kind) :
              call' = [call EXCEPT ![c].port = n,
                                   ![c].pc = CASE call[c].kind = "connected" -> "update"
                                               [] call[c].kind = "own" /\ call[c].resume -> "script"
                                               [] OTHER -> "insert"]
       \/ Allocated(call[c].kind) = {} /\ Ends(c)
    /\ UNCHANGED <<given, row, jobs, host, overlooked, overtaken, left>>

\* provision, in the request: the row is written only when the instance is there.
Script(c) ==
    /\ call[c].pc = "script"
    /\ LET p == call[c].of  i == Inst("own", p)  port == call[c].port IN
         \/ ~Refuses(i, port) /\ Builds(i, port, p) /\ Goes(c, "start")
         \/ Refuses(i, port) /\ Ends(c) /\ UNCHANGED host
    /\ UNCHANGED <<given, row, jobs, overlooked, overtaken, left>>

ScriptStarts(c) ==
    /\ call[c].pc = "start"
    /\ LET p == call[c].of  i == Inst("own", p)  port == call[c].port IN
         \/ Starts(i, port, p) /\ Goes(c, "insert") /\ UNCHANGED left
         \/ Thwarted(i, port, p) /\ CleansUp(i) /\ Ends(c) /\ UNCHANGED left
         \/ Fault /\ Ends(c) /\ UNCHANGED host
    /\ UNCHANGED <<given, row, jobs, overlooked, overtaken>>

\* The row of a new project: with its instance, or pending.
Insert(c) ==
    /\ call[c].pc = "insert"
    /\ LET p == call[c].of IN
         /\ row' = [row EXCEPT ![p] = [NoRow EXCEPT !.there = TRUE, !.port["own"] = call[c].port,
                                         !.st["own"] = IF call[c].resume THEN "ready" ELSE "pending"]]
         /\ overlooked' = overlooked \ (Kinds \X {p})
         /\ IF call[c].resume THEN Ends(c) ELSE Goes(c, "enqueue")
    /\ UNCHANGED <<given, jobs, host, overtaken, left>>

\* The row says pending, under whatever it said since it was read.
Update(c) ==
    /\ call[c].pc = "update"
    /\ LET p == call[c].of  k == call[c].kind IN
         /\ row' = IF ~row[p].there THEN row
                   ELSE [row EXCEPT ![p].st[k] = "pending",
                                    ![p].port[k] = call[c].port,
                                    ![p].hostReady = @ /\ (k = "connected" => call[c].resume)]
         /\ overlooked' = overlooked \ {<<k, p>>}
    /\ Goes(c, "enqueue")
    /\ UNCHANGED <<given, jobs, host, overtaken, left>>

\* The instance a job is about: a restart is of the project's own, or of the connected one.
Target(k, p) == IF k # "restart" THEN Inst(k, p)
                ELSE Inst(IF given.type[p] = "ai" THEN "own" ELSE "connected", p)
JobOf(c) == [kind |-> call[c].kind, inst |-> Target(call[c].kind, call[c].of), of |-> call[c].of,
             port |-> call[c].port, resume |-> call[c].resume,
             stalled |-> FALSE, pc |-> "waiting"]

\* Redis may refuse: only a restore takes its request back.
Enqueue(c) ==
    /\ call[c].pc = "enqueue"
    /\ LET p == call[c].of  k == call[c].kind IN
         \/ Enqueued(JobOf(c), p) /\ UNCHANGED <<row, left>>
         \/ /\ Fault
            /\ IF k = "restored" THEN SetStatus(k, p, "failed") /\ UNCHANGED overlooked
               ELSE overlooked' = overlooked \cup {<<k, p>>} /\ UNCHANGED row
            /\ UNCHANGED jobs
    /\ Ends(c)
    /\ UNCHANGED <<given, host, overtaken>>

\* destroy: the project's directory on the host is torn down, whatever is in it, then the
\* row deleted.  A teardown that fails does not stop it.
AskDelete(c, p) ==
    /\ call[c].pc = "idle" /\ row[p].there /\ left["asks"] > 0 /\ Spend("asks")
    /\ call' = [call EXCEPT ![c] = [Free EXCEPT !.pc = IF given.type[p] = "ai" THEN "teardown" ELSE "remove",
                                                !.of = p]]
    /\ UNCHANGED <<given, row, jobs, host, overlooked, overtaken>>

Teardown(c) ==
    /\ call[c].pc = "teardown"
    /\ \/ host' = [host EXCEPT ![Inst("own", call[c].of)] = Nothing] /\ UNCHANGED left
       \/ Fault /\ UNCHANGED host
    /\ Goes(c, "remove")
    /\ UNCHANGED <<given, row, jobs, overlooked, overtaken>>

Remove(c) ==
    /\ call[c].pc = "remove"
    /\ row' = [row EXCEPT ![call[c].of] = NoRow]
    /\ Ends(c)
    /\ UNCHANGED <<given, jobs, host, overlooked, overtaken, left>>

(* -------------------------------- worker -------------------------------- *)

FirstStep(j) == CASE j.kind = "restart" -> "run"
                  [] j.kind = "restored" -> "allocate"
                  [] j.kind \in {"own", "connected"} -> IF j.resume THEN "secure" ELSE "build"
Then(pc) == working' = [working EXCEPT !.pc = pc]
At(pc) == working # NoJob /\ working.pc = pc
\* The outcome is written on the row and the job is about to end.
Outcome(s) == SetStatus(working.kind, working.of, s) /\ Then("finish")
SameOtherwise == UNCHANGED <<given, call, queue, done, overlooked, overtaken>>

TakeJob ==
    /\ working = NoJob /\ queue # <<>>
    /\ working' = [Head(queue) EXCEPT !.pc = FirstStep(Head(queue))]
    /\ queue' = Tail(queue)
    /\ UNCHANGED <<given, row, call, done, host, overlooked, overtaken, left>>

\* A restore takes its port when it is carried out.
AllocateInJob ==
    /\ At("allocate")
    /\ \/ \E n \in Allocated("restored") :
              working' = [working EXCEPT !.port = n, !.pc = "build"] /\ UNCHANGED row
       \/ Allocated("restored") = {} /\ Outcome("failed")
    /\ SameOtherwise /\ UNCHANGED <<host, left>>

Build ==
    /\ At("build")
    /\ LET i == working.inst  port == working.port IN
         \/ ~Refuses(i, port) /\ Builds(i, port, working.of) /\ Then("start") /\ UNCHANGED row
         \/ Refuses(i, port) /\ Outcome("failed") /\ UNCHANGED host
    /\ SameOtherwise /\ UNCHANGED left

\* A script that fails has cleaned up, or is given up (GoesOn).
Start ==
    /\ At("start")
    /\ LET i == working.inst  port == working.port  p == working.of IN
         \/ /\ Starts(i, port, p)
            /\ Then(IF working.kind = "restored" THEN "record" ELSE "grant")
            /\ UNCHANGED <<row, left>>
         \/ Thwarted(i, port, p) /\ CleansUp(i) /\ Outcome("failed") /\ UNCHANGED left
         \/ Fault /\ Outcome("failed") /\ UNCHANGED host
    /\ SameOtherwise

\* The platform is let into addons/; after which a connected instance is worth resuming.
Grant ==
    /\ At("grant")
    /\ \/ Then(IF working.kind = "own" THEN "record" ELSE "mark") /\ UNCHANGED <<row, left>>
       \/ Fault /\ Outcome("failed")
    /\ SameOtherwise /\ UNCHANGED host

MarkHostReady ==
    /\ At("mark")
    /\ row' = [row EXCEPT ![working.of].hostReady = row[working.of].there]
    /\ Then("secure")
    /\ SameOtherwise /\ UNCHANGED <<host, left>>

\* The repository is pulled, or not, and the certificate issued.
Secure ==
    /\ At("secure")
    /\ \/ Then("record") /\ UNCHANGED <<row, left>>
       \/ Fault /\ Outcome("failed")
    /\ SameOtherwise /\ UNCHANGED host

\* restart: the unit is stopped; nothing there, or not enough, is refused.
Restart ==
    /\ At("run")
    /\ LET x == host[working.inst] IN
         \/ /\ x.st # "none" /\ Then("upgrade")
            /\ host' = [host EXCEPT ![working.inst] = Stopped(x)] /\ UNCHANGED row
         \/ x.st \in {"none", "half"} /\ Outcome("failed") /\ UNCHANGED host
    /\ SameOtherwise /\ UNCHANGED left

\* pull, upgrade, start.  After a failure the unit is started on the code it had, and becomes
\* active or not; a script cut off leaves it stopped.
Upgrade ==
    /\ At("upgrade")
    /\ LET i == working.inst
           active == host' = [host EXCEPT ![i].st = "up"] IN
         \/ host[i].st # "none" /\ active /\ Outcome("ready") /\ UNCHANGED left
         \/ host[i].st = "none" /\ Outcome("failed") /\ UNCHANGED <<host, left>>
         \/ host[i].st # "none" /\ Fault /\ Outcome("failed") /\ (active \/ UNCHANGED host)
    /\ SameOtherwise

\* The port is written with the outcome, but for a connected instance, whose request has.
Record ==
    /\ At("record")
    /\ LET p == working.of  k == working.kind IN
         row' = IF ~row[p].there THEN row
                ELSE [row EXCEPT ![p].st[k] = "ready",
                                 ![p].port[k] = IF k = "connected" THEN @ ELSE working.port]
    /\ Then("finish")
    /\ SameOtherwise /\ UNCHANGED <<host, left>>

FinishJob ==
    /\ At("finish")
    /\ done' = done \cup {JobId(working)} /\ working' = NoJob
    /\ UNCHANGED <<given, row, call, queue, host, overlooked, overtaken, left>>

\* The worker dies; the job is found stalled and carried out again, from its beginning, but
\* only once.
WorkerDies ==
    /\ working # NoJob /\ left["crashes"] > 0 /\ Spend("crashes")
    /\ working' = NoJob
    /\ IF working.stalled
       THEN /\ done' = done \cup {JobId(working)}
            /\ overlooked' = overlooked \cup {<<working.kind, working.of>>} /\ UNCHANGED queue
       ELSE /\ queue' = <<[working EXCEPT !.pc = "waiting", !.stalled = TRUE]>> \o queue
            /\ UNCHANGED <<done, overlooked>>
    /\ UNCHANGED <<given, row, call, host, overtaken>>

Worker == \/ TakeJob \/ AllocateInJob \/ Build \/ Start \/ Grant \/ MarkHostReady \/ Secure \/ Restart
          \/ Upgrade \/ Record \/ FinishJob
Asks(c) == \E p \in Projects : \/ AskCreate(c, p) \/ AskDelete(c, p)
                               \/ \E k \in Kinds : Ask(c, k, p)
ServesBut(c) == AllocateFor(c) \/ Script(c) \/ ScriptStarts(c) \/ Insert(c) \/ Update(c) \/ Enqueue(c) \/ Teardown(c)

(* ------------------------------ properties ------------------------------ *)

InstancesType ==
    /\ given \in [name: [Projects -> Names], type: [Projects -> {"ai", "odoo_sh"}]]
    /\ row \in [Projects -> Row] /\ call \in [Calls -> Call]
    /\ queue \in Seq(Job) /\ working \in Job \cup {NoJob} /\ done \subseteq Kinds \X Insts
    /\ host \in [Insts -> Instance]
    /\ overlooked \subseteq Kinds \X Projects /\ overtaken \subseteq Kinds \X Projects
    /\ left \in Budget
    /\ \A n, m \in DOMAIN queue : n # m => JobId(queue[n]) # JobId(queue[m])

\* Whatever is pending is under way: a request that is still to queue its job, or a job that
\* is waiting or being carried out, is about it, however often people ask and whatever
\* fails on the host.  `overlooked` is what the code lets go: a request whose job was
\* dropped because one of its id had not finished, that Redis refused or the API died
\* before queueing, or whose job two workers died of (project-provisioning.queue.ts:163-167).
PendingIsUnderWay ==
    \A k \in Kinds, p \in Projects :
        (row[p].there /\ row[p].st[k] = "pending" /\ <<k, p>> \notin overlooked) =>
            \/ \E c \in Calls : call[c].pc = "enqueue" /\ call[c].kind = k /\ call[c].of = p
            \/ JobAbout(k, p)

\* An instance the row calls ready is up at the port the row gives, its unit started, whatever
\* requests and jobs are about it and wherever scripts stop: unless the last restart of it is
\* under way, failed or was lost; or a deletion has torn it down; or its project's namesake has
\* put its own there or taken it away; or it is a connected one that was asked for again while
\* a request or a job for it was there (project-connected-instance.service.ts:174-182, 193-196;
\* projects.service.ts:311-316, 1332).  Started is not serving: two instances may be started at
\* one port, and take turns at it, when the second was begun or given the port while the first was
\* not listening, which Columns and Starts allow and nothing here denies.
Namesakes(p) == {q \in Projects \ {p} : given.name[q] = given.name[p]}
Restarts(p) ==
    \/ row[p].st["restart"] \in {"pending", "failed"}
    \/ JobAbout("restart", p) \/ <<"restart", p>> \in overlooked
Undone(k, p) ==
    \/ k \in {"own", "connected"} /\ Restarts(p)
    \/ k = "own" /\ \/ Namesakes(p) # {} \/ <<k, p>> \in overlooked
                    \/ \E c \in Calls : call[c].of = p /\ call[c].pc = "remove"
    \/ k = "connected" /\ <<k, p>> \in overtaken
RowsTellTheTruth ==
    \A k \in Kinds \ {"restart"}, p \in Projects :
        (row[p].st[k] = "ready" /\ ~Undone(k, p)) => host[Inst(k, p)] = Up(row[p].port[k], p)
=============================================================================
