----------------------------- MODULE Scheduler -----------------------------
(***************************************************************************)
(* The scheduler: job definitions in ODB, the messages that servers send   *)
(* about them, and the process that keeps a set of jobs and a greenlet for *)
(* each one.                                                               *)
(*                                                                         *)
(* Greenlets switch only where they do I/O, sleep or wait for the lock.    *)
(* spawn_greenlet waits up to 0.2 s for what it has spawned, so a job may  *)
(* already run before its greenlet is stored, with the lock held all the   *)
(* time.  Two servers may publish in another order than they commit, and   *)
(* handlers that wait for the lock may get it in any order: messages under *)
(* way are a set.                                                          *)
(***************************************************************************)
EXTENDS Naturals, FiniteSets

CONSTANTS
    Ids,         \* rows of the table of jobs
    Names,       \* names of jobs
    OneTime,     \* rows that are one-time jobs
    MaxRepeats,  \* row -> max_repeats, or 0 if there is none
    Nothing,     \* no job, no greenlet
    MaxVersions, \* bound: how many times definitions change
    MaxEvents    \* bound: executions by hand, callbacks that fail, crashes

Versions == 1..MaxVersions

\* A Job is an object, built from a message or from what was read from ODB.
Jobs == [id : Ids, name : Names, ver : Versions, from : {"msg", "odb"}]

\* Its greenlet is spawned by create, and perhaps once more by run.
Greenlets == [job : Jobs, by : {"create", "run"}]

ASSUME SchedulerAssumption ==
    /\ OneTime \subseteq Ids
    /\ MaxRepeats \in [Ids -> Nat]
    /\ \A i \in OneTime : MaxRepeats[i] = 1
    /\ Nothing \notin Names \cup Jobs \cup Greenlets
    /\ {MaxVersions, MaxEvents} \subseteq Nat

VARIABLES
    odb,        \* row -> if it is there, its name, version and is_active
    versions,   \* versions given so far
    msgs,       \* messages committed to, and not handled yet
    phase,      \* how far Scheduler.run got
    listening,  \* the broker client is subscribed
    list,       \* what add_scheduler_jobs read
    jobs,       \* name -> the Job in Scheduler.jobs
    obj,        \* Job -> current_run, keep_running, max_repeats_reached, if start_time is set
    live,       \* greenlet -> where it is
    greenlets,  \* Scheduler.job_greenlets
    calls,      \* callbacks under way
    lock,       \* who holds Scheduler.lock
    disturbed,  \* history: names that were changed with something under way
    events      \* executions by hand, callbacks that failed and crashes so far

store   == <<odb, versions>>
process == <<phase, listening, list, jobs, obj, live, greenlets, calls, lock>>
history == <<disturbed, events>>
vars    == <<store, msgs, process, history>>

-----------------------------------------------------------------------------
Msgs == [type : {"create", "edit", "delete", "execute"}, id : Ids, name : Names,
         ver : 0..MaxVersions]
Deactivation == [type : {"deactivate"}, id : Ids, name : Names, ver : {0}]

Unlocked == [by |-> "nobody", what |-> Nothing, todo |-> {}]

TypeOK ==
    /\ odb \in [Ids -> [there : BOOLEAN, name : Names \cup {Nothing}, ver : 0..MaxVersions,
                        active : BOOLEAN]]
    /\ versions \in 0..MaxVersions
    /\ msgs \subseteq Msgs \cup Deactivation
    /\ phase \in {"down", "start", "read", "added", "ready"}
    /\ listening \in BOOLEAN
    /\ \A n \in Names : jobs[n] # Nothing => jobs[n] \in DOMAIN obj /\ jobs[n].name = n
    /\ DOMAIN obj \subseteq Jobs
    /\ obj \in [DOMAIN obj -> [run : Nat, keep : BOOLEAN, reached : BOOLEAN, start : BOOLEAN]]
    /\ \A o \in DOMAIN obj : obj[o].reached => ~obj[o].keep
    /\ DOMAIN live \subseteq Greenlets
    /\ live \in [DOMAIN live -> {"loop", "max"}]
    /\ \A g \in DOMAIN live : g.job \in DOMAIN obj
    /\ \A n \in Names : greenlets[n] # Nothing =>
          greenlets[n] \in Greenlets /\ greenlets[n].job.name = n
    /\ \A c \in calls : c.job \in DOMAIN obj /\ c.at \in {"send", "unschedule"}
    /\ lock.by \in {"nobody", "create", "run", "execute"}
    /\ lock.by = "nobody" => lock = Unlocked
    /\ disturbed \subseteq Names

NoRow == [there |-> FALSE, name |-> Nothing, ver |-> 0, active |-> FALSE]

NoJobs == [x \in {} |-> {}]

Init ==
    /\ odb = [i \in Ids |-> NoRow]
    /\ versions = 0
    /\ msgs = {}
    /\ phase = "down" /\ listening = FALSE /\ list = {}
    /\ jobs = [n \in Names |-> Nothing]
    /\ obj = NoJobs
    /\ live = NoJobs
    /\ greenlets = [n \in Names |-> Nothing]
    /\ calls = {}
    /\ lock = Unlocked
    /\ disturbed = {}
    /\ events = 0

-----------------------------------------------------------------------------
(* Services that change definitions: each commits, then tells the          *)
(* scheduler.                                                              *)

About(m, n) == m.name = n \/ odb[m.id].name = n

\* Something about name n is under way that its change may meet with.
UnderWay(n) ==
    \/ phase # "ready" \/ ~listening
    \/ \E m \in msgs : About(m, n)
    \/ \E c \in calls : c.job.name = n /\ c.job.id \in OneTime
    \/ \E g \in DOMAIN live :
          g.job.name = n /\ g.job.id \in OneTime /\ live[g] = "max"
    \/ lock.by = "create" /\ lock.what.job.name = n

Taken(i, n) == \E j \in Ids \ {i} : odb[j].there /\ odb[j].name = n

\* Version v of row i is stored, and message type sent.
Change(i, n, type, row) ==
    /\ versions < MaxVersions
    /\ versions' = versions + 1
    /\ odb' = [odb EXCEPT ![i] = row]
    /\ msgs' = msgs \cup {[type |-> type, id |-> i, name |-> n, ver |-> versions + 1]}
    /\ UNCHANGED <<process, events>>

Event == events < MaxEvents /\ events' = events + 1

Disturb(N) == disturbed' = disturbed \cup N

Row(n, active) ==
    [there |-> TRUE, name |-> n, ver |-> versions + 1, active |-> active]

\* An inactive job is deleted from the scheduler.
Create(i, n, active) ==
    /\ odb[i].ver = 0
    /\ ~Taken(i, n)
    /\ Change(i, n, IF active THEN "create" ELSE "delete", Row(n, active))
    /\ Disturb({n} \cap {m \in Names : UnderWay(m)})

\* The message to edit tells the old name too, which the scheduler does not look at.
Edit(i, n, active) ==
    /\ odb[i].there
    /\ ~Taken(i, n)
    /\ Change(i, n, IF active THEN "edit" ELSE "delete", Row(n, active))
    /\ Disturb(IF n = odb[i].name THEN {n} \cap {m \in Names : UnderWay(m)}
               ELSE {n, odb[i].name})

Delete(i) ==
    /\ odb[i].there
    /\ Change(i, odb[i].name, "delete",
              [NoRow EXCEPT !.ver = odb[i].ver])
    /\ Disturb({odb[i].name} \cap {m \in Names : UnderWay(m)})

Execute(i) ==
    /\ odb[i].there
    /\ Event
    /\ msgs' = msgs \cup {[type |-> "execute", id |-> i, name |-> odb[i].name, ver |-> 0]}
    /\ Disturb({odb[i].name : j \in {i} \cap OneTime})
    /\ UNCHANGED <<store, process>>

\* zato.scheduler.job.set-active-status, asked for by the scheduler.
SetActiveStatus(m) ==
    /\ m \in msgs
    /\ m.type = "deactivate"
    /\ msgs' = msgs \ {m}
    /\ odb' = [odb EXCEPT ![m.id].active = FALSE]
    /\ UNCHANGED <<versions, process, history>>

-----------------------------------------------------------------------------
(* Scheduler.run.                                                          *)

Start ==
    /\ phase = "down"
    /\ phase' = "start"
    /\ UNCHANGED <<store, msgs, listening, list, jobs, obj, live, greenlets, calls,
                   lock, history>>

\* The broker client connects in a thread of its own.
Listen ==
    /\ phase # "down"
    /\ ~listening
    /\ listening' = TRUE
    /\ UNCHANGED <<store, msgs, phase, list, jobs, obj, live, greenlets, calls,
                   lock, history>>

Lose(m) ==
    /\ m \in msgs
    /\ m.type # "deactivate"
    /\ ~listening
    /\ msgs' = msgs \ {m}
    /\ UNCHANGED <<store, process, history>>

ReadJobs ==
    /\ phase = "start"
    /\ phase' = "read"
    /\ list' = {[id |-> i, name |-> odb[i].name, ver |-> odb[i].ver, from |-> "odb"] :
                  i \in {j \in Ids : odb[j].there /\ odb[j].active}}
    /\ UNCHANGED <<store, msgs, listening, jobs, obj, live, greenlets, calls, lock,
                   history>>

\* A new Job.  get_start_time may find that it has run all its times already.
Fresh(exhausted) ==
    [run |-> 0, keep |-> ~exhausted, reached |-> exhausted, start |-> ~exhausted]

\* clone passes on the start time only.
Cloned(exhausted) == [Fresh(FALSE) EXCEPT !.start = ~exhausted]

Added(o, job) == [x \in DOMAIN obj \cup {o} |-> IF x = o THEN job ELSE obj[x]]

MayBeExhausted(i) == i \notin OneTime /\ MaxRepeats[i] > 0

\* create(spawn=False) for all that was read.  Adding to the set a job of the
\* same name as one that is there changes nothing.
AddJobs ==
    /\ phase = "read"
    /\ lock = Unlocked
    /\ phase' = "added"
    /\ \E X \in SUBSET {o \in list : MayBeExhausted(o.id)} :
          obj' = [o \in DOMAIN obj \cup list |->
                     IF o \in list THEN Fresh(o \in X) ELSE obj[o]]
    /\ jobs' = [n \in Names |->
                   IF jobs[n] = Nothing /\ \E o \in list : o.name = n
                   THEN CHOOSE o \in list : o.name = n ELSE jobs[n]]
    /\ list' = {}
    /\ UNCHANGED <<store, msgs, listening, live, greenlets, calls, lock, history>>

RunStart ==
    /\ phase = "added"
    /\ lock = Unlocked
    /\ lock' = [by |-> "run", what |-> Nothing,
                todo |-> {n \in Names : jobs[n] # Nothing}]
    /\ UNCHANGED <<store, msgs, phase, listening, list, jobs, obj, live, greenlets,
                   calls, history>>

Spawned(g) == [x \in DOMAIN live \cup {g} |-> IF x = g THEN "loop" ELSE live[x]]

\* The next job of the set is spawned, also if create has spawned it already.
RunNext(n) ==
    LET o == jobs[n]
        g == [job |-> o, by |-> "run"]
    IN  /\ lock.by = "run" /\ lock.what = Nothing
        /\ n \in lock.todo
        /\ \/ /\ obj[o].reached
              /\ lock' = [lock EXCEPT !.todo = @ \ {n}]
              /\ UNCHANGED live
           \/ /\ ~obj[o].reached
              /\ lock' = [lock EXCEPT !.todo = @ \ {n}, !.what = g]
              /\ live' = Spawned(g)
        /\ UNCHANGED <<store, msgs, phase, listening, list, jobs, obj, greenlets,
                       calls, history>>

\* spawn_greenlet is back, and the greenlet is stored.
SpawnDone ==
    /\ lock.by \in {"create", "run"} /\ lock.what # Nothing
    /\ greenlets' = [greenlets EXCEPT ![lock.what.job.name] = lock.what]
    /\ lock' = IF lock.by = "run" THEN [lock EXCEPT !.what = Nothing] ELSE Unlocked
    /\ UNCHANGED <<store, msgs, phase, listening, list, jobs, obj, live, calls, history>>

RunDone ==
    /\ lock.by = "run" /\ lock.what = Nothing /\ lock.todo = {}
    /\ phase' = "ready"
    /\ lock' = Unlocked
    /\ UNCHANGED <<store, msgs, listening, list, jobs, obj, live, greenlets, calls,
                   history>>

Crash ==
    /\ phase # "down"
    /\ Event
    /\ phase' = "down" /\ listening' = FALSE /\ list' = {}
    /\ jobs' = [n \in Names |-> Nothing]
    /\ obj' = NoJobs /\ live' = NoJobs
    /\ greenlets' = [n \in Names |-> Nothing]
    /\ calls' = {}
    /\ lock' = Unlocked
    /\ disturbed' = {n \in Names : \E m \in msgs : About(m, n)}
    /\ UNCHANGED <<store, msgs>>

-----------------------------------------------------------------------------
(* Messages to the scheduler, each handled in a greenlet of its own.       *)

\* What is left of the greenlets when g is killed.  The kill is not waited for:
\* if g has just been given the lock it still gets to its next switch.
Kill(g) ==
    LET rest == [x \in DOMAIN live \ {g} |-> live[x]]
    IN  IF g \in DOMAIN live THEN {rest} \cup (IF live[g] = "max" THEN {live} ELSE {})
        ELSE {live}

Handled(m) ==
    /\ m \in msgs
    /\ listening
    /\ lock = Unlocked
    /\ msgs' = msgs \ {m}

JobOf(m) == [id |-> m.id, name |-> m.name, ver |-> m.ver, from |-> "msg"]

Spawning(o) == [by |-> "create", what |-> [job |-> o, by |-> "create"], todo |-> {}]

\* _create: the set keeps the job it has, and the new one is spawned.
HandleCreate(m) ==
    LET o == JobOf(m)
    IN  /\ m.type = "create"
        /\ Handled(m)
        /\ \E x \in {FALSE, MayBeExhausted(m.id)} : obj' = Added(o, Fresh(x))
        /\ jobs' = [jobs EXCEPT ![m.name] = IF @ = Nothing THEN o ELSE @]
        /\ live' = Spawned([job |-> o, by |-> "create"])
        /\ lock' = Spawning(o)
        /\ UNCHANGED <<store, phase, listening, list, greenlets, calls, history>>

\* Mutant: edit does not unschedule what there is.
EditOnly(m) ==
    LET o == JobOf(m)
    IN  /\ m.type = "edit"
        /\ Handled(m)
        /\ obj' = Added(o, Cloned(FALSE))
        /\ jobs' = [jobs EXCEPT ![m.name] = o]
        /\ live' = Spawned([job |-> o, by |-> "create"])
        /\ lock' = Spawning(o)
        /\ UNCHANGED <<store, phase, listening, list, greenlets, calls, history>>

\* edit: the new definition's keep_running is set, not that of the job which is
\* in the set, and a clone of it is created.
HandleEdit(m) ==
    LET o == JobOf(m)
        g == [job |-> o, by |-> "create"]
    IN  /\ m.type = "edit"
        /\ Handled(m)
        /\ \E x \in {FALSE, MayBeExhausted(m.id)} : obj' = Added(o, Cloned(x))
        /\ jobs' = [jobs EXCEPT ![m.name] = o]
        /\ \E L \in Kill(greenlets[m.name]) :
              live' = [y \in DOMAIN L \cup {g} |-> IF y = g THEN "loop" ELSE L[y]]
        /\ greenlets' = [greenlets EXCEPT ![m.name] = Nothing]
        /\ lock' = Spawning(o)
        /\ UNCHANGED <<store, phase, listening, list, calls, history>>

\* Mutant: a clone is unscheduled, and the greenlet not killed.
ForgetJob(n) ==
    /\ jobs' = [jobs EXCEPT ![n] = Nothing]
    /\ greenlets' = [greenlets EXCEPT ![n] = Nothing]
    /\ UNCHANGED <<obj, live>>

\* unschedule_by_name.
Unschedule(n) ==
    IF jobs[n] = Nothing THEN UNCHANGED <<obj, jobs, live, greenlets>>
    ELSE /\ obj' = [obj EXCEPT ![jobs[n]].keep = FALSE]
         /\ jobs' = [jobs EXCEPT ![n] = Nothing]
         /\ live' \in Kill(greenlets[n])
         /\ greenlets' = [greenlets EXCEPT ![n] = Nothing]

HandleDelete(m) ==
    /\ m.type = "delete"
    /\ Handled(m)
    /\ Unschedule(m.name)
    /\ UNCHANGED <<store, phase, listening, list, calls, lock, history>>

\* execute sends to the broker with the lock held, unless there is no such job or
\* its context fails for want of a start time.
HandleExecute(m) ==
    /\ m.type = "execute"
    /\ Handled(m)
    /\ lock' = IF jobs[m.name] # Nothing /\ obj[jobs[m.name]].start
               THEN [by |-> "execute", what |-> jobs[m.name], todo |-> {}]
               ELSE Unlocked
    /\ UNCHANGED <<store, phase, listening, list, jobs, obj, live, greenlets, calls,
                   history>>

\* on_job_executed of api.py: a request to execute the job and, if it is a
\* one-time job, one to deactivate it.
Sent(o) ==
    msgs' = msgs \cup {[type |-> "deactivate", id |-> i, name |-> o.name, ver |-> 0] :
                          i \in {o.id} \cap OneTime}

ExecuteDone ==
    /\ lock.by = "execute"
    /\ Sent(lock.what)
    /\ lock' = Unlocked
    /\ UNCHANGED <<store, phase, listening, list, jobs, obj, live, greenlets, calls,
                   disturbed, events>>

\* One of the requests fails, and the exception ends the handler.
ExecuteFailed ==
    /\ lock.by = "execute"
    /\ lock' = Unlocked
    /\ UNCHANGED <<store, msgs, phase, listening, list, jobs, obj, live, greenlets,
                   calls, history>>

-----------------------------------------------------------------------------
(* Jobs.                                                                   *)

Without(g) == [x \in DOMAIN live \ {g} |-> live[x]]

\* The callback is spawned, after which a one-time job returns and any other
\* one sleeps.
Callback(g) ==
    /\ calls' = calls \cup {[job |-> g.job, at |-> "send"]}
    /\ live' = IF g.job.id \in OneTime THEN Without(g)
               ELSE [live EXCEPT ![g] = "loop"]

\* Mutant: keep_running is reset after on_max_repeats_reached was called.
CallThenStop(g) ==
    LET o == g.job
        max == MaxRepeats[o.id]
        last == max > 0 /\ obj[o].run + 1 = max
    IN  /\ g \in DOMAIN live /\ live[g] = "loop"
        /\ obj[o].keep /\ obj[o].start
        /\ obj' = [obj EXCEPT ![o].run = IF max > 0 THEN @ + 1 ELSE 0,
                              ![o].keep = ~(last /\ lock = Unlocked),
                              ![o].reached = last /\ lock = Unlocked]
        /\ \/ (last => lock = Unlocked) /\ Callback(g)
           \/ /\ last /\ lock # Unlocked
              /\ live' = [live EXCEPT ![g] = "max"]
              /\ UNCHANGED calls
        /\ UNCHANGED <<store, msgs, phase, listening, list, jobs, greenlets, lock,
                       history>>

\* Mutant: keep_running is never reset.
NeverStop(g) ==
    LET o == g.job
    IN  /\ g \in DOMAIN live /\ live[g] = "loop"
        /\ obj[o].keep /\ obj[o].start
        /\ obj' = [obj EXCEPT ![o].run = @ + 1,
                              ![o].reached = obj[o].run + 1 = MaxRepeats[o.id]]
        /\ Callback(g)
        /\ UNCHANGED <<store, msgs, phase, listening, list, jobs, greenlets, lock,
                       history>>

\* A pass of main_loop.  A run that is the last one needs the lock.  Runs of
\* jobs that are never the last one are not counted.
Iterate(g) ==
    LET o == g.job
        max == MaxRepeats[o.id]
        last == max > 0 /\ obj[o].run + 1 = max
    IN  /\ g \in DOMAIN live /\ live[g] = "loop"
        /\ obj[o].keep /\ obj[o].start
        /\ obj' = [obj EXCEPT ![o].run = IF max > 0 THEN @ + 1 ELSE 0,
                              ![o].keep = ~last,
                              ![o].reached = @ \/ last]
        /\ \/ /\ last => lock = Unlocked
              /\ Callback(g)
           \/ /\ last /\ lock # Unlocked
              /\ live' = [live EXCEPT ![g] = "max"]
              /\ UNCHANGED calls
        /\ Disturb({o.name : i \in {o.id} \cap OneTime} \cap {n \in Names : UnderWay(n)})
        /\ UNCHANGED <<store, msgs, phase, listening, list, jobs, greenlets, lock,
                       events>>

\* on_max_repeats_reached is over; that the job is inactive now is not looked at
\* any more.
MaxReached(g) ==
    /\ g \in DOMAIN live /\ live[g] = "max"
    /\ lock = Unlocked
    /\ Callback(g)
    /\ UNCHANGED <<store, msgs, phase, listening, list, jobs, obj, greenlets, lock,
                   history>>

\* The loop ends, or is not begun because there is no start time.
Leave(g) ==
    /\ g \in DOMAIN live /\ live[g] = "loop"
    /\ ~obj[g.job].keep \/ ~obj[g.job].start
    /\ live' = Without(g)
    /\ UNCHANGED <<store, msgs, phase, listening, list, jobs, obj, greenlets, calls,
                   lock, history>>

Send(c) ==
    /\ c \in calls /\ c.at = "send"
    /\ Sent(c.job)
    /\ calls' = (calls \ {c}) \cup {[job |-> c.job, at |-> "unschedule"] :
                                      i \in {c.job.id} \cap OneTime}
    /\ UNCHANGED <<store, phase, listening, list, jobs, obj, live, greenlets, lock,
                   disturbed, events>>

SendFailed(c) ==
    /\ c \in calls /\ c.at = "send"
    /\ Event
    /\ calls' = calls \ {c}
    /\ UNCHANGED <<store, msgs, phase, listening, list, jobs, obj, live, greenlets,
                   lock, disturbed>>

\* A one-time job that was executed is unscheduled by its name.
UnscheduleOneTime(c) ==
    LET n == c.job.name
    IN  /\ c \in calls /\ c.at = "unschedule"
        /\ lock = Unlocked
        /\ Unschedule(n)
        /\ calls' = calls \ {c}
        /\ UNCHANGED <<store, msgs, phase, listening, list, lock, history>>

-----------------------------------------------------------------------------
Handle(m) ==
    HandleCreate(m) \/ HandleEdit(m) \/ HandleDelete(m) \/ HandleExecute(m)

Boot == Start \/ Listen \/ ReadJobs \/ AddJobs \/ RunStart \/ RunDone
           \/ \E n \in Names : RunNext(n)

Next ==
    \/ \E i \in Ids, n \in Names, active \in BOOLEAN :
          Create(i, n, active) \/ Edit(i, n, active)
    \/ \E i \in Ids : Delete(i) \/ Execute(i)
    \/ \E m \in msgs : SetActiveStatus(m) \/ Lose(m) \/ Handle(m)
    \/ Boot \/ SpawnDone \/ ExecuteDone \/ ExecuteFailed \/ Crash
    \/ \E g \in DOMAIN live : Iterate(g) \/ MaxReached(g) \/ Leave(g)
    \/ \E c \in calls : Send(c) \/ SendFailed(c) \/ UnscheduleOneTime(c)

Spec == Init /\ [][Next]_vars

-----------------------------------------------------------------------------
(* Properties.                                                             *)

Quiet == phase = "ready" /\ listening /\ msgs = {} /\ calls = {} /\ lock = Unlocked

\* The greenlets that will execute a job of this name, now or later.
Running(n) == {g \in DOMAIN live : g.job.name = n /\ obj[g.job].keep /\ obj[g.job].start}

Wanted(i, n) == odb[i].there /\ odb[i].active /\ odb[i].name = n

\* With nothing under way, what runs is what ODB says: each active job in its
\* latest version, in the greenlet that is stored and can be killed, unless all
\* its runs are over, and nothing else (Scheduler.create, edit,
\* unschedule and run).  Excepted are names that were changed while another
\* change, a start of the scheduler or an execution of the same one-time job was
\* under way, or renamed.
Current ==
    Quiet => \A n \in Names \ disturbed :
        /\ \A g \in Running(n) : \E i \in Ids : Wanted(i, n) /\ odb[i].ver = g.job.ver
        /\ \A i \in Ids : Wanted(i, n) =>
              /\ jobs[n] # Nothing
              /\ jobs[n].ver = odb[i].ver
              /\ \/ obj[jobs[n]].reached \/ ~obj[jobs[n]].start
                 \/ greenlets[n] \in Running(n)

\* With the same exceptions, no two greenlets ever execute jobs of one name.
OneGreenlet == \A n \in Names \ disturbed : Cardinality(Running(n)) <= 1

\* A job never runs more than max_repeats times, not even if run has spawned it a
\* second time and its two greenlets wait for the lock (Job.main_loop).
RunsBounded ==
    \A o \in DOMAIN obj : MaxRepeats[o.id] > 0 => obj[o].run <= MaxRepeats[o.id]
============================================================================
