-------------------------- MODULE SchedulerProofs --------------------------
(***************************************************************************)
(* Theorems about Scheduler, for any number of jobs, names, changes, and   *)
(* crashes.                                                                *)
(***************************************************************************)
EXTENDS Scheduler, FiniteSetTheorems, TLAPS

Flags == [run : Nat, keep : BOOLEAN, reached : BOOLEAN, start : BOOLEAN]

\* What the proof needs to know of the types.
Types ==
    /\ \A o \in DOMAIN obj : o.id \in Ids /\ obj[o] \in Flags
    /\ \A m \in msgs : m.id \in Ids
    /\ \A o \in list : o.id \in Ids

\* A job that goes on has runs left, whoever counts them.
Counted ==
    \A o \in DOMAIN obj : MaxRepeats[o.id] > 0 =>
        /\ obj[o].run <= MaxRepeats[o.id]
        /\ obj[o].keep => obj[o].run < MaxRepeats[o.id]

Inv == Types /\ Counted

-----------------------------------------------------------------------------
\* Init establishes the invariant.
LEMMA InitInv == Init => Inv
BY DEF Init, Inv, Types, Counted, NoJobs

\* Steps that change no job and send at most what they should.
LEMMA QuietSteps ==
    ASSUME Inv, obj' = obj, \A m \in msgs' : m.id \in Ids, list' = list \/ list' = {}
    PROVE  Inv'
BY DEF Inv, Types, Counted

\* A new job has all its runs left.
LEMMA AddedInv ==
    ASSUME Inv, NEW o, o.id \in Ids, NEW x \in BOOLEAN,
           obj' = Added(o, Fresh(x)) \/ obj' = Added(o, Cloned(x)),
           msgs' \subseteq msgs, list' = list
    PROVE  Inv'
<1>1. MaxRepeats[o.id] \in Nat
  BY SchedulerAssumption
<1>2. /\ Fresh(x) \in Flags /\ Fresh(x).run = 0
      /\ Cloned(x) \in Flags /\ Cloned(x).run = 0
  BY DEF Fresh, Cloned, Flags
<1>3. PICK f \in Flags : f.run = 0 /\ obj' = Added(o, f)
  BY <1>2
<1>4. /\ DOMAIN obj' = DOMAIN obj \cup {o}
      /\ obj'[o] = f
      /\ \A y \in DOMAIN obj \ {o} : obj'[y] = obj[y]
  BY <1>3 DEF Added
<1> QED
  BY <1>1, <1>3, <1>4 DEF Inv, Types, Counted

\* Unscheduling a job only tells it not to go on.
LEMMA UnscheduleInv ==
    ASSUME Inv, NEW n, Unschedule(n), msgs' \subseteq msgs, list' = list
    PROVE  Inv'
<1>1. CASE obj' = obj
  BY <1>1, QuietSteps DEF Inv, Types
<1>2. CASE obj' = [obj EXCEPT ![jobs[n]].keep = FALSE]
  <2>1. /\ DOMAIN obj' = DOMAIN obj
        /\ \A o \in DOMAIN obj : /\ obj'[o] \in Flags
                                 /\ obj'[o].run = obj[o].run
                                 /\ obj'[o].keep => obj[o].keep
    BY <1>2 DEF Inv, Types, Flags
  <2> QED
    BY <2>1 DEF Inv, Types, Counted
<1> QED
  BY <1>1, <1>2 DEF Unschedule

Last(o) == MaxRepeats[o.id] > 0 /\ obj[o].run + 1 = MaxRepeats[o.id]

\* What a pass of the loop does to its job.
LEMMA IterateFlags ==
    ASSUME NEW g \in DOMAIN live, g.job \in DOMAIN obj, g.job.id \in Ids,
           obj[g.job] \in Flags, Iterate(g)
    PROVE  /\ DOMAIN obj' = DOMAIN obj
           /\ \A x \in DOMAIN obj \ {g.job} : obj'[x] = obj[x]
           /\ obj'[g.job] \in Flags
           /\ obj'[g.job].run = IF MaxRepeats[g.job.id] > 0 THEN obj[g.job].run + 1 ELSE 0
           /\ obj'[g.job].keep <=> ~Last(g.job)
           /\ obj'[g.job].reached <=> obj[g.job].reached \/ Last(g.job)
           /\ obj'[g.job].start = obj[g.job].start
<1> DEFINE o == g.job
           last == Last(o)
<1>1. obj[o] \in Flags /\ MaxRepeats[o.id] \in Nat
  BY SchedulerAssumption
<1>2. /\ DOMAIN obj' = DOMAIN obj
      /\ \A x \in DOMAIN obj \ {o} : obj'[x] = obj[x]
      /\ obj'[o] = [obj[o] EXCEPT
                      !.run = IF MaxRepeats[o.id] > 0 THEN @ + 1 ELSE 0,
                      !.keep = ~last,
                      !.reached = @ \/ last]
  BY DEF Iterate, Last
<1>3. last \in BOOLEAN
  BY DEF Last
<1> HIDE DEF last
<1>4. PICK r, k, q, s : /\ r = IF MaxRepeats[o.id] > 0 THEN obj[o].run + 1 ELSE 0
                        /\ k = ~last
                        /\ q = (obj[o].reached \/ last)
                        /\ s = obj[o].start
  OBVIOUS
<1>5. r \in Nat /\ {k, q, s} \subseteq BOOLEAN
  BY <1>1, <1>3, <1>4 DEF Flags
<1>6. obj'[o] = [obj[o] EXCEPT !.run = r, !.keep = k, !.reached = q]
  BY <1>2, <1>4
<1>7. obj'[o] = [run |-> r, keep |-> k, reached |-> q, start |-> s]
  BY <1>1, <1>4, <1>6 DEF Flags
<1>8. obj'[o] \in Flags
  BY <1>5, <1>7 DEF Flags
<1>9. obj'[o].run = r /\ obj'[o].keep = k /\ obj'[o].reached = q /\ obj'[o].start = s
  BY <1>7
<1>10. /\ obj'[o].keep <=> ~last
       /\ obj'[o].reached <=> obj[o].reached \/ last
  BY <1>4, <1>9, Zenon
<1> QED
  BY <1>2, <1>4, <1>8, <1>9, <1>10 DEF last

\* A pass of the loop that is the last one tells the job not to go on.
LEMMA IterateInv ==
    ASSUME Inv, NEW g \in DOMAIN live, g.job \in DOMAIN obj, Iterate(g)
    PROVE  Inv'
<1> DEFINE o == g.job
<1>1. /\ o.id \in Ids /\ obj[o] \in Flags /\ MaxRepeats[o.id] \in Nat
      /\ obj[o].keep
      /\ MaxRepeats[o.id] > 0 => obj[o].run < MaxRepeats[o.id]
  BY SchedulerAssumption DEF Inv, Types, Counted, Iterate
<1>2. /\ DOMAIN obj' = DOMAIN obj
      /\ \A x \in DOMAIN obj \ {o} : obj'[x] = obj[x]
      /\ obj'[o] \in Flags
      /\ obj'[o].run = IF MaxRepeats[o.id] > 0 THEN obj[o].run + 1 ELSE 0
      /\ obj'[o].keep <=> ~Last(o)
  BY <1>1, IterateFlags
<1>3. MaxRepeats[o.id] > 0 =>
        /\ obj'[o].run <= MaxRepeats[o.id]
        /\ obj'[o].keep => obj'[o].run < MaxRepeats[o.id]
  BY <1>1, <1>2 DEF Flags, Last
<1>4. Types'
  BY <1>1, <1>2 DEF Inv, Types, Iterate
<1>5. Counted'
  BY <1>2, <1>3 DEF Inv, Counted
<1> QED
  BY <1>4, <1>5 DEF Inv

\* The jobs that are read from ODB have all their runs left too.
LEMMA AddJobsInv == Inv /\ AddJobs => Inv'
<1> SUFFICES ASSUME Inv, AddJobs PROVE Inv'
  OBVIOUS
<1>1. PICK X : obj' = [o \in DOMAIN obj \cup list |->
                          IF o \in list THEN Fresh(o \in X) ELSE obj[o]]
  BY DEF AddJobs
<1>2. \A o : Fresh(o \in X) \in Flags /\ Fresh(o \in X).run = 0
  BY DEF Fresh, Flags
<1>3. Types'
  BY <1>1, <1>2 DEF AddJobs, Inv, Types
<1>4. Counted'
  BY <1>1, <1>2, SchedulerAssumption DEF Inv, Types, Counted
<1> QED
  BY <1>3, <1>4 DEF Inv

-----------------------------------------------------------------------------
\* What the services send is about a row of the table.
LEMMA ServicesInv ==
    ASSUME Inv, NEW i \in Ids, NEW n, NEW active,
           Create(i, n, active) \/ Edit(i, n, active) \/ Delete(i) \/ Execute(i)
    PROVE  Inv'
<1>1. obj' = obj /\ list' = list
  BY DEF Create, Edit, Delete, Execute, Change, process
<1>2. \A m \in msgs' : m \in msgs \/ m.id = i
  <2>1. CASE Create(i, n, active) \/ Edit(i, n, active)
    BY <2>1 DEF Create, Edit, Change
  <2>2. CASE Delete(i) \/ Execute(i)
    BY <2>2 DEF Delete, Execute, Change
  <2> QED
    BY <2>1, <2>2
<1>3. \A m \in msgs' : m.id \in Ids
  BY <1>2 DEF Inv, Types
<1> QED
  BY <1>1, <1>3, QuietSteps

\* So is what the scheduler sends.
LEMMA SentIds == ASSUME Inv, NEW o, Sent(o) PROVE \A m \in msgs' : m.id \in Ids
BY SchedulerAssumption DEF Sent, Inv, Types

\* Messages to the scheduler.
LEMMA MessagesInv ==
    ASSUME Inv, NEW m \in msgs, SetActiveStatus(m) \/ Lose(m) \/ Handle(m)
    PROVE  Inv'
<1>1. m.id \in Ids /\ msgs' \subseteq msgs
  BY DEF Inv, Types, SetActiveStatus, Lose, Handle, HandleCreate, HandleEdit,
         HandleDelete, HandleExecute, Handled
<1>2. \A x \in msgs' : x.id \in Ids
  BY <1>1 DEF Inv, Types
<1>3. CASE SetActiveStatus(m) \/ Lose(m) \/ HandleExecute(m)
  <2>1. obj' = obj /\ list' = list
    BY <1>3 DEF SetActiveStatus, Lose, HandleExecute, process
  <2> QED
    BY <2>1, <1>2, QuietSteps
<1>4. CASE HandleCreate(m) \/ HandleEdit(m)
  <2>1. JobOf(m).id \in Ids /\ list' = list
    BY <1>1, <1>4 DEF JobOf, HandleCreate, HandleEdit
  <2>2. PICK x \in BOOLEAN : \/ obj' = Added(JobOf(m), Fresh(x))
                             \/ obj' = Added(JobOf(m), Cloned(x))
    BY <1>4 DEF HandleCreate, HandleEdit, MayBeExhausted
  <2> QED
    BY <2>1, <2>2, <1>1, AddedInv
<1>5. CASE HandleDelete(m)
  <2>1. Unschedule(m.name) /\ list' = list
    BY <1>5 DEF HandleDelete
  <2> QED
    BY <2>1, <1>1, UnscheduleInv
<1> QED
  BY <1>3, <1>4, <1>5 DEF Handle

\* Start of the scheduler, and its end.
LEMMA BootInv == Inv /\ (Boot \/ SpawnDone \/ ExecuteDone \/ ExecuteFailed \/ Crash) => Inv'
<1> SUFFICES ASSUME Inv, Boot \/ SpawnDone \/ ExecuteDone \/ ExecuteFailed \/ Crash
             PROVE  Inv'
  OBVIOUS
<1>1. CASE Start \/ Listen \/ RunStart \/ RunDone \/ SpawnDone \/ ExecuteFailed
             \/ \E n \in Names : RunNext(n)
  <2>1. obj' = obj /\ list' = list /\ msgs' = msgs
    BY <1>1 DEF Start, Listen, RunStart, RunDone, SpawnDone, ExecuteFailed, RunNext
  <2> QED
    BY <2>1, QuietSteps DEF Inv, Types
<1>2. CASE ExecuteDone
  <2>1. obj' = obj /\ list' = list /\ Sent(lock.what)
    BY <1>2 DEF ExecuteDone
  <2>2. \A m \in msgs' : m.id \in Ids
    BY <2>1, SentIds
  <2> QED
    BY <2>1, <2>2, QuietSteps
<1>3. CASE ReadJobs
  BY <1>3 DEF ReadJobs, Inv, Types, Counted
<1>4. CASE AddJobs
  BY <1>4, AddJobsInv
<1>5. CASE Crash
  BY <1>5 DEF Crash, NoJobs, Inv, Types, Counted
<1> QED
  BY <1>1, <1>2, <1>3, <1>4, <1>5 DEF Boot

\* Callbacks.
LEMMA CallsInv ==
    ASSUME Inv, NEW c \in calls, Send(c) \/ SendFailed(c) \/ UnscheduleOneTime(c)
    PROVE  Inv'
<1>1. CASE Send(c)
  <2>1. obj' = obj /\ list' = list /\ Sent(c.job)
    BY <1>1 DEF Send
  <2>2. \A m \in msgs' : m.id \in Ids
    BY <2>1, SentIds
  <2> QED
    BY <2>1, <2>2, QuietSteps
<1>2. CASE SendFailed(c)
  <2>1. obj' = obj /\ list' = list /\ msgs' = msgs
    BY <1>2 DEF SendFailed
  <2> QED
    BY <2>1, QuietSteps DEF Inv, Types
<1>3. CASE UnscheduleOneTime(c)
  <2>1. Unschedule(c.job.name) /\ list' = list /\ msgs' = msgs
    BY <1>3 DEF UnscheduleOneTime
  <2> QED
    BY <2>1, UnscheduleInv
<1> QED
  BY <1>1, <1>2, <1>3

\* Every step of the scheduler keeps the invariant.
LEMMA NextInv == Inv /\ [Next]_vars => Inv'
<1> SUFFICES ASSUME Inv, [Next]_vars PROVE Inv'
  OBVIOUS
<1>1. CASE UNCHANGED vars
  <2>1. obj' = obj /\ list' = list /\ msgs' = msgs
    BY <1>1 DEF vars, process
  <2> QED
    BY <2>1, QuietSteps DEF Inv, Types
<1>2. CASE \E i \in Ids, n \in Names, active \in BOOLEAN :
             Create(i, n, active) \/ Edit(i, n, active)
  BY <1>2, ServicesInv
<1>3. CASE \E i \in Ids : Delete(i) \/ Execute(i)
  BY <1>3, ServicesInv
<1>4. CASE \E m \in msgs : SetActiveStatus(m) \/ Lose(m) \/ Handle(m)
  BY <1>4, MessagesInv
<1>5. CASE Boot \/ SpawnDone \/ ExecuteDone \/ ExecuteFailed \/ Crash
  BY <1>5, BootInv
<1>6. CASE \E g \in DOMAIN live : Iterate(g) \/ MaxReached(g) \/ Leave(g)
  <2>1. PICK g \in DOMAIN live : Iterate(g) \/ MaxReached(g) \/ Leave(g)
    BY <1>6
  <2>2. CASE Iterate(g) /\ g.job \in DOMAIN obj
    BY <2>2, IterateInv
  <2>3. CASE MaxReached(g) \/ Leave(g)
    <3>1. obj' = obj /\ list' = list /\ msgs' = msgs
      BY <2>3 DEF MaxReached, Leave
    <3> QED
      BY <3>1, QuietSteps DEF Inv, Types
  <2>4. CASE Iterate(g) /\ g.job \notin DOMAIN obj
    <3>1. /\ DOMAIN obj' = DOMAIN obj
          /\ \A x \in DOMAIN obj : obj'[x] = obj[x]
          /\ list' = list /\ msgs' = msgs
      BY <2>4 DEF Iterate
    <3> QED
      BY <3>1 DEF Inv, Types, Counted
  <2> QED
    BY <2>1, <2>2, <2>3, <2>4
<1>7. CASE \E c \in calls : Send(c) \/ SendFailed(c) \/ UnscheduleOneTime(c)
  BY <1>7, CallsInv
<1> QED
  BY <1>1, <1>2, <1>3, <1>4, <1>5, <1>6, <1>7 DEF Next

\* A job never runs more than max_repeats times, for any number of changes,
\* messages, crashes and greenlets that run it (Job.main_loop).
THEOREM RunsSafety == Spec => []RunsBounded
<1>1. Inv => RunsBounded
  BY DEF Inv, Counted, RunsBounded
<1> QED
  BY <1>1, InitInv, NextInv, PTL DEF Spec

-----------------------------------------------------------------------------
(* Types.                                                                  *)

AnyRow == [there : BOOLEAN, name : Names \cup {Nothing}, ver : 0..MaxVersions, active : BOOLEAN]

\* Rows that are there have a name, which no other has, and a version.
Rows ==
    /\ odb \in [Ids -> AnyRow]
    /\ versions \in 0..MaxVersions
    /\ \A i \in Ids : /\ odb[i].there => odb[i].name \in Names /\ odb[i].ver > 0
                      /\ ~odb[i].there => odb[i].name = Nothing /\ ~odb[i].active
                      /\ odb[i].ver <= versions
    /\ \A i, j \in Ids : odb[i].there /\ odb[j].there /\ odb[i].name = odb[j].name => i = j

\* Messages with a definition have versions of their own.
Definitions == {m \in msgs : m.type \in {"create", "edit"}}

Messages ==
    /\ msgs \subseteq Msgs \cup Deactivation
    /\ \A m \in msgs : odb[m.id].ver > 0
    /\ \A m \in Definitions : m.ver \in 1..versions
    /\ \A m, k \in Definitions : m.ver = k.ver => m = k

Phases == {"down", "start", "read", "added", "ready"}

\* The scheduler has not got as far as adding the jobs it read.
Early == phase \in {"down", "start", "read"}

\* Each definition makes one object.
Objects ==
    /\ phase \in Phases
    /\ listening \in BOOLEAN
    /\ list \subseteq Jobs
    /\ list # {} => phase = "read"
    /\ DOMAIN obj \subseteq Jobs
    /\ obj \in [DOMAIN obj -> Flags]
    /\ \A o \in list : o.from = "odb" /\ o.ver <= versions /\ odb[o.id].ver > 0
    /\ \A o \in DOMAIN obj : o.ver <= versions /\ odb[o.id].ver > 0
    /\ \A m \in Definitions, o \in DOMAIN obj : o.from = "msg" => o.ver # m.ver
    /\ Early => \A o \in DOMAIN obj : o.from = "msg"
    /\ \A o \in DOMAIN obj : obj[o].reached => ~obj[o].keep
    /\ jobs \in [Names -> Jobs \cup {Nothing}]
    /\ \A n \in Names : jobs[n] # Nothing => /\ jobs[n] \in DOMAIN obj /\ jobs[n].name = n
                                             /\ obj[jobs[n]].keep \/ obj[jobs[n]].reached

\* Who waits for the lock with its last run was told not to go on.
Loops ==
    /\ DOMAIN live \subseteq Greenlets
    /\ live \in [DOMAIN live -> {"loop", "max"}]
    /\ \A g \in DOMAIN live : /\ g.job \in DOMAIN obj
                              /\ live[g] = "max" => ~obj[g.job].keep
    /\ greenlets \in [Names -> Greenlets \cup {Nothing}]
    /\ \A n \in Names : greenlets[n] # Nothing => greenlets[n].job.name = n
    /\ \A c \in calls : /\ c.job \in DOMAIN obj /\ c.at \in {"send", "unschedule"}
                        /\ c.at = "unschedule" => c.job.id \in OneTime

\* The lock's holder, with what it still has to do.
LockTyped ==
    /\ lock \in [by : {"nobody", "create", "run", "execute"},
                 what : Greenlets \cup Jobs \cup {Nothing}, todo : SUBSET Names]
    /\ lock.by = "nobody" => lock = Unlocked
    /\ lock.by = "create" => lock.what \in Greenlets
    /\ lock.by = "run" => /\ lock.what \in Greenlets \cup {Nothing}
                          /\ lock.todo \subseteq {n \in Names : jobs[n] # Nothing}
                          /\ phase = "added"
    /\ lock.by = "execute" => lock.what \in DOMAIN obj

Locks == LockTyped /\ disturbed \subseteq Names

Typed == Rows /\ Messages /\ Objects /\ Loops /\ Locks

LEMMA TypedInit == Init => Typed
<1> SUFFICES ASSUME Init PROVE Typed
  OBVIOUS
<1>1. NoRow \in AnyRow /\ ~NoRow.there /\ NoRow.name = Nothing /\ ~NoRow.active /\ NoRow.ver = 0
  BY SchedulerAssumption DEF NoRow, AnyRow
<1>2. Rows
  BY <1>1, SchedulerAssumption DEF Init, Rows
<1>3. Messages
  BY DEF Init, Messages, Definitions
<1>4. Objects
  BY DEF Init, Objects, Definitions, NoJobs, Phases
<1>5. Loops
  BY DEF Init, Loops, NoJobs
<1>6. Locks
  BY DEF Init, Locks, LockTyped, Unlocked
<1> QED
  BY <1>2, <1>3, <1>4, <1>5, <1>6 DEF Typed

\* Row i becomes another one, and a message tells of it.
Changed(i, row, type, name) ==
    /\ row \in AnyRow
    /\ row.there => row.name \in Names /\ ~Taken(i, row.name) /\ row.ver = versions + 1
    /\ ~row.there => row.name = Nothing /\ ~row.active
    /\ row.ver > 0 /\ row.ver <= versions + 1
    /\ type \in {"create", "edit", "delete"} /\ name \in Names
    /\ versions < MaxVersions /\ versions' = versions + 1
    /\ odb' = [odb EXCEPT ![i] = row]
    /\ msgs' = msgs \cup {[type |-> type, id |-> i, name |-> name, ver |-> versions + 1]}
    /\ UNCHANGED <<process, events>>

LEMMA ChangeCases ==
    ASSUME Rows, NEW i \in Ids, NEW n \in Names, NEW active \in BOOLEAN
    PROVE  /\ Create(i, n, active) =>
                 Changed(i, Row(n, active), IF active THEN "create" ELSE "delete", n)
           /\ Edit(i, n, active) =>
                 Changed(i, Row(n, active), IF active THEN "edit" ELSE "delete", n)
           /\ Delete(i) =>
                 Changed(i, [NoRow EXCEPT !.ver = odb[i].ver], "delete", odb[i].name)
<1>1. versions \in 0..MaxVersions /\ MaxVersions \in Nat
  BY SchedulerAssumption DEF Rows
<1>2. ASSUME versions < MaxVersions
      PROVE  /\ Row(n, active) \in AnyRow /\ Row(n, active).there /\ Row(n, active).name = n
             /\ Row(n, active).ver = versions + 1 /\ versions + 1 > 0
  BY <1>1, <1>2 DEF Row, AnyRow
<1>3. ASSUME Delete(i)
      PROVE  Changed(i, [NoRow EXCEPT !.ver = odb[i].ver], "delete", odb[i].name)
  <2> DEFINE row == [NoRow EXCEPT !.ver = odb[i].ver]
  <2>1. odb[i].ver > 0 /\ odb[i].ver <= versions /\ odb[i].name \in Names /\ odb[i].ver \in 0..MaxVersions
    BY <1>3 DEF Delete, Rows, AnyRow
  <2>2. row \in AnyRow /\ ~row.there /\ row.name = Nothing /\ ~row.active /\ row.ver = odb[i].ver
    <3>1. NoRow \in AnyRow /\ ~NoRow.there /\ NoRow.name = Nothing /\ ~NoRow.active
      BY <1>1 DEF NoRow, AnyRow
    <3> QED
      BY <2>1, <3>1 DEF AnyRow
  <2>3. Change(i, odb[i].name, "delete", row)
    BY <1>3 DEF Delete
  <2> HIDE DEF row
  <2>5. row.ver <= versions + 1
    BY <1>1, <2>1, <2>2
  <2>6. Changed(i, row, "delete", odb[i].name)
    BY <2>1, <2>2, <2>3, <2>5 DEF Changed, Change
  <2> QED
    BY <2>6 DEF row
<1>4. ASSUME NEW type \in {"create", "edit", "delete"}, ~Taken(i, n), Change(i, n, type, Row(n, active))
      PROVE  Changed(i, Row(n, active), type, n)
  <2>1. versions < MaxVersions
    BY <1>4 DEF Change
  <2>2. /\ Row(n, active) \in AnyRow /\ Row(n, active).there /\ Row(n, active).name = n
        /\ Row(n, active).ver = versions + 1 /\ versions + 1 > 0
    BY <1>2, <2>1
  <2>3. versions + 1 <= versions + 1
    BY <1>1
  <2> QED
    BY <1>4, <2>2, <2>3 DEF Changed, Change
<1>5. ASSUME Create(i, n, active)
      PROVE  Changed(i, Row(n, active), IF active THEN "create" ELSE "delete", n)
  BY <1>4, <1>5 DEF Create
<1>6. ASSUME Edit(i, n, active)
      PROVE  Changed(i, Row(n, active), IF active THEN "edit" ELSE "delete", n)
  BY <1>4, <1>6 DEF Edit
<1> QED
  BY <1>3, <1>5, <1>6

\* Who changes rows.
LEMMA RowSteps ==
    ASSUME Rows, [Next]_vars
    PROVE  \/ \E i \in Ids : \E row, type, name : Changed(i, row, type, name)
           \/ \E m \in msgs : SetActiveStatus(m)
           \/ UNCHANGED store
<1>1. CASE \E i \in Ids, n \in Names, active \in BOOLEAN :
             Create(i, n, active) \/ Edit(i, n, active)
  BY <1>1, ChangeCases
<1>2. CASE \E i \in Ids : Delete(i)
  <2>1. PICK i \in Ids : Delete(i)
    BY <1>2
  <2>2. odb[i].name \in Names /\ TRUE \in BOOLEAN
    BY <2>1 DEF Delete, Rows
  <2> QED
    BY <2>1, <2>2, ChangeCases
<1>3. CASE UNCHANGED vars
  BY <1>3 DEF vars
<1>4. CASE \E i \in Ids : Execute(i)
  BY <1>4 DEF Execute
<1>5. CASE \E m \in msgs : Lose(m) \/ Handle(m)
  BY <1>5 DEF Lose, Handle, HandleCreate, HandleEdit, HandleDelete, HandleExecute
<1>6. CASE Boot \/ SpawnDone \/ ExecuteDone \/ ExecuteFailed \/ Crash
  BY <1>6 DEF Boot, Start, Listen, ReadJobs, AddJobs, RunStart, RunDone, RunNext, SpawnDone,
              ExecuteDone, ExecuteFailed, Crash
<1>7. CASE \E g \in DOMAIN live : Iterate(g) \/ MaxReached(g) \/ Leave(g)
  BY <1>7 DEF Iterate, MaxReached, Leave
<1>8. CASE \E c \in calls : Send(c) \/ SendFailed(c) \/ UnscheduleOneTime(c)
  BY <1>8 DEF Send, SendFailed, UnscheduleOneTime
<1> QED
  BY <1>1, <1>2, <1>3, <1>4, <1>5, <1>6, <1>7, <1>8 DEF Next

LEMMA RowsNext == Typed /\ [Next]_vars => Rows'
<1> SUFFICES ASSUME Typed, [Next]_vars PROVE Rows'
  OBVIOUS
<1>a. /\ odb \in [Ids -> AnyRow]
      /\ versions \in 0..MaxVersions /\ MaxVersions \in Nat
      /\ \A i \in Ids : /\ odb[i].there => odb[i].name \in Names /\ odb[i].ver > 0
                        /\ ~odb[i].there => odb[i].name = Nothing /\ ~odb[i].active
                        /\ odb[i].ver <= versions /\ odb[i].ver \in Nat
      /\ \A i, j \in Ids : odb[i].there /\ odb[j].there /\ odb[i].name = odb[j].name => i = j
  BY SchedulerAssumption DEF Typed, Rows, AnyRow
<1>1. ASSUME NEW i \in Ids, NEW row, NEW type, NEW name, Changed(i, row, type, name)
      PROVE  Rows'
  <2>1. /\ odb' \in [Ids -> AnyRow] /\ versions' \in 0..MaxVersions /\ versions <= versions'
        /\ odb'[i] = row /\ \A j \in Ids \ {i} : odb'[j] = odb[j]
    BY <1>1, <1>a DEF Changed
  <2>2. \A j \in Ids : /\ odb'[j].there => odb'[j].name \in Names /\ odb'[j].ver > 0
                       /\ ~odb'[j].there => odb'[j].name = Nothing /\ ~odb'[j].active
                       /\ odb'[j].ver <= versions'
    <3> TAKE j \in Ids
    <3>1. CASE j = i
      BY <1>1, <2>1, <3>1 DEF Changed
    <3>2. CASE j # i
      BY <1>1, <1>a, <2>1, <3>2 DEF Changed
    <3> QED
      BY <3>1, <3>2
  <2>3. \A j, k \in Ids : odb'[j].there /\ odb'[k].there /\ odb'[j].name = odb'[k].name => j = k
    BY <1>1, <1>a, <2>1 DEF Changed, Taken
  <2> QED
    BY <2>1, <2>2, <2>3 DEF Rows
<1>2. ASSUME NEW m \in msgs, SetActiveStatus(m) PROVE Rows'
  <2>1. m.id \in Ids
    BY DEF Typed, Messages, Msgs, Deactivation
  <2>2. odb' = [odb EXCEPT ![m.id].active = FALSE] /\ versions' = versions
    BY <1>2 DEF SetActiveStatus
  <2>3. /\ odb' \in [Ids -> AnyRow]
        /\ \A i \in Ids : /\ odb'[i].there = odb[i].there /\ odb'[i].name = odb[i].name
                          /\ odb'[i].ver = odb[i].ver
                          /\ odb'[i].active => odb[i].active
    BY <1>a, <2>1, <2>2 DEF AnyRow
  <2> QED
    BY <1>a, <2>2, <2>3 DEF Rows
<1>3. CASE UNCHANGED store
  BY <1>3, <1>a DEF store, Rows
<1> QED
  BY <1>1, <1>2, <1>3, RowSteps DEF Typed

\* What was given a version keeps one, and versions grow.
LEMMA VersionsKept ==
    ASSUME Typed, [Next]_vars
    PROVE  /\ versions <= versions' /\ versions \in Nat /\ versions' \in Nat
           /\ \A i \in Ids : odb[i].ver > 0 => odb'[i].ver > 0
<1>a. odb \in [Ids -> AnyRow] /\ versions \in 0..MaxVersions /\ MaxVersions \in Nat
  BY SchedulerAssumption DEF Typed, Rows
<1>1. ASSUME NEW i \in Ids, NEW row, NEW type, NEW name, Changed(i, row, type, name)
      PROVE  versions' = versions + 1 /\ \A j \in Ids : odb[j].ver > 0 => odb'[j].ver > 0
  BY <1>1, <1>a DEF Changed
<1>2. ASSUME NEW m \in msgs, SetActiveStatus(m)
      PROVE  versions' = versions /\ \A j \in Ids : odb'[j].ver = odb[j].ver
  <2>1. m.id \in Ids
    BY DEF Typed, Messages, Msgs, Deactivation
  <2> QED
    BY <1>2, <1>a, <2>1 DEF SetActiveStatus, AnyRow
<1>3. ASSUME UNCHANGED store
      PROVE  versions' = versions /\ odb' = odb
  BY <1>3 DEF store
<1> QED
  BY <1>1, <1>2, <1>3, <1>a, RowSteps DEF Typed

\* Who sends messages.
LEMMA MessageSteps ==
    ASSUME Typed, [Next]_vars
    PROVE  \/ \E i \in Ids : \E row, type, name : Changed(i, row, type, name)
           \/ \E i \in Ids : Execute(i)
           \/ msgs' \subseteq msgs
           \/ \E o \in DOMAIN obj : Sent(o)
<1>1. CASE \E i \in Ids, n \in Names, active \in BOOLEAN :
             Create(i, n, active) \/ Edit(i, n, active)
  BY <1>1, ChangeCases DEF Typed
<1>2. CASE \E i \in Ids : Delete(i)
  <2>1. PICK i \in Ids : Delete(i)
    BY <1>2
  <2>2. odb[i].name \in Names /\ TRUE \in BOOLEAN
    BY <2>1 DEF Delete, Typed, Rows
  <2> QED
    BY <2>1, <2>2, ChangeCases DEF Typed
<1>3. CASE UNCHANGED vars
  BY <1>3 DEF vars
<1>4. CASE \E i \in Ids : Execute(i)
  BY <1>4
<1>5. CASE \E m \in msgs : SetActiveStatus(m) \/ Lose(m) \/ Handle(m)
  BY <1>5 DEF SetActiveStatus, Lose, Handle, HandleCreate, HandleEdit, HandleDelete, HandleExecute,
              Handled
<1>6. CASE Boot \/ SpawnDone \/ ExecuteFailed \/ Crash
  BY <1>6 DEF Boot, Start, Listen, ReadJobs, AddJobs, RunStart, RunDone, RunNext, SpawnDone,
              ExecuteFailed, Crash
<1>7. CASE ExecuteDone
  BY <1>7 DEF ExecuteDone, Typed, Locks, LockTyped
<1>8. CASE \E g \in DOMAIN live : Iterate(g) \/ MaxReached(g) \/ Leave(g)
  BY <1>8 DEF Iterate, MaxReached, Leave
<1>9. CASE \E c \in calls : Send(c) \/ SendFailed(c) \/ UnscheduleOneTime(c)
  BY <1>9 DEF Send, SendFailed, UnscheduleOneTime, Typed, Loops
<1> QED
  BY <1>1, <1>2, <1>3, <1>4, <1>5, <1>6, <1>7, <1>8, <1>9 DEF Next

\* What on_job_executed sends.
LEMMA SentMessages ==
    ASSUME NEW o, o.id \in Ids, o.name \in Names, Sent(o)
    PROVE  /\ msgs \subseteq msgs'
           /\ \A m \in msgs' : \/ m \in msgs
                               \/ /\ m \in Deactivation /\ m.type = "deactivate"
                                  /\ m.id = o.id /\ m.name = o.name /\ o.id \in OneTime
           /\ o.id \in OneTime =>
                 \E m \in msgs' : m.type = "deactivate" /\ m.id = o.id /\ m.name = o.name
<1> DEFINE new == [type |-> "deactivate", id |-> o.id, name |-> o.name, ver |-> 0]
<1>1. msgs' = msgs \cup {new : i \in {o.id} \cap OneTime}
  BY DEF Sent
<1>2. /\ new \in Deactivation /\ new.type = "deactivate"
      /\ new.id = o.id /\ new.name = o.name
  BY DEF Deactivation
<1> HIDE DEF new
<1> QED
  BY <1>1, <1>2

LEMMA MessagesNext == Typed /\ [Next]_vars => Messages'
<1> SUFFICES ASSUME Typed, [Next]_vars PROVE Messages'
  OBVIOUS
<1>a. /\ versions <= versions' /\ versions \in Nat /\ versions' \in Nat
      /\ \A i \in Ids : odb[i].ver > 0 => odb'[i].ver > 0
  BY VersionsKept
<1>b. /\ msgs \subseteq Msgs \cup Deactivation
      /\ \A m \in msgs : m.id \in Ids /\ odb[m.id].ver > 0
      /\ \A m \in Definitions : m.ver \in 1..versions
      /\ \A m, k \in Definitions : m.ver = k.ver => m = k
  BY DEF Typed, Messages, Msgs, Deactivation
<1>1. ASSUME msgs' \subseteq Msgs \cup Deactivation,
             \A m \in msgs' : m.id \in Ids /\ odb'[m.id].ver > 0,
             Definitions' \subseteq Definitions
      PROVE  Messages'
  <2>1. \A m \in Definitions' : m.ver \in 1..versions'
    BY <1>1, <1>a, <1>b
  <2>2. \A m, k \in Definitions' : m.ver = k.ver => m = k
    BY <1>1, <1>b
  <2> QED
    BY <1>1, <2>1, <2>2 DEF Messages
<1>2. CASE msgs' \subseteq msgs
  <2>1. Definitions' \subseteq Definitions
    BY <1>2 DEF Definitions
  <2> QED
    BY <1>1, <1>2, <1>a, <1>b, <2>1
<1>3. ASSUME NEW i \in Ids, NEW row, NEW type, NEW name, Changed(i, row, type, name)
      PROVE  Messages'
  <2> DEFINE new == [type |-> type, id |-> i, name |-> name, ver |-> versions + 1]
  <2>1. /\ msgs' = msgs \cup {new} /\ versions' = versions + 1
        /\ type \in {"create", "edit", "delete"} /\ name \in Names
        /\ odb'[i].ver > 0 /\ versions < MaxVersions /\ MaxVersions \in Nat
    BY <1>3, SchedulerAssumption DEF Changed, Typed, Rows
  <2>2. new \in Msgs
    BY <1>a, <2>1 DEF Msgs
  <2>3. new.id = i /\ new.ver = versions + 1
    OBVIOUS
  <2> HIDE DEF new
  <2>4. Definitions' \subseteq Definitions \cup {new}
    BY <2>1 DEF Definitions
  <2>5. \A m \in Definitions' : m.ver \in 1..versions'
    BY <1>a, <1>b, <2>1, <2>3, <2>4
  <2>6. \A m \in Definitions : m.ver # new.ver
    BY <1>a, <1>b, <2>3
  <2>7. \A m, k \in Definitions' : m.ver = k.ver => m = k
    BY <1>b, <2>4, <2>6
  <2>8. \A m \in msgs' : odb'[m.id].ver > 0
    BY <1>a, <1>b, <2>1, <2>3
  <2> QED
    BY <1>b, <2>1, <2>2, <2>5, <2>7, <2>8 DEF Messages
<1>4. ASSUME NEW i \in Ids, Execute(i) PROVE Messages'
  <2> DEFINE new == [type |-> "execute", id |-> i, name |-> odb[i].name, ver |-> 0]
  <2>1. msgs' = msgs \cup {new} /\ odb[i].name \in Names /\ odb[i].ver > 0 /\ MaxVersions \in Nat
    BY <1>4, SchedulerAssumption DEF Execute, Typed, Rows
  <2>2. new \in Msgs /\ new.id = i /\ new.type = "execute"
    BY <2>1 DEF Msgs
  <2> HIDE DEF new
  <2>3. Definitions' \subseteq Definitions
    BY <2>1, <2>2 DEF Definitions
  <2> QED
    BY <1>1, <1>a, <1>b, <2>1, <2>2, <2>3
<1>5. ASSUME NEW o \in DOMAIN obj, Sent(o) PROVE Messages'
  <2>1. o.id \in Ids /\ o.name \in Names /\ odb[o.id].ver > 0
    BY DEF Typed, Objects, Jobs
  <2>2. \A m \in msgs' : m \in msgs \/ (m \in Deactivation /\ m.id = o.id /\ m.type = "deactivate")
    BY <1>5, <2>1, SentMessages
  <2>3. Definitions' \subseteq Definitions
    BY <2>2 DEF Definitions
  <2>4. msgs' \subseteq Msgs \cup Deactivation
    BY <1>b, <2>2
  <2> QED
    BY <1>1, <1>a, <1>b, <2>1, <2>2, <2>3, <2>4
<1> QED
  BY <1>2, <1>3, <1>4, <1>5, MessageSteps


\* New messages that define jobs have a new version.
LEMMA DefinitionsApart ==
    ASSUME Typed, [Next]_vars
    PROVE  \A m \in Definitions' : m \in Definitions \/ m.ver > versions
<1>a. versions \in Nat
  BY VersionsKept
<1>1. ASSUME NEW i \in Ids, NEW row, NEW type, NEW name, Changed(i, row, type, name)
      PROVE  \A m \in Definitions' : m \in Definitions \/ m.ver > versions
  BY <1>1, <1>a DEF Changed, Definitions
<1>2. ASSUME NEW i \in Ids, Execute(i) PROVE Definitions' \subseteq Definitions
  BY <1>2 DEF Execute, Definitions
<1>3. ASSUME NEW o \in DOMAIN obj, Sent(o) PROVE Definitions' \subseteq Definitions
  <2>1. o.id \in Ids /\ o.name \in Names
    BY DEF Typed, Objects, Jobs
  <2> QED
    BY <1>3, <2>1, SentMessages DEF Definitions
<1>4. CASE msgs' \subseteq msgs
  BY <1>4 DEF Definitions
<1> QED
  BY <1>1, <1>2, <1>3, <1>4, MessageSteps

\* No object is made, and jobs are at most taken out of the set.
ObjectsStay ==
    /\ DOMAIN obj' \subseteq DOMAIN obj
    /\ obj' \in [DOMAIN obj' -> Flags]
    /\ \A o \in DOMAIN obj' : obj'[o].reached => ~obj'[o].keep
    /\ phase' \in Phases /\ listening' \in BOOLEAN
    /\ list' \subseteq list /\ (list' # {} => phase' = "read")
    /\ Early' => Early \/ DOMAIN obj' = {}
    /\ jobs' \in [Names -> Jobs \cup {Nothing}]
    /\ \A n \in Names : jobs'[n] # Nothing =>
          /\ jobs'[n] = jobs[n] /\ jobs[n] \in DOMAIN obj'
          /\ obj'[jobs[n]].keep \/ obj'[jobs[n]].reached

LEMMA ObjectsKept ==
    ASSUME Typed, [Next]_vars, ObjectsStay
    PROVE  Objects'
<1>a. /\ versions <= versions' /\ versions \in Nat /\ versions' \in Nat
      /\ \A i \in Ids : odb[i].ver > 0 => odb'[i].ver > 0
  BY VersionsKept
<1>1. \A o \in DOMAIN obj \cup list : o.id \in Ids /\ o.ver \in Nat
  BY SchedulerAssumption DEF Typed, Objects, Jobs, Versions
<1>2. \A o \in list' : o.from = "odb" /\ o.ver <= versions' /\ odb'[o.id].ver > 0
  BY <1>a, <1>1 DEF Typed, Objects, ObjectsStay
<1>3. \A o \in DOMAIN obj' : o.ver <= versions' /\ odb'[o.id].ver > 0
  BY <1>a, <1>1 DEF Typed, Objects, ObjectsStay
<1>4. \A m \in Definitions', o \in DOMAIN obj' : o.from = "msg" => o.ver # m.ver
  <2> TAKE m \in Definitions', o \in DOMAIN obj'
  <2>1. m \in Definitions \/ m.ver > versions
    BY DefinitionsApart
  <2>2. o \in DOMAIN obj /\ o.ver <= versions /\ o.ver \in Nat
    BY <1>1 DEF Typed, Objects, ObjectsStay
  <2>3. m.ver > versions => o.ver # m.ver
    BY <2>2, <1>a
  <2> QED
    BY <2>1, <2>2, <2>3 DEF Typed, Objects
<1> QED
  BY <1>2, <1>3, <1>4 DEF Typed, Objects, ObjectsStay, Phases


\* What Kill leaves.
LEMMA KillLeaves ==
    ASSUME NEW g, NEW L \in Kill(g)
    PROVE  /\ DOMAIN L \subseteq DOMAIN live
           /\ DOMAIN live \ {g} \subseteq DOMAIN L
           /\ \A x \in DOMAIN L : L[x] = live[x]
           /\ L = [x \in DOMAIN L |-> L[x]] \/ L = live
           /\ g \in DOMAIN L => live[g] = "max"
BY DEF Kill

LEMMA UnscheduleStays ==
    ASSUME Typed, NEW n \in Names, Unschedule(n), UNCHANGED <<list, phase, listening>>
    PROVE  ObjectsStay
<1>1. CASE jobs[n] = Nothing
  BY <1>1 DEF Unschedule, Typed, Objects, ObjectsStay, Early
<1>2. CASE jobs[n] # Nothing
  <2>1. /\ jobs[n] \in DOMAIN obj /\ jobs[n].name = n
        /\ obj' = [obj EXCEPT ![jobs[n]].keep = FALSE]
        /\ jobs' = [jobs EXCEPT ![n] = Nothing]
    BY <1>2 DEF Unschedule, Typed, Objects
  <2>a. obj[jobs[n]] \in Flags /\ obj \in [DOMAIN obj -> Flags]
    BY <2>1 DEF Typed, Objects
  <2>b. /\ DOMAIN obj' = DOMAIN obj
        /\ \A o \in DOMAIN obj \ {jobs[n]} : obj'[o] = obj[o]
        /\ obj'[jobs[n]] = [obj[jobs[n]] EXCEPT !.keep = FALSE]
    BY <2>1
  <2>c. obj'[jobs[n]] \in Flags /\ ~obj'[jobs[n]].keep
    BY <2>a, <2>b DEF Flags
  <2>2. /\ DOMAIN obj' = DOMAIN obj
        /\ \A o \in DOMAIN obj : obj'[o] \in Flags
        /\ \A o \in DOMAIN obj \ {jobs[n]} : obj'[o] = obj[o]
        /\ ~obj'[jobs[n]].keep
    BY <2>a, <2>b, <2>c
  <2>3. obj' \in [DOMAIN obj' -> Flags]
    BY <2>1, <2>2 DEF Typed, Objects
  <2>4. \A m \in Names : jobs'[m] # Nothing =>
          /\ jobs'[m] = jobs[m] /\ jobs[m] \in DOMAIN obj'
          /\ obj'[jobs[m]].keep \/ obj'[jobs[m]].reached
    BY <2>1, <2>2 DEF Typed, Objects
  <2> QED
    BY <2>1, <2>2, <2>3, <2>4 DEF Typed, Objects, ObjectsStay, Early
<1> QED
  BY <1>1, <1>2

\* Steps that leave the objects alone, and the phase from which jobs are added.
LEMMA QuietStays ==
    ASSUME Typed, UNCHANGED <<obj, jobs>>, phase' \in Phases, listening' \in BOOLEAN,
           list' = list, list' # {} => phase' = "read", Early' => Early
    PROVE  ObjectsStay
BY DEF Typed, Objects, ObjectsStay

LEMMA IterateStays ==
    ASSUME Typed, NEW g \in DOMAIN live, Iterate(g)
    PROVE  ObjectsStay
<1>1. /\ g.job \in DOMAIN obj /\ g.job.id \in Ids /\ obj[g.job] \in Flags
  BY DEF Typed, Loops, Objects, Jobs
<1>2. /\ DOMAIN obj' = DOMAIN obj
      /\ \A x \in DOMAIN obj \ {g.job} : obj'[x] = obj[x]
      /\ obj'[g.job] \in Flags
      /\ obj'[g.job].keep <=> ~Last(g.job)
      /\ obj'[g.job].reached <=> obj[g.job].reached \/ Last(g.job)
      /\ obj[g.job].keep
      /\ obj' = [x \in DOMAIN obj |-> obj'[x]]
      /\ UNCHANGED <<list, phase, listening, jobs>>
  BY <1>1, IterateFlags DEF Iterate
<1>3. obj' \in [DOMAIN obj' -> Flags]
  BY <1>2 DEF Typed, Objects
<1>4. \A o \in DOMAIN obj' : obj'[o].reached => ~obj'[o].keep
  BY <1>2 DEF Typed, Objects
<1>5. \A n \in Names : jobs[n] # Nothing =>
         jobs[n] \in DOMAIN obj' /\ (obj'[jobs[n]].keep \/ obj'[jobs[n]].reached)
  BY <1>2 DEF Typed, Objects
<1> QED
  BY <1>2, <1>3, <1>4, <1>5 DEF Typed, Objects, ObjectsStay, Early

\* Who makes objects.
LEMMA ObjectSteps ==
    ASSUME Typed, [Next]_vars
    PROVE  \/ ObjectsStay
           \/ ReadJobs \/ AddJobs
           \/ \E m \in msgs : HandleCreate(m) \/ HandleEdit(m)
<1>q. ASSUME UNCHANGED <<obj, jobs, phase, listening, list>> PROVE ObjectsStay
  BY <1>q, QuietStays DEF Typed, Objects, Early
<1>1. CASE UNCHANGED vars
  BY <1>1, <1>q DEF vars, process
<1>2. CASE \E i \in Ids, n \in Names, active \in BOOLEAN :
             Create(i, n, active) \/ Edit(i, n, active)
  BY <1>2, <1>q DEF Create, Edit, Change, process
<1>3. CASE \E i \in Ids : Delete(i) \/ Execute(i)
  BY <1>3, <1>q DEF Delete, Execute, Change, process
<1>4. CASE \E m \in msgs : SetActiveStatus(m) \/ Lose(m) \/ HandleExecute(m)
  BY <1>4, <1>q DEF SetActiveStatus, Lose, HandleExecute, process
<1>5. ASSUME NEW m \in msgs, HandleDelete(m) PROVE ObjectsStay
  <2>1. m.name \in Names
    BY DEF Typed, Messages, Msgs, Deactivation
  <2> QED
    BY <1>5, <2>1, UnscheduleStays DEF HandleDelete
<1>6. CASE Start \/ Listen \/ RunDone
  BY <1>6, QuietStays DEF Start, Listen, RunDone, Phases, Early, Typed, Objects, Locks, LockTyped
<1>7. CASE RunStart \/ SpawnDone \/ ExecuteDone \/ ExecuteFailed \/ \E n \in Names : RunNext(n)
  BY <1>7, <1>q DEF RunStart, SpawnDone, ExecuteDone, ExecuteFailed, RunNext
<1>8. CASE Crash
  BY <1>8 DEF Crash, NoJobs, ObjectsStay, Phases, Early
<1>9. CASE \E g \in DOMAIN live : Iterate(g) \/ MaxReached(g) \/ Leave(g)
  BY <1>9, <1>q, IterateStays DEF MaxReached, Leave
<1>10. CASE \E c \in calls : Send(c) \/ SendFailed(c)
  BY <1>10, <1>q DEF Send, SendFailed
<1>11. ASSUME NEW c \in calls, UnscheduleOneTime(c) PROVE ObjectsStay
  <2>1. c.job.name \in Names
    BY DEF Typed, Loops, Objects, Jobs
  <2> QED
    BY <1>11, <2>1, UnscheduleStays DEF UnscheduleOneTime
<1> QED
  BY <1>1, <1>2, <1>3, <1>4, <1>5, <1>6, <1>7, <1>8, <1>9, <1>10, <1>11 DEF Next, Boot, Handle


\* What is built from a message is a new object.
LEMMA NewJob ==
    ASSUME Typed, NEW m \in Definitions
    PROVE  /\ JobOf(m) \in Jobs /\ JobOf(m) \notin DOMAIN obj /\ JobOf(m) \notin list
           /\ JobOf(m).from = "msg" /\ JobOf(m).id = m.id /\ JobOf(m).name = m.name
           /\ JobOf(m).ver = m.ver /\ m.ver <= versions
<1>1. m.ver \in 1..versions /\ versions \in 0..MaxVersions /\ MaxVersions \in Nat
  BY SchedulerAssumption DEF Typed, Messages, Rows
<1>2. m.id \in Ids /\ m.name \in Names /\ m.ver \in Versions
  BY <1>1 DEF Typed, Messages, Definitions, Msgs, Deactivation, Versions
<1>3. /\ JobOf(m) \in Jobs /\ JobOf(m).from = "msg" /\ JobOf(m).ver = m.ver
      /\ JobOf(m).id = m.id /\ JobOf(m).name = m.name
  BY <1>2 DEF JobOf, Jobs
<1> QED
  BY <1>1, <1>3 DEF Typed, Objects

\* A job that is added for a message.
LEMMA AddedObjects ==
    ASSUME Typed, [Next]_vars, NEW m \in Definitions,
           NEW f \in Flags, f.keep <=> ~f.reached, obj' = Added(JobOf(m), f),
           jobs' \in [Names -> Jobs \cup {Nothing}],
           \A n \in Names : jobs'[n] = jobs[n] \/ (jobs'[n] = JobOf(m) /\ n = m.name),
           msgs' = msgs \ {m},
           UNCHANGED <<phase, listening, list>>
    PROVE  Objects'
<1> DEFINE o == JobOf(m)
<1>a. /\ versions <= versions' /\ versions \in Nat /\ versions' \in Nat
      /\ \A i \in Ids : odb[i].ver > 0 => odb'[i].ver > 0
  BY VersionsKept
<1>1. /\ o \in Jobs /\ o \notin DOMAIN obj /\ o.from = "msg" /\ o.id = m.id
      /\ o.name = m.name /\ o.ver = m.ver /\ m.ver <= versions
  BY NewJob
<1>2. /\ m.id \in Ids /\ m.ver \in Nat /\ odb[m.id].ver > 0
      /\ m \in msgs
  BY DEF Typed, Messages, Definitions, Msgs, Deactivation
<1>3. /\ DOMAIN obj' = DOMAIN obj \cup {o} /\ obj'[o] = f
      /\ \A x \in DOMAIN obj : obj'[x] = obj[x]
      /\ obj' \in [DOMAIN obj' -> Flags]
  BY <1>1 DEF Added, Typed, Objects
<1>4. \A x \in DOMAIN obj \cup list : x.id \in Ids /\ x.ver \in Nat
  BY SchedulerAssumption DEF Typed, Objects, Jobs, Versions
<1> HIDE DEF o
<1>5. \A x \in list' : x.from = "odb" /\ x.ver <= versions' /\ odb'[x.id].ver > 0
  BY <1>a, <1>4 DEF Typed, Objects
<1>6. \A x \in DOMAIN obj' : x.ver <= versions' /\ odb'[x.id].ver > 0
  BY <1>a, <1>1, <1>2, <1>3, <1>4 DEF Typed, Objects
<1>7. \A k \in Definitions' : k \in Definitions /\ k # m
  BY DEF Definitions
<1>8. \A k \in Definitions', x \in DOMAIN obj' : x.from = "msg" => x.ver # k.ver
  <2>1. \A k \in Definitions' : k.ver # m.ver
    BY <1>7 DEF Typed, Messages
  <2> QED
    BY <1>1, <1>3, <1>7, <2>1 DEF Typed, Objects
<1>9. Early' => \A x \in DOMAIN obj' : x.from = "msg"
  BY <1>1, <1>3 DEF Typed, Objects, Early
<1>10. \A x \in DOMAIN obj' : obj'[x].reached => ~obj'[x].keep
  BY <1>3 DEF Typed, Objects
<1>11. \A n \in Names : jobs'[n] # Nothing =>
          /\ jobs'[n] \in DOMAIN obj' /\ jobs'[n].name = n
          /\ obj'[jobs'[n]].keep \/ obj'[jobs'[n]].reached
  BY <1>1, <1>3 DEF Typed, Objects, o
<1>12. DOMAIN obj' \subseteq Jobs
  BY <1>1, <1>3 DEF Typed, Objects
<1> QED
  BY <1>3, <1>5, <1>6, <1>8, <1>9, <1>10, <1>11, <1>12 DEF Typed, Objects

\* What is read from ODB, and what is made of it.
LEMMA ReadObjects == Typed /\ [Next]_vars /\ ReadJobs => Objects'
<1> SUFFICES ASSUME Typed, [Next]_vars, ReadJobs PROVE Objects'
  OBVIOUS
<1>1. /\ phase = "start" /\ phase' = "read"
      /\ UNCHANGED <<odb, versions, msgs, listening, jobs, obj>>
  BY DEF ReadJobs, store
<1>2. ASSUME NEW o \in list'
      PROVE  o \in Jobs /\ o.from = "odb" /\ o.ver <= versions /\ odb[o.id].ver > 0
  <2>1. PICK i \in Ids :
           /\ odb[i].there /\ odb[i].active
           /\ o = [id |-> i, name |-> odb[i].name, ver |-> odb[i].ver, from |-> "odb"]
    BY <1>2 DEF ReadJobs
  <2>2. /\ odb[i].name \in Names /\ odb[i].ver > 0 /\ odb[i].ver <= versions
        /\ odb[i].ver \in 0..MaxVersions /\ MaxVersions \in Nat
    BY <2>1, SchedulerAssumption DEF Typed, Rows, AnyRow
  <2>3. odb[i].ver \in Versions
    BY <2>2 DEF Versions
  <2> QED
    BY <2>1, <2>2, <2>3 DEF Jobs
<1>3. list' \subseteq Jobs /\ \A o \in list' : o.from = "odb" /\ o.ver <= versions /\ odb[o.id].ver > 0
  BY <1>2
<1> QED
  BY <1>1, <1>3 DEF Typed, Objects, Definitions, Early, Phases

LEMMA FreshFlags ==
    ASSUME NEW x \in BOOLEAN
    PROVE  /\ Fresh(x) \in Flags /\ (Fresh(x).keep <=> ~x) /\ (Fresh(x).reached <=> x)
           /\ (Fresh(x).start <=> ~x) /\ Fresh(x).run = 0
           /\ Cloned(x) \in Flags /\ Cloned(x).keep /\ ~Cloned(x).reached
           /\ (Cloned(x).start <=> ~x) /\ Cloned(x).run = 0
BY DEF Fresh, Cloned, Flags

\* What add_scheduler_jobs does to the objects.
LEMMA AddJobsObj ==
    ASSUME Typed, AddJobs
    PROVE  /\ DOMAIN obj' = DOMAIN obj \cup list /\ DOMAIN obj \cap list = {}
           /\ \A o \in DOMAIN obj : obj'[o] = obj[o]
           /\ \A o \in list : /\ obj'[o] \in Flags
                              /\ obj'[o].keep <=> ~obj'[o].reached
                              /\ obj'[o].start <=> obj'[o].keep
                              /\ obj'[o].run = 0
           /\ obj' \in [DOMAIN obj' -> Flags]
<1>1. DOMAIN obj \cap list = {}
  BY DEF Typed, Objects, AddJobs, Early
<1>2. PICK X : obj' = [o \in DOMAIN obj \cup list |->
                          IF o \in list THEN Fresh(o \in X) ELSE obj[o]]
  BY DEF AddJobs
<1>3. \A o \in list : (o \in X) \in BOOLEAN /\ obj'[o] = Fresh(o \in X)
  BY <1>2
<1>4. \A o \in list : /\ obj'[o] \in Flags
                      /\ obj'[o].keep <=> ~obj'[o].reached
                      /\ obj'[o].start <=> obj'[o].keep
                      /\ obj'[o].run = 0
  <2> TAKE o \in list
  <2>1. PICK x \in BOOLEAN : obj'[o] = Fresh(x)
    BY <1>3
  <2> QED
    BY <2>1, FreshFlags
<1>5. DOMAIN obj' = DOMAIN obj \cup list /\ \A o \in DOMAIN obj : obj'[o] = obj[o]
  BY <1>1, <1>2
<1>6. \A o \in DOMAIN obj' : obj'[o] \in Flags
  BY <1>4, <1>5 DEF Typed, Objects
<1>7. obj' = [o \in DOMAIN obj' |-> obj'[o]]
  BY <1>2
<1> QED
  BY <1>1, <1>4, <1>5, <1>6, <1>7


\* ... and to the set of jobs.
LEMMA AddJobsSet ==
    ASSUME Typed, AddJobs
    PROVE  /\ jobs' \in [Names -> Jobs \cup {Nothing}]
           /\ \A n \in Names : \/ jobs'[n] = jobs[n] /\ (jobs[n] = Nothing => ~\E o \in list : o.name = n)
                               \/ jobs[n] = Nothing /\ jobs'[n] \in list /\ jobs'[n].name = n
<1>1. jobs' = [n \in Names |->
                  IF jobs[n] = Nothing /\ \E o \in list : o.name = n
                  THEN CHOOSE o \in list : o.name = n ELSE jobs[n]]
  BY DEF AddJobs
<1>2. ASSUME NEW n \in Names
      PROVE  \/ jobs'[n] = jobs[n] /\ (jobs[n] = Nothing => ~\E o \in list : o.name = n)
             \/ jobs[n] = Nothing /\ jobs'[n] \in list /\ jobs'[n].name = n
  <2>1. CASE jobs[n] = Nothing /\ \E o \in list : o.name = n
    <3>1. jobs'[n] = CHOOSE o \in list : o.name = n
      BY <1>1, <2>1
    <3>2. jobs'[n] \in list /\ jobs'[n].name = n
      BY <2>1, <3>1
    <3> QED
      BY <2>1, <3>2
  <2>2. CASE ~(jobs[n] = Nothing /\ \E o \in list : o.name = n)
    BY <1>1, <2>2
  <2> QED
    BY <2>1, <2>2
<1>3. \A n \in Names : jobs'[n] \in Jobs \cup {Nothing}
  BY <1>2 DEF Typed, Objects
<1>4. jobs' \in [Names -> Jobs \cup {Nothing}]
  BY <1>1, <1>3
<1> QED
  BY <1>2, <1>4

LEMMA AddJobsObjects == Typed /\ [Next]_vars /\ AddJobs => Objects'
<1> SUFFICES ASSUME Typed, [Next]_vars, AddJobs PROVE Objects'
  OBVIOUS
<1>1. /\ phase = "read" /\ phase' = "added" /\ list' = {}
      /\ UNCHANGED <<odb, versions, msgs, listening>>
  BY DEF AddJobs, store
<1>2. /\ DOMAIN obj' = DOMAIN obj \cup list
      /\ \A o \in DOMAIN obj : obj'[o] = obj[o]
      /\ \A o \in list : obj'[o].keep <=> ~obj'[o].reached
      /\ obj' \in [DOMAIN obj' -> Flags]
  BY AddJobsObj
<1>3. /\ jobs' \in [Names -> Jobs \cup {Nothing}]
      /\ \A n \in Names : jobs'[n] = jobs[n] \/ (jobs'[n] \in list /\ jobs'[n].name = n)
  BY AddJobsSet
<1>4. \A n \in Names : jobs'[n] # Nothing =>
         /\ jobs'[n] \in DOMAIN obj' /\ jobs'[n].name = n
         /\ obj'[jobs'[n]].keep \/ obj'[jobs'[n]].reached
  BY <1>2, <1>3 DEF Typed, Objects
<1>5. \A o \in DOMAIN obj' : /\ o.ver <= versions /\ odb[o.id].ver > 0
                             /\ obj'[o].reached => ~obj'[o].keep
  BY <1>2 DEF Typed, Objects
<1>6. \A m \in Definitions, o \in DOMAIN obj' : o.from = "msg" => o.ver # m.ver
  BY <1>2 DEF Typed, Objects
<1>7. DOMAIN obj' \subseteq Jobs
  BY <1>2 DEF Typed, Objects
<1> QED
  BY <1>1, <1>2, <1>3, <1>4, <1>5, <1>6, <1>7 DEF Objects, Definitions, Early, Phases, Typed

\* What create and edit add.
LEMMA HandleAdds ==
    ASSUME Typed, NEW m \in msgs, HandleCreate(m) \/ HandleEdit(m)
    PROVE  /\ m \in Definitions
           /\ \E f \in Flags : f.keep = ~f.reached /\ f.run = 0 /\ obj' = Added(JobOf(m), f)
           /\ jobs' \in [Names -> Jobs \cup {Nothing}]
           /\ \A n \in Names \ {m.name} : jobs'[n] = jobs[n]
           /\ jobs'[m.name] = IF m.type = "create" /\ jobs[m.name] # Nothing
                              THEN jobs[m.name] ELSE JobOf(m)
           /\ m.type = "edit" => jobs'[m.name] = JobOf(m)
<1>1. m \in Definitions /\ m.name \in Names
  BY DEF HandleCreate, HandleEdit, Definitions, Typed, Messages, Msgs, Deactivation
<1>2. JobOf(m) \in Jobs
  BY <1>1, NewJob
<1>3. \E f \in Flags : f.keep = ~f.reached /\ f.run = 0 /\ obj' = Added(JobOf(m), f)
  <2>1. PICK x \in BOOLEAN : \/ obj' = Added(JobOf(m), Fresh(x))
                             \/ obj' = Added(JobOf(m), Cloned(x))
    BY DEF HandleCreate, HandleEdit, MayBeExhausted
  <2>2. /\ Fresh(x) \in Flags /\ Fresh(x).keep = ~Fresh(x).reached /\ Fresh(x).run = 0
        /\ Cloned(x) \in Flags /\ Cloned(x).keep = ~Cloned(x).reached /\ Cloned(x).run = 0
    BY DEF Fresh, Cloned, Flags
  <2> QED
    BY <2>1, <2>2
<1>4. \/ jobs' = [jobs EXCEPT ![m.name] = JobOf(m)]
      \/ jobs[m.name] # Nothing /\ m.type = "create" /\ jobs' = jobs
  <2>1. CASE HandleEdit(m)
    BY <2>1 DEF HandleEdit
  <2>2. CASE HandleCreate(m)
    BY <2>2, <1>1 DEF HandleCreate, Typed, Objects
  <2> QED
    BY <2>1, <2>2
<1>5. m.type = "edit" => jobs' = [jobs EXCEPT ![m.name] = JobOf(m)]
  BY <1>4
<1>6. m.type \in {"create", "edit"}
  BY DEF HandleCreate, HandleEdit
<1>7. m.type = "create" => jobs' = [jobs EXCEPT ![m.name] = IF @ = Nothing THEN JobOf(m) ELSE @]
  BY DEF HandleCreate, HandleEdit
<1> QED
  BY <1>1, <1>2, <1>3, <1>4, <1>5, <1>7 DEF Typed, Objects

LEMMA ObjectsNext == Typed /\ [Next]_vars => Objects'
<1> SUFFICES ASSUME Typed, [Next]_vars PROVE Objects'
  OBVIOUS
<1>1. ASSUME NEW m \in msgs, HandleCreate(m) \/ HandleEdit(m) PROVE Objects'
  <2>1. /\ m \in Definitions /\ jobs' \in [Names -> Jobs \cup {Nothing}]
        /\ \A n \in Names : jobs'[n] = jobs[n] \/ (jobs'[n] = JobOf(m) /\ n = m.name)
    BY <1>1, HandleAdds
  <2>2. PICK f \in Flags : f.keep = ~f.reached /\ obj' = Added(JobOf(m), f)
    BY <1>1, HandleAdds
  <2>3. f.keep <=> ~f.reached
    BY <2>2, Zenon
  <2>4. msgs' = msgs \ {m} /\ UNCHANGED <<phase, listening, list>>
    BY <1>1 DEF HandleCreate, HandleEdit, Handled
  <2> QED
    BY <2>1, <2>2, <2>3, <2>4, AddedObjects
<1> QED
  BY <1>1, ObjectSteps, ObjectsKept, ReadObjects, AddJobsObjects


\* What unscheduling a job that is there does.
LEMMA UnscheduleDoes ==
    ASSUME Typed, NEW n \in Names, Unschedule(n), jobs[n] # Nothing
    PROVE  /\ DOMAIN obj' = DOMAIN obj /\ jobs[n] \in DOMAIN obj
           /\ \A o \in DOMAIN obj \ {jobs[n]} : obj'[o] = obj[o]
           /\ ~obj'[jobs[n]].keep /\ obj'[jobs[n]].start = obj[jobs[n]].start
           /\ obj'[jobs[n]].reached = obj[jobs[n]].reached
           /\ obj'[jobs[n]].run = obj[jobs[n]].run
           /\ jobs' \in [Names -> Jobs \cup {Nothing}]
           /\ jobs'[n] = Nothing /\ \A k \in Names \ {n} : jobs'[k] = jobs[k]
           /\ live' \in Kill(greenlets[n])
           /\ greenlets' \in [Names -> Greenlets \cup {Nothing}]
           /\ greenlets'[n] = Nothing /\ \A k \in Names \ {n} : greenlets'[k] = greenlets[k]
<1>1. /\ jobs[n] \in DOMAIN obj /\ obj[jobs[n]] \in Flags
      /\ obj' = [obj EXCEPT ![jobs[n]].keep = FALSE]
      /\ jobs' = [jobs EXCEPT ![n] = Nothing]
      /\ live' \in Kill(greenlets[n])
      /\ greenlets' = [greenlets EXCEPT ![n] = Nothing]
  BY DEF Unschedule, Typed, Objects
<1>2. /\ DOMAIN obj' = DOMAIN obj
      /\ \A o \in DOMAIN obj \ {jobs[n]} : obj'[o] = obj[o]
      /\ obj'[jobs[n]] = [obj[jobs[n]] EXCEPT !.keep = FALSE]
  BY <1>1
<1>3. /\ ~obj'[jobs[n]].keep /\ obj'[jobs[n]].start = obj[jobs[n]].start
      /\ obj'[jobs[n]].reached = obj[jobs[n]].reached
      /\ obj'[jobs[n]].run = obj[jobs[n]].run
  BY <1>1, <1>2 DEF Flags
<1>4. /\ jobs' \in [Names -> Jobs \cup {Nothing}]
      /\ jobs'[n] = Nothing /\ \A k \in Names \ {n} : jobs'[k] = jobs[k]
      /\ greenlets' \in [Names -> Greenlets \cup {Nothing}]
      /\ greenlets'[n] = Nothing /\ \A k \in Names \ {n} : greenlets'[k] = greenlets[k]
  BY <1>1 DEF Typed, Objects, Loops
<1> QED
  BY <1>1, <1>2, <1>3, <1>4

\* Jobs are never told to go on again.
FlagsStay ==
    /\ DOMAIN obj \subseteq DOMAIN obj'
    /\ \A o \in DOMAIN obj : /\ obj'[o].keep => obj[o].keep
                             /\ obj'[o].start = obj[o].start
                             /\ obj[o].reached => obj'[o].reached

LEMMA UnscheduleFlags ==
    ASSUME Typed, NEW n \in Names, Unschedule(n)
    PROVE  FlagsStay
<1>1. CASE jobs[n] = Nothing
  BY <1>1 DEF Unschedule, FlagsStay
<1>2. CASE jobs[n] # Nothing
  BY <1>2, UnscheduleDoes DEF FlagsStay
<1> QED
  BY <1>1, <1>2

LEMMA FlagsNext ==
    ASSUME Typed, [Next]_vars
    PROVE  FlagsStay \/ Crash
<1>q. ASSUME obj' = obj PROVE FlagsStay
  BY <1>q DEF FlagsStay
<1>1. CASE UNCHANGED vars
  BY <1>1, <1>q DEF vars, process
<1>2. CASE \E i \in Ids, n \in Names, active \in BOOLEAN :
             Create(i, n, active) \/ Edit(i, n, active)
  BY <1>2, <1>q DEF Create, Edit, Change, process
<1>3. CASE \E i \in Ids : Delete(i) \/ Execute(i)
  BY <1>3, <1>q DEF Delete, Execute, Change, process
<1>4. CASE \E m \in msgs : SetActiveStatus(m) \/ Lose(m) \/ HandleExecute(m)
  BY <1>4, <1>q DEF SetActiveStatus, Lose, HandleExecute, process
<1>5. ASSUME NEW m \in msgs, HandleDelete(m) PROVE FlagsStay
  <2>1. m.name \in Names
    BY DEF Typed, Messages, Msgs, Deactivation
  <2> QED
    BY <1>5, <2>1, UnscheduleFlags DEF HandleDelete
<1>6. ASSUME NEW m \in msgs, HandleCreate(m) \/ HandleEdit(m) PROVE FlagsStay
  <2>1. m \in Definitions /\ \E f \in Flags : obj' = Added(JobOf(m), f)
    BY <1>6, HandleAdds
  <2>2. JobOf(m) \notin DOMAIN obj
    BY <2>1, NewJob
  <2> QED
    BY <2>1, <2>2 DEF Added, FlagsStay
<1>7. CASE Start \/ Listen \/ RunDone \/ ReadJobs \/ RunStart \/ \E n \in Names : RunNext(n)
  BY <1>7, <1>q DEF Start, Listen, RunDone, ReadJobs, RunStart, RunNext
<1>8. CASE AddJobs
  BY <1>8, AddJobsObj DEF FlagsStay
<1>9. CASE SpawnDone \/ ExecuteDone \/ ExecuteFailed
  BY <1>9, <1>q DEF SpawnDone, ExecuteDone, ExecuteFailed
<1>10. ASSUME NEW g \in DOMAIN live, Iterate(g) PROVE FlagsStay
  <2>1. /\ g.job \in DOMAIN obj /\ g.job.id \in Ids /\ obj[g.job] \in Flags
    BY DEF Typed, Loops, Objects, Jobs
  <2>2. obj[g.job].keep
    BY <1>10 DEF Iterate
  <2> QED
    BY <1>10, <2>1, <2>2, IterateFlags DEF FlagsStay
<1>11. CASE \E g \in DOMAIN live : MaxReached(g) \/ Leave(g)
  BY <1>11, <1>q DEF MaxReached, Leave
<1>12. CASE \E c \in calls : Send(c) \/ SendFailed(c)
  BY <1>12, <1>q DEF Send, SendFailed
<1>13. ASSUME NEW c \in calls, UnscheduleOneTime(c) PROVE FlagsStay
  <2>1. c.job.name \in Names
    BY DEF Typed, Loops, Objects, Jobs
  <2> QED
    BY <1>13, <2>1, UnscheduleFlags DEF UnscheduleOneTime
<1> QED
  BY <1>1, <1>2, <1>3, <1>4, <1>5, <1>6, <1>7, <1>8, <1>9, <1>10, <1>11, <1>12, <1>13
  DEF Next, Boot, Handle

\* A greenlet is new, goes on as it was, or waits because its last run has begun.
LiveStay ==
    /\ live' \in [DOMAIN live' -> {"loop", "max"}]
    /\ \A g \in DOMAIN live' :
          \/ g \in DOMAIN live /\ live'[g] = live[g]
          \/ g \in Greenlets /\ g.job \in DOMAIN obj' /\ live'[g] = "loop"
          \/ g \in DOMAIN live /\ live'[g] = "max" /\ ~obj'[g.job].keep

LEMMA KillStays ==
    ASSUME Typed, NEW g, live' \in Kill(g)
    PROVE  LiveStay
BY DEF Kill, Typed, Loops, LiveStay

LEMMA SpawnStays ==
    ASSUME Typed, NEW g \in Greenlets, g.job \in DOMAIN obj', NEW L,
           L = live \/ \E h : L \in Kill(h),
           live' = [x \in DOMAIN L \cup {g} |-> IF x = g THEN "loop" ELSE L[x]]
    PROVE  LiveStay
<1>1. /\ DOMAIN L \subseteq DOMAIN live
      /\ \A x \in DOMAIN L : L[x] = live[x]
  BY KillLeaves
<1> QED
  BY <1>1 DEF Typed, Loops, LiveStay

LEMMA CallbackStays ==
    ASSUME Typed, NEW g \in DOMAIN live, Callback(g)
    PROVE  /\ DOMAIN live' \subseteq DOMAIN live
           /\ \A x \in DOMAIN live' : live'[x] = live[x] \/ live'[x] = "loop"
           /\ live' \in [DOMAIN live' -> {"loop", "max"}]
           /\ calls' = calls \cup {[job |-> g.job, at |-> "send"]}
BY DEF Callback, Without, Typed, Loops


LEMMA UnscheduleLive ==
    ASSUME Typed, NEW n \in Names, Unschedule(n)
    PROVE  /\ LiveStay
           /\ greenlets' \in [Names -> Greenlets \cup {Nothing}]
           /\ \A k \in Names : greenlets'[k] = greenlets[k] \/ greenlets'[k] = Nothing
<1>1. CASE jobs[n] = Nothing
  BY <1>1 DEF Unschedule, LiveStay, Typed, Loops
<1>2. CASE jobs[n] # Nothing
  BY <1>2, UnscheduleDoes, KillStays
<1> QED
  BY <1>1, <1>2

\* What becomes of greenlets and callbacks.
LEMMA LiveNext ==
    ASSUME Typed, [Next]_vars
    PROVE  LiveStay
<1>q. ASSUME live' = live PROVE LiveStay
  BY <1>q DEF LiveStay, Typed, Loops
<1>1. CASE UNCHANGED vars
  BY <1>1, <1>q DEF vars, process
<1>2. CASE \E i \in Ids, n \in Names, active \in BOOLEAN :
             Create(i, n, active) \/ Edit(i, n, active)
  BY <1>2, <1>q DEF Create, Edit, Change, process
<1>3. CASE \E i \in Ids : Delete(i) \/ Execute(i)
  BY <1>3, <1>q DEF Delete, Execute, Change, process
<1>4. CASE \E m \in msgs : SetActiveStatus(m) \/ Lose(m) \/ HandleExecute(m)
  BY <1>4, <1>q DEF SetActiveStatus, Lose, HandleExecute, process
<1>5. ASSUME NEW m \in msgs, HandleDelete(m) PROVE LiveStay
  <2>1. m.name \in Names
    BY DEF Typed, Messages, Msgs, Deactivation
  <2> QED
    BY <1>5, <2>1, UnscheduleLive DEF HandleDelete
<1>6. ASSUME NEW m \in msgs, HandleCreate(m) \/ HandleEdit(m) PROVE LiveStay
  <2> DEFINE g == [job |-> JobOf(m), by |-> "create"]
  <2>1. m \in Definitions /\ \E f \in Flags : obj' = Added(JobOf(m), f)
    BY <1>6, HandleAdds
  <2>2. JobOf(m) \in Jobs /\ JobOf(m) \in DOMAIN obj'
    BY <2>1, NewJob DEF Added
  <2>3. g \in Greenlets /\ g.job \in DOMAIN obj'
    BY <2>2 DEF Greenlets
  <2>4. \E L : /\ L = live \/ \E h : L \in Kill(h)
               /\ live' = [x \in DOMAIN L \cup {g} |-> IF x = g THEN "loop" ELSE L[x]]
    BY <1>6 DEF HandleCreate, HandleEdit, Spawned
  <2> HIDE DEF g
  <2> QED
    BY <2>3, <2>4, SpawnStays
<1>7. CASE Start \/ Listen \/ RunDone \/ ReadJobs \/ AddJobs \/ RunStart
  BY <1>7, <1>q DEF Start, Listen, RunDone, ReadJobs, AddJobs, RunStart
<1>8. ASSUME NEW n \in Names, RunNext(n) PROVE LiveStay
  <2> DEFINE g == [job |-> jobs[n], by |-> "run"]
  <2>1. jobs[n] # Nothing /\ jobs[n] \in DOMAIN obj /\ jobs[n] \in Jobs /\ obj' = obj
    BY <1>8 DEF RunNext, Typed, Locks, LockTyped, Objects
  <2>2. g \in Greenlets /\ g.job \in DOMAIN obj'
    BY <2>1 DEF Greenlets
  <2>3. live' = live \/ live' = Spawned(g)
    BY <1>8 DEF RunNext
  <2> HIDE DEF g
  <2> QED
    BY <2>2, <2>3, <1>q, SpawnStays DEF Spawned
<1>9. CASE SpawnDone \/ ExecuteDone \/ ExecuteFailed
  BY <1>9, <1>q DEF SpawnDone, ExecuteDone, ExecuteFailed
<1>10. ASSUME NEW g \in DOMAIN live, Iterate(g) PROVE LiveStay
  <2>1. /\ g.job \in DOMAIN obj /\ g.job.id \in Ids /\ obj[g.job] \in Flags
        /\ DOMAIN live \subseteq Greenlets
        /\ \A x \in DOMAIN live : x.job \in DOMAIN obj
    BY DEF Typed, Loops, Objects, Jobs
  <2>2. /\ obj'[g.job].keep <=> ~Last(g.job)
        /\ DOMAIN obj' = DOMAIN obj
    BY <1>10, <2>1, IterateFlags
  <2>3. \/ Callback(g)
        \/ Last(g.job) /\ live' = [live EXCEPT ![g] = "max"]
    BY <1>10 DEF Iterate, Last
  <2>4. CASE Callback(g)
    BY <2>1, <2>2, <2>4, CallbackStays DEF LiveStay
  <2>5. CASE Last(g.job) /\ live' = [live EXCEPT ![g] = "max"]
    BY <2>2, <2>5 DEF LiveStay, Typed, Loops
  <2> QED
    BY <2>3, <2>4, <2>5
<1>11. ASSUME NEW g \in DOMAIN live, MaxReached(g) PROVE LiveStay
  <2>1. /\ DOMAIN live \subseteq Greenlets /\ obj' = obj
        /\ \A x \in DOMAIN live : x.job \in DOMAIN obj
    BY <1>11 DEF Typed, Loops, MaxReached
  <2> QED
    BY <1>11, <2>1, CallbackStays DEF MaxReached, LiveStay
<1>12. ASSUME NEW g \in DOMAIN live, Leave(g) PROVE LiveStay
  BY <1>12 DEF Leave, Without, LiveStay, Typed, Loops
<1>13. CASE \E c \in calls : Send(c) \/ SendFailed(c)
  BY <1>13, <1>q DEF Send, SendFailed
<1>14. ASSUME NEW c \in calls, UnscheduleOneTime(c) PROVE LiveStay
  <2>1. c.job.name \in Names
    BY DEF Typed, Loops, Objects, Jobs
  <2> QED
    BY <1>14, <2>1, UnscheduleLive DEF UnscheduleOneTime
<1>15. CASE Crash
  BY <1>15 DEF Crash, NoJobs, LiveStay
<1> QED
  BY <1>1, <1>2, <1>3, <1>4, <1>5, <1>6, <1>7, <1>8, <1>9, <1>10, <1>11, <1>12, <1>13, <1>14, <1>15
  DEF Next, Boot, Handle

LEMMA StoredNext ==
    ASSUME Typed, [Next]_vars
    PROVE  /\ greenlets' \in [Names -> Greenlets \cup {Nothing}]
           /\ \A n \in Names : greenlets'[n] # Nothing => greenlets'[n].job.name = n
<1>a. /\ greenlets \in [Names -> Greenlets \cup {Nothing}]
      /\ \A n \in Names : greenlets[n] # Nothing => greenlets[n].job.name = n
  BY DEF Typed, Loops
<1>1. CASE UNCHANGED vars
  BY <1>1, <1>a DEF vars, process
<1>2. CASE \E i \in Ids, n \in Names, active \in BOOLEAN :
             Create(i, n, active) \/ Edit(i, n, active)
  BY <1>2, <1>a DEF Create, Edit, Change, process
<1>3. CASE \E i \in Ids : Delete(i) \/ Execute(i)
  BY <1>3, <1>a DEF Delete, Execute, Change, process
<1>4. CASE \E m \in msgs : SetActiveStatus(m) \/ Lose(m) \/ HandleExecute(m) \/ HandleCreate(m)
  BY <1>4, <1>a DEF SetActiveStatus, Lose, HandleExecute, HandleCreate, process
<1>5. ASSUME NEW m \in msgs, HandleDelete(m) \/ HandleEdit(m)
      PROVE  /\ greenlets' \in [Names -> Greenlets \cup {Nothing}]
             /\ \A k \in Names : greenlets'[k] = greenlets[k] \/ greenlets'[k] = Nothing
  <2>1. m.name \in Names
    BY DEF Typed, Messages, Msgs, Deactivation
  <2>2. CASE HandleDelete(m)
    BY <2>1, <2>2, UnscheduleLive DEF HandleDelete
  <2>3. CASE HandleEdit(m)
    BY <1>a, <2>1, <2>3 DEF HandleEdit
  <2> QED
    BY <1>5, <2>2, <2>3
<1>6. CASE Boot
  BY <1>6, <1>a DEF Boot, Start, Listen, RunDone, ReadJobs, AddJobs, RunStart, RunNext
<1>7. CASE SpawnDone
  <2>1. lock.what \in Greenlets /\ greenlets' = [greenlets EXCEPT ![lock.what.job.name] = lock.what]
    BY <1>7 DEF SpawnDone, Typed, Locks, LockTyped
  <2>2. lock.what.job.name \in Names
    BY <2>1 DEF Greenlets, Jobs
  <2> QED
    BY <1>a, <2>1, <2>2
<1>8. CASE ExecuteDone \/ ExecuteFailed
  BY <1>8, <1>a DEF ExecuteDone, ExecuteFailed
<1>9. CASE Crash
  BY <1>9 DEF Crash
<1>10. CASE \E g \in DOMAIN live : Iterate(g) \/ MaxReached(g) \/ Leave(g)
  BY <1>10, <1>a DEF Iterate, MaxReached, Leave
<1>11. CASE \E c \in calls : Send(c) \/ SendFailed(c)
  BY <1>11, <1>a DEF Send, SendFailed
<1>12. ASSUME NEW c \in calls, UnscheduleOneTime(c)
      PROVE  /\ greenlets' \in [Names -> Greenlets \cup {Nothing}]
             /\ \A k \in Names : greenlets'[k] = greenlets[k] \/ greenlets'[k] = Nothing
  <2>1. c.job.name \in Names
    BY DEF Typed, Loops, Objects, Jobs
  <2> QED
    BY <1>12, <2>1, UnscheduleLive DEF UnscheduleOneTime
<1>13. \/ UNCHANGED vars
       \/ \E i \in Ids, n \in Names, active \in BOOLEAN :
             Create(i, n, active) \/ Edit(i, n, active)
       \/ \E i \in Ids : Delete(i) \/ Execute(i)
       \/ \E m \in msgs : SetActiveStatus(m) \/ Lose(m) \/ HandleExecute(m) \/ HandleCreate(m)
       \/ \E m \in msgs : HandleDelete(m) \/ HandleEdit(m)
       \/ Boot \/ SpawnDone \/ ExecuteDone \/ ExecuteFailed \/ Crash
       \/ \E g \in DOMAIN live : Iterate(g) \/ MaxReached(g) \/ Leave(g)
       \/ \E c \in calls : Send(c) \/ SendFailed(c)
       \/ \E c \in calls : UnscheduleOneTime(c)
  BY DEF Next, Handle
<1> QED
  BY <1>1, <1>2, <1>3, <1>4, <1>5, <1>6, <1>7, <1>8, <1>9, <1>10, <1>11, <1>12, <1>13, <1>a


\* A callback is new, or was there, perhaps as one that was not sent yet.
LEMMA CallsNext ==
    ASSUME Typed, [Next]_vars
    PROVE  \A c \in calls' :
              \/ c \in calls
              \/ c.job \in DOMAIN obj' /\ c.at = "send"
              \/ c.job \in DOMAIN obj /\ obj' = obj /\ c.at = "unschedule" /\ c.job.id \in OneTime
<1>1. CASE UNCHANGED vars
  BY <1>1 DEF vars, process
<1>2. CASE \E i \in Ids, n \in Names, active \in BOOLEAN :
             Create(i, n, active) \/ Edit(i, n, active)
  BY <1>2 DEF Create, Edit, Change, process
<1>3. CASE \E i \in Ids : Delete(i) \/ Execute(i)
  BY <1>3 DEF Delete, Execute, Change, process
<1>4. CASE \E m \in msgs : SetActiveStatus(m) \/ Lose(m) \/ Handle(m)
  BY <1>4 DEF SetActiveStatus, Lose, Handle, HandleExecute, HandleCreate, HandleEdit,
              HandleDelete, process
<1>5. CASE Boot
  BY <1>5 DEF Boot, Start, Listen, RunDone, ReadJobs, AddJobs, RunStart, RunNext
<1>6. CASE SpawnDone \/ ExecuteDone \/ ExecuteFailed \/ Crash
  BY <1>6 DEF SpawnDone, ExecuteDone, ExecuteFailed, Crash
<1>7. ASSUME NEW g \in DOMAIN live, Iterate(g) \/ MaxReached(g) \/ Leave(g)
      PROVE  \A c \in calls' : c \in calls \/ (c.job \in DOMAIN obj' /\ c.at = "send")
  <2>1. calls' = calls \/ calls' = calls \cup {[job |-> g.job, at |-> "send"]}
    BY <1>7 DEF Iterate, MaxReached, Leave, Callback
  <2>2. g.job \in DOMAIN obj /\ DOMAIN obj' = DOMAIN obj
    BY <1>7 DEF Iterate, MaxReached, Leave, Typed, Loops
  <2> QED
    BY <2>1, <2>2
<1>8. ASSUME NEW c \in calls, Send(c) \/ SendFailed(c)
      PROVE  \A x \in calls' : \/ x \in calls
                               \/ /\ x.job \in DOMAIN obj /\ obj' = obj
                                  /\ x.at = "unschedule" /\ x.job.id \in OneTime
  <2>1. c.job \in DOMAIN obj /\ obj' = obj
    BY <1>8 DEF Send, SendFailed, Typed, Loops
  <2>2. calls' \subseteq calls \cup {[job |-> c.job, at |-> "unschedule"] :
                                      i \in {c.job.id} \cap OneTime}
    BY <1>8 DEF Send, SendFailed
  <2> QED
    BY <2>1, <2>2
<1>9. CASE \E c \in calls : UnscheduleOneTime(c)
  BY <1>9 DEF UnscheduleOneTime
<1> QED
  BY <1>1, <1>2, <1>3, <1>4, <1>5, <1>6, <1>7, <1>8, <1>9 DEF Next

LEMMA LoopsNext == Typed /\ [Next]_vars => Loops'
<1> SUFFICES ASSUME Typed, [Next]_vars PROVE Loops'
  OBVIOUS
<1>1. CASE Crash
  BY <1>1 DEF Crash, NoJobs, Loops
<1>2. CASE FlagsStay
  <2>1. LiveStay
    BY LiveNext
  <2>2. DOMAIN live' \subseteq Greenlets
    BY <2>1 DEF LiveStay, Typed, Loops
  <2>3. \A g \in DOMAIN live' : /\ g.job \in DOMAIN obj'
                                /\ live'[g] = "max" => ~obj'[g.job].keep
    BY <2>1, <1>2 DEF LiveStay, FlagsStay, Typed, Loops
  <2>4. \A c \in calls' : /\ c.job \in DOMAIN obj' /\ c.at \in {"send", "unschedule"}
                          /\ c.at = "unschedule" => c.job.id \in OneTime
    BY <1>2, CallsNext DEF FlagsStay, Typed, Loops
  <2> QED
    BY <2>1, <2>2, <2>3, <2>4, StoredNext DEF Loops, LiveStay
<1> QED
  BY <1>1, <1>2, FlagsNext

LEMMA DisturbedNext ==
    ASSUME Typed, [Next]_vars
    PROVE  disturbed' \subseteq Names
<1>a. disturbed \subseteq Names /\ \A i \in Ids : odb[i].there => odb[i].name \in Names
  BY DEF Typed, Rows, Locks
<1>1. CASE UNCHANGED vars
  BY <1>1, <1>a DEF vars, history
<1>2. CASE \E i \in Ids, n \in Names, active \in BOOLEAN :
             Create(i, n, active) \/ Edit(i, n, active)
  BY <1>2, <1>a DEF Create, Edit, Disturb
<1>3. CASE \E i \in Ids : Delete(i) \/ Execute(i)
  BY <1>3, <1>a DEF Delete, Execute, Disturb
<1>4. CASE \E m \in msgs : SetActiveStatus(m) \/ Lose(m) \/ Handle(m)
  BY <1>4, <1>a DEF SetActiveStatus, Lose, Handle, HandleExecute, HandleCreate, HandleEdit,
                    HandleDelete, history
<1>5. CASE Boot
  BY <1>5, <1>a DEF Boot, Start, Listen, RunDone, ReadJobs, AddJobs, RunStart, RunNext, history
<1>6. CASE SpawnDone \/ ExecuteDone \/ ExecuteFailed \/ Crash
  BY <1>6, <1>a DEF SpawnDone, ExecuteDone, ExecuteFailed, Crash, history
<1>7. CASE \E g \in DOMAIN live : Iterate(g) \/ MaxReached(g) \/ Leave(g)
  BY <1>7, <1>a DEF Iterate, MaxReached, Leave, Disturb, history
<1>8. CASE \E c \in calls : Send(c) \/ SendFailed(c) \/ UnscheduleOneTime(c)
  BY <1>8, <1>a DEF Send, SendFailed, UnscheduleOneTime, history
<1> QED
  BY <1>1, <1>2, <1>3, <1>4, <1>5, <1>6, <1>7, <1>8 DEF Next

LEMMA LockNext == Typed /\ [Next]_vars => LockTyped'
<1> SUFFICES ASSUME Typed, [Next]_vars PROVE LockTyped'
  OBVIOUS
<1>a. LockTyped
  BY DEF Typed, Locks
<1>b. /\ Unlocked \in [by : {"nobody", "create", "run", "execute"},
                     what : Greenlets \cup Jobs \cup {Nothing}, todo : SUBSET Names]
      /\ Unlocked.by = "nobody"
  BY DEF Unlocked
<1>u. ASSUME lock' = Unlocked PROVE LockTyped'
  BY <1>u, <1>b DEF LockTyped
<1>q. ASSUME lock' = lock, UNCHANGED jobs, lock.by = "run" => phase' = phase,
             lock.by = "execute" => DOMAIN obj \subseteq DOMAIN obj'
      PROVE  LockTyped'
  BY <1>q, <1>a DEF LockTyped
<1>1. CASE UNCHANGED vars
  BY <1>1, <1>q DEF vars, process
<1>2. CASE \E i \in Ids, n \in Names, active \in BOOLEAN :
             Create(i, n, active) \/ Edit(i, n, active)
  BY <1>2, <1>q DEF Create, Edit, Change, process
<1>3. CASE \E i \in Ids : Delete(i) \/ Execute(i)
  BY <1>3, <1>q DEF Delete, Execute, Change, process
<1>4. CASE \E m \in msgs : SetActiveStatus(m) \/ Lose(m)
  BY <1>4, <1>q DEF SetActiveStatus, Lose, process
<1>5. ASSUME NEW m \in msgs, HandleExecute(m) PROVE LockTyped'
  <2>1. m.name \in Names
    BY DEF Typed, Messages, Msgs, Deactivation
  <2>2. jobs[m.name] # Nothing => jobs[m.name] \in DOMAIN obj
    BY <2>1 DEF Typed, Objects
  <2>3. \/ lock' = Unlocked
        \/ jobs[m.name] # Nothing /\ lock' = [by |-> "execute", what |-> jobs[m.name], todo |-> {}]
    BY <1>5 DEF HandleExecute
  <2>4. obj' = obj
    BY <1>5 DEF HandleExecute
  <2> QED
    BY <2>2, <2>3, <2>4, <1>u DEF LockTyped, Typed, Objects
<1>6. ASSUME NEW m \in msgs, HandleCreate(m) \/ HandleEdit(m) PROVE LockTyped'
  <2>1. m \in Definitions
    BY <1>6, HandleAdds
  <2>2. [job |-> JobOf(m), by |-> "create"] \in Greenlets
    BY <2>1, NewJob DEF Greenlets
  <2>3. lock' = Spawning(JobOf(m))
    BY <1>6 DEF HandleCreate, HandleEdit
  <2> QED
    BY <2>2, <2>3 DEF LockTyped, Spawning
<1>7. CASE \E m \in msgs : HandleDelete(m)
  BY <1>7, <1>u DEF HandleDelete, Handled
<1>8. CASE Start \/ Listen \/ ReadJobs
  BY <1>8, <1>a, <1>q DEF Start, Listen, ReadJobs, LockTyped
<1>9. CASE AddJobs
  BY <1>9, <1>u DEF AddJobs
<1>10. CASE RunStart
  BY <1>10 DEF RunStart, LockTyped
<1>11. ASSUME NEW n \in Names, RunNext(n) PROVE LockTyped'
  <2> DEFINE g == [job |-> jobs[n], by |-> "run"]
  <2>1. jobs[n] # Nothing /\ jobs[n] \in Jobs
    BY <1>11 DEF RunNext, Typed, Locks, LockTyped, Objects
  <2>2. g \in Greenlets
    BY <2>1 DEF Greenlets
  <2>3. \/ lock' = [lock EXCEPT !.todo = @ \ {n}]
        \/ lock' = [lock EXCEPT !.todo = @ \ {n}, !.what = g]
    BY <1>11 DEF RunNext
  <2>4. lock.by = "run" /\ UNCHANGED <<jobs, phase>>
    BY <1>11 DEF RunNext
  <2> HIDE DEF g
  <2>5. /\ lock' \in [by : {"nobody", "create", "run", "execute"},
                      what : Greenlets \cup Jobs \cup {Nothing}, todo : SUBSET Names]
        /\ lock'.by = lock.by /\ lock'.what \in {lock.what, g} /\ lock'.todo \subseteq lock.todo
    BY <1>a, <2>2, <2>3 DEF LockTyped
  <2> QED
    BY <1>a, <2>2, <2>4, <2>5 DEF LockTyped
<1>12. CASE SpawnDone
  <2>1. \/ lock' = Unlocked
        \/ lock.by = "run" /\ lock' = [lock EXCEPT !.what = Nothing]
    BY <1>12 DEF SpawnDone
  <2>2. UNCHANGED <<jobs, phase>>
    BY <1>12 DEF SpawnDone
  <2> QED
    BY <1>a, <1>u, <2>1, <2>2 DEF LockTyped
<1>13. CASE RunDone \/ ExecuteDone \/ ExecuteFailed \/ Crash
  BY <1>13, <1>u DEF RunDone, ExecuteDone, ExecuteFailed, Crash
<1>14. CASE \E g \in DOMAIN live : Iterate(g) \/ MaxReached(g) \/ Leave(g)
  BY <1>14, <1>q DEF Iterate, MaxReached, Leave
<1>15. CASE \E c \in calls : Send(c) \/ SendFailed(c)
  BY <1>15, <1>q DEF Send, SendFailed
<1>16. CASE \E c \in calls : UnscheduleOneTime(c)
  BY <1>16, <1>u DEF UnscheduleOneTime
<1> QED
  BY <1>1, <1>2, <1>3, <1>4, <1>5, <1>6, <1>7, <1>8, <1>9, <1>10, <1>11, <1>12, <1>13, <1>14,
     <1>15, <1>16 DEF Next, Boot, Handle

LEMMA TypedNext == Typed /\ [Next]_vars => Typed'
<1> SUFFICES ASSUME Typed, [Next]_vars PROVE Typed'
  OBVIOUS
<1>1. Locks'
  BY LockNext, DisturbedNext DEF Locks, LockTyped
<1> QED
  BY <1>1, RowsNext, MessagesNext, ObjectsNext, LoopsNext DEF Typed

\* Every variable keeps its type, and what refers to a job does so by the name
\* that the job has: jobs that wait, run, are called back or hold the lock.
THEOREM TypeCorrect == Spec => []TypeOK
<1>1. Typed => TypeOK
  <2> SUFFICES ASSUME Typed PROVE TypeOK
    OBVIOUS
  <2> QED
    BY DEF Typed, TypeOK, Rows, Messages, Objects, Loops, Locks, LockTyped, AnyRow, Phases, Flags
<1> QED
  BY <1>1, TypedInit, TypedNext, PTL DEF Spec


-----------------------------------------------------------------------------
(* What holds of a name that was not disturbed.                            *)

\* Whatever is about a row with this name calls it by this name.
Named(n) ==
    \A x \in DOMAIN obj \cup list \cup msgs : odb[x.id].name = n => x.name = n

Up == phase = "ready" /\ listening

Changes(n) == {m \in msgs : m.type \in {"create", "edit", "delete"} /\ m.name = n}

\* A change waits alone, with the scheduler up, and is of what ODB has now.
Waiting(n) ==
    /\ Changes(n) # {} => Up
    /\ \A m, k \in Changes(n) : m = k
    /\ \A m \in Changes(n) :
          /\ m.type \in {"create", "edit"} => Wanted(m.id, n) /\ odb[m.id].ver = m.ver
          /\ m.type = "create" => jobs[n] = Nothing
          /\ m.type = "delete" => \A i \in Ids : ~Wanted(i, n)

\* ODB is about to hear that a job is over.
Deactivated(i, n) == \E m \in msgs : m.type = "deactivate" /\ m.id = i /\ m.name = n

\* The name's greenlet is being spawned.
Spawns(n) == lock.by \in {"create", "run"} /\ lock.what # Nothing /\ lock.what.job.name = n

\* A one-time job has run and is not yet gone everywhere.
Ending(n) ==
    \/ \E m \in msgs : m.type = "deactivate" /\ m.name = n
    \/ \E c \in calls : c.job.name = n /\ c.job.id \in OneTime
    \/ \E g \in DOMAIN live : g.job.name = n /\ g.job.id \in OneTime /\ live[g] = "max"

\* Nothing else is under way then, and what is to be unscheduled is that job.
Ends(n) ==
    /\ Ending(n) => /\ Up /\ Changes(n) = {} /\ ~Spawns(n)
                    /\ jobs[n] # Nothing => ~obj[jobs[n]].keep
    /\ \A c \in calls : c.job.name = n /\ c.job.id \in OneTime => jobs[n] \in {c.job, Nothing}
    /\ \A g \in DOMAIN live :
          g.job.name = n /\ g.job.id \in OneTime /\ live[g] = "max" => jobs[n] \in {g.job, Nothing}
    /\ \A c \in calls : c.at = "unschedule" /\ c.job.name = n =>
          \A i \in Ids : Wanted(i, n) => Deactivated(i, n)

\* One-time jobs are not executed by hand.
ByHand(n) ==
    /\ \A m \in msgs : m.type = "execute" /\ m.name = n =>
          odb[m.id].there /\ odb[m.id].name = n /\ m.id \notin OneTime
    /\ lock.by = "execute" /\ lock.what.name = n => lock.what.id \notin OneTime

\* The greenlet that the name has, or will have once it is stored.
Greenlet(n) == IF Spawns(n) THEN lock.what ELSE greenlets[n]

\* Nothing runs but the job of this name, in this greenlet.
Single(n) == \A g \in Running(n) : jobs[n] # Nothing /\ g.job = jobs[n] /\ g = Greenlet(n)

\* The job is of the row that has the name, and of its version unless it changes.
Latest(n) ==
    /\ jobs[n] # Nothing => \A i \in Ids : odb[i].there /\ odb[i].name = n => jobs[n].id = i
    /\ Changes(n) = {} /\ jobs[n] # Nothing =>
          /\ odb[jobs[n].id].there /\ odb[jobs[n].id].name = n
          /\ odb[jobs[n].id].ver = jobs[n].ver
          /\ odb[jobs[n].id].active \/ ~obj[jobs[n]].keep

\* The start of the scheduler has yet to spawn a greenlet.
Pending(n) == Early \/ (phase = "added" /\ (lock.by # "run" \/ n \in lock.todo))

Starting(n) ==
    /\ Early => jobs[n] = Nothing
    /\ Pending(n) => /\ greenlets[n] = Nothing /\ ~Spawns(n)
                     /\ \A g \in DOMAIN live : g.job.name # n
    /\ phase = "read" =>
          /\ \A o \in list : o.name = n => Wanted(o.id, n) /\ odb[o.id].ver = o.ver
          /\ \A i \in Ids : Wanted(i, n) => \E o \in list : o.name = n

\* What is wanted is there, and what goes on runs.
Present(n) ==
    /\ phase \in {"added", "ready"} /\ Changes(n) = {} =>
          \A i \in Ids : Wanted(i, n) => jobs[n] # Nothing \/ Deactivated(i, n)
    /\ ~Pending(n) /\ jobs[n] # Nothing /\ obj[jobs[n]].keep /\ obj[jobs[n]].start =>
          Greenlet(n) \in DOMAIN live /\ Greenlet(n).job = jobs[n]

NameInv(n) ==
    /\ Named(n) /\ Waiting(n) /\ Ends(n) /\ ByHand(n) /\ Single(n) /\ Latest(n)
    /\ Starting(n) /\ Present(n)

\* A step that leaves alone what a name needs: no change of its row or about it,
MessagesAlone(n) ==
    /\ \A i \in Ids : odb'[i].name = n \/ odb[i].name = n => odb'[i] = odb[i]
    /\ Named(n)'
    /\ \A m \in msgs' : m.name = n =>
          \/ m \in msgs
          \/ m.type = "execute" /\ m.id \notin OneTime /\ odb'[m.id].there /\ odb'[m.id].name = n
    /\ \A m \in msgs : m.name = n => m \in msgs' \/ m.type = "execute"

\* no new greenlet, no end of one that goes on, no new callback of a one-time job,
LoopsAlone(n) ==
    /\ \A o \in DOMAIN obj : o.name = n => /\ o \in DOMAIN obj'
                                           /\ obj'[o].keep => obj[o].keep
                                           /\ obj'[o].start = obj[o].start
    /\ \A g \in DOMAIN live' : g.job.name = n =>
          g \in DOMAIN live /\ (live'[g] = "max" => live[g] = "max" \/ g.job.id \notin OneTime)
    /\ \A g \in DOMAIN live : g.job.name = n =>
          g \in DOMAIN live' \/ ~obj[g.job].keep \/ ~obj[g.job].start
    /\ \A c \in calls' : c.job.name = n =>
          c \in calls \/ (c.at = "send" /\ c.job.id \notin OneTime)
    /\ jobs'[n] = jobs[n]

\* no other greenlet to store than the one that was spawned,
LockAlone(n) ==
    /\ Greenlet(n)' = Greenlet(n) /\ (Spawns(n)' => Spawns(n))
    /\ greenlets'[n] = greenlets[n] \/ Spawns(n)
    /\ lock'.by = "execute" /\ lock'.what.name = n => lock'.what.id \notin OneTime

\* and no turn of the start of the scheduler.
PhaseAlone(n) ==
    /\ Up => Up'
    /\ Early' => Early
    /\ phase' = "read" => phase = "read" /\ list' = list
    /\ phase' \in {"added", "ready"} => phase \in {"added", "ready"}
    /\ Pending(n)' => Pending(n)
    /\ Pending(n) => Pending(n)' \/ jobs[n] = Nothing

Unconcerned(n) == MessagesAlone(n) /\ LoopsAlone(n) /\ LockAlone(n) /\ PhaseAlone(n)

LEMMA UnconcernedInv ==
    ASSUME Typed, Typed', NEW n \in Names, NameInv(n), Unconcerned(n)
    PROVE  NameInv(n)'
<1>1. \A i \in Ids : Wanted(i, n)' => Wanted(i, n) /\ odb'[i] = odb[i]
  BY DEF Unconcerned, MessagesAlone, LoopsAlone, LockAlone, PhaseAlone, Wanted
<1>2. \A i \in Ids : Wanted(i, n) => Wanted(i, n)' /\ odb'[i] = odb[i]
  BY DEF Unconcerned, MessagesAlone, LoopsAlone, LockAlone, PhaseAlone, Wanted
<1>3. Changes(n)' = Changes(n)
  BY DEF Unconcerned, MessagesAlone, LoopsAlone, LockAlone, PhaseAlone, Changes
<1>4. \A i \in Ids : Deactivated(i, n) => Deactivated(i, n)'
  BY DEF Unconcerned, MessagesAlone, LoopsAlone, LockAlone, PhaseAlone, Deactivated
<1>5. Ending(n)' => Ending(n)
  BY DEF Unconcerned, MessagesAlone, LoopsAlone, LockAlone, PhaseAlone, Ending
<1>6. jobs'[n] = jobs[n] /\ (jobs[n] # Nothing => /\ jobs[n] \in DOMAIN obj /\ jobs[n].name = n
                                                 /\ jobs[n] \in DOMAIN obj' /\ jobs[n].id \in Ids)
  BY DEF Unconcerned, MessagesAlone, LoopsAlone, LockAlone, PhaseAlone, Typed, Objects, Jobs
<1>7. jobs[n] # Nothing => /\ obj'[jobs[n]].keep => obj[jobs[n]].keep
                           /\ obj'[jobs[n]].start = obj[jobs[n]].start
  BY <1>6 DEF Unconcerned, MessagesAlone, LoopsAlone, LockAlone, PhaseAlone
<1>8. Named(n)'
  BY DEF Unconcerned, MessagesAlone, LoopsAlone, LockAlone, PhaseAlone
<1>9. Waiting(n)'
  <2>1. \A m \in Changes(n) : m.id \in Ids
    BY DEF Changes, Typed, Messages, Msgs, Deactivation
  <2>2. Changes(n)' # {} => Up'
    BY <1>3 DEF NameInv, Waiting, Unconcerned, MessagesAlone, LoopsAlone, LockAlone, PhaseAlone
  <2>3. \A m, k \in Changes(n)' : m = k
    BY <1>3 DEF NameInv, Waiting
  <2>4. ASSUME NEW m \in Changes(n)'
        PROVE  /\ m.type \in {"create", "edit"} => Wanted(m.id, n)' /\ odb'[m.id].ver = m.ver
               /\ m.type = "create" => jobs'[n] = Nothing
               /\ m.type = "delete" => \A i \in Ids : ~Wanted(i, n)'
    <3>1. m \in Changes(n)
      BY <1>3
    <3> QED
      BY <3>1, <2>1, <1>1, <1>2, <1>6 DEF NameInv, Waiting
  <2> QED
    BY <2>2, <2>3, <2>4 DEF Waiting
<1>10. Ends(n)'
  <2>1. Ending(n)' => /\ Up' /\ Changes(n)' = {} /\ ~Spawns(n)'
                      /\ jobs'[n] # Nothing => ~obj'[jobs'[n]].keep
    BY <1>3, <1>5, <1>6, <1>7 DEF NameInv, Ends, Unconcerned, MessagesAlone, LoopsAlone, LockAlone, PhaseAlone
  <2>2. \A c \in calls' : c.job.name = n /\ c.job.id \in OneTime => jobs'[n] \in {c.job, Nothing}
    BY <1>6 DEF NameInv, Ends, Unconcerned, MessagesAlone, LoopsAlone, LockAlone, PhaseAlone
  <2>3. \A g \in DOMAIN live' :
           g.job.name = n /\ g.job.id \in OneTime /\ live'[g] = "max" => jobs'[n] \in {g.job, Nothing}
    BY <1>6 DEF NameInv, Ends, Unconcerned, MessagesAlone, LoopsAlone, LockAlone, PhaseAlone
  <2>4. \A c \in calls' : c.at = "unschedule" /\ c.job.name = n =>
           \A i \in Ids : Wanted(i, n)' => Deactivated(i, n)'
    BY <1>1, <1>4 DEF NameInv, Ends, Unconcerned, MessagesAlone, LoopsAlone, LockAlone, PhaseAlone
  <2> QED
    BY <2>1, <2>2, <2>3, <2>4 DEF Ends
<1>11. ByHand(n)'
  <2>1. ASSUME NEW m \in msgs', m.type = "execute", m.name = n
        PROVE  odb'[m.id].there /\ odb'[m.id].name = n /\ m.id \notin OneTime
    <3>1. CASE m \in msgs
      <4>1. m.id \in Ids
        BY <3>1 DEF Typed, Messages, Msgs, Deactivation
      <4> QED
        BY <2>1, <3>1, <4>1 DEF NameInv, ByHand, Unconcerned, MessagesAlone, LoopsAlone, LockAlone, PhaseAlone
    <3>2. CASE m \notin msgs
      BY <2>1, <3>2 DEF Unconcerned, MessagesAlone, LoopsAlone, LockAlone, PhaseAlone
    <3> QED
      BY <3>1, <3>2
  <2> QED
    BY <2>1 DEF ByHand, Unconcerned, MessagesAlone, LoopsAlone, LockAlone, PhaseAlone
<1>12. Single(n)'
  <2>1. ASSUME NEW g \in Running(n)' PROVE g \in Running(n)
    <3>1. /\ g \in DOMAIN live' /\ g.job.name = n /\ obj'[g.job].keep /\ obj'[g.job].start
          /\ g \in DOMAIN live
      BY <2>1 DEF Running, Unconcerned, MessagesAlone, LoopsAlone, LockAlone, PhaseAlone
    <3>2. g.job \in DOMAIN obj
      BY <3>1 DEF Typed, Loops
    <3> QED
      BY <3>1, <3>2 DEF Running, Unconcerned, MessagesAlone, LoopsAlone, LockAlone, PhaseAlone
  <2> QED
    BY <2>1, <1>6 DEF NameInv, Single, Unconcerned, MessagesAlone, LoopsAlone, LockAlone, PhaseAlone
<1>13. Latest(n)'
  <2>1. jobs'[n] # Nothing => \A i \in Ids : odb'[i].there /\ odb'[i].name = n => jobs'[n].id = i
    BY <1>6 DEF NameInv, Latest, Unconcerned, MessagesAlone, LoopsAlone, LockAlone, PhaseAlone
  <2>2. Changes(n)' = {} /\ jobs'[n] # Nothing =>
          /\ odb'[jobs'[n].id].there /\ odb'[jobs'[n].id].name = n
          /\ odb'[jobs'[n].id].ver = jobs'[n].ver
          /\ odb'[jobs'[n].id].active \/ ~obj'[jobs'[n]].keep
    <3> SUFFICES ASSUME Changes(n) = {}, jobs[n] # Nothing
                 PROVE  /\ odb'[jobs[n].id].there /\ odb'[jobs[n].id].name = n
                        /\ odb'[jobs[n].id].ver = jobs[n].ver
                        /\ odb'[jobs[n].id].active \/ ~obj'[jobs[n]].keep
      BY <1>3, <1>6
    <3>1. /\ odb[jobs[n].id].there /\ odb[jobs[n].id].name = n
          /\ odb[jobs[n].id].ver = jobs[n].ver
          /\ odb[jobs[n].id].active \/ ~obj[jobs[n]].keep
      BY DEF NameInv, Latest
    <3>2. odb'[jobs[n].id] = odb[jobs[n].id]
      BY <3>1, <1>6 DEF Unconcerned, MessagesAlone, LoopsAlone, LockAlone, PhaseAlone
    <3> QED
      BY <3>1, <3>2, <1>7
  <2> QED
    BY <2>1, <2>2 DEF Latest
<1>14. Starting(n)'
  <2>1. Early' => jobs'[n] = Nothing
    BY <1>6 DEF NameInv, Starting, Unconcerned, MessagesAlone, LoopsAlone, LockAlone, PhaseAlone
  <2>2. Pending(n)' => /\ greenlets'[n] = Nothing /\ ~Spawns(n)'
                       /\ \A g \in DOMAIN live' : g.job.name # n
    BY DEF NameInv, Starting, Unconcerned, MessagesAlone, LoopsAlone, LockAlone, PhaseAlone
  <2>3. phase' = "read" =>
          /\ \A o \in list' : o.name = n => Wanted(o.id, n)' /\ odb'[o.id].ver = o.ver
          /\ \A i \in Ids : Wanted(i, n)' => \E o \in list' : o.name = n
    <3>1. \A o \in list : o.id \in Ids
      BY DEF Typed, Objects, Jobs
    <3> QED
      BY <3>1, <1>1, <1>2 DEF NameInv, Starting, Unconcerned, MessagesAlone, LoopsAlone, LockAlone, PhaseAlone
  <2> QED
    BY <2>1, <2>2, <2>3 DEF Starting
<1>15. Present(n)'
  <2>1. phase' \in {"added", "ready"} /\ Changes(n)' = {} =>
          \A i \in Ids : Wanted(i, n)' => jobs'[n] # Nothing \/ Deactivated(i, n)'
    BY <1>1, <1>3, <1>4, <1>6 DEF NameInv, Present, Unconcerned, MessagesAlone, LoopsAlone, LockAlone, PhaseAlone
  <2>2. ~Pending(n)' /\ jobs'[n] # Nothing /\ obj'[jobs'[n]].keep /\ obj'[jobs'[n]].start =>
          Greenlet(n)' \in DOMAIN live' /\ Greenlet(n)'.job = jobs'[n]
    <3> SUFFICES ASSUME ~Pending(n)', jobs[n] # Nothing, obj'[jobs[n]].keep, obj'[jobs[n]].start
                 PROVE  Greenlet(n)' \in DOMAIN live' /\ Greenlet(n)'.job = jobs[n]
      BY <1>6
    <3>1. ~Pending(n) /\ obj[jobs[n]].keep /\ obj[jobs[n]].start
      BY <1>7 DEF Unconcerned, MessagesAlone, LoopsAlone, LockAlone, PhaseAlone
    <3>2. Greenlet(n) \in DOMAIN live /\ Greenlet(n).job = jobs[n]
      BY <3>1 DEF NameInv, Present
    <3> QED
      BY <3>1, <3>2, <1>6 DEF Unconcerned, MessagesAlone, LoopsAlone, LockAlone, PhaseAlone
  <2> QED
    BY <2>1, <2>2 DEF Present
<1> QED
  BY <1>8, <1>9, <1>10, <1>11, <1>12, <1>13, <1>14, <1>15 DEF NameInv


\* Steps that leave variables alone.
LEMMA LoopsUnchanged ==
    ASSUME NEW n, UNCHANGED <<obj, live, calls, jobs>>
    PROVE  LoopsAlone(n)
BY DEF LoopsAlone

LEMMA LockUnchanged ==
    ASSUME NEW n \in Names, NameInv(n), UNCHANGED <<lock, greenlets>>
    PROVE  LockAlone(n)
BY DEF NameInv, ByHand, LockAlone, Greenlet, Spawns

LEMMA PhaseUnchanged ==
    ASSUME NEW n, UNCHANGED <<phase, listening, list, lock>>
    PROVE  PhaseAlone(n)
BY DEF PhaseAlone, Up, Early, Pending

\* Messages that are handled, unless they are about the name.
LEMMA MessagesTaken ==
    ASSUME NEW n \in Names, NameInv(n), UNCHANGED <<odb, obj, list>>, msgs' \subseteq msgs,
           \A m \in msgs : m.name = n => m \in msgs' \/ m.type = "execute"
    PROVE  MessagesAlone(n)
BY DEF NameInv, Named, MessagesAlone

LEMMA NamesInit == Init => \A n \in Names : NameInv(n)
<1> SUFFICES ASSUME Init, NEW n \in Names PROVE NameInv(n)
  OBVIOUS
<1>1. /\ odb = [i \in Ids |-> NoRow] /\ msgs = {} /\ phase = "down" /\ ~listening /\ list = {}
      /\ jobs[n] = Nothing /\ greenlets[n] = Nothing /\ DOMAIN obj = {} /\ DOMAIN live = {}
      /\ calls = {} /\ lock = Unlocked
  BY DEF Init, NoJobs
<1>2. Running(n) = {} /\ Changes(n) = {} /\ ~Ending(n) /\ ~Spawns(n) /\ Early /\ Pending(n)
  BY <1>1 DEF Running, Changes, Ending, Spawns, Early, Pending, Unlocked
<1>3. Named(n) /\ Waiting(n) /\ Ends(n)
  BY <1>1, <1>2 DEF Named, Waiting, Ends
<1>4. ByHand(n) /\ Single(n) /\ Latest(n)
  BY <1>1, <1>2 DEF ByHand, Single, Latest, Unlocked
<1>5. Starting(n) /\ Present(n)
  BY <1>1, <1>2 DEF Starting, Present
<1> QED
  BY <1>3, <1>4, <1>5 DEF NameInv

\* An execution by hand is of no one-time job.
LEMMA ExecuteName ==
    ASSUME Typed, Typed', NEW n \in Names \ disturbed', NameInv(n), NEW i \in Ids, Execute(i)
    PROVE  NameInv(n)'
<1> DEFINE new == [type |-> "execute", id |-> i, name |-> odb[i].name, ver |-> 0]
<1>1. /\ odb[i].there /\ msgs' = msgs \cup {new}
      /\ UNCHANGED <<odb, phase, listening, list, jobs, obj, live, greenlets, calls, lock>>
      /\ i \in OneTime => n # odb[i].name
  BY DEF Execute, store, process, Disturb
<1>2. new.id = i /\ new.name = odb[i].name /\ new.type = "execute"
  OBVIOUS
<1> HIDE DEF new
<1>3. MessagesAlone(n)
  BY <1>1, <1>2 DEF NameInv, Named, MessagesAlone
<1>4. Unconcerned(n)
  BY <1>1, <1>3, LoopsUnchanged, LockUnchanged, PhaseUnchanged DEF Unconcerned
<1> QED
  BY <1>4, UnconcernedInv


\* A change of another name.
LEMMA ChangedOther ==
    ASSUME Typed, Typed', NEW n \in Names, NameInv(n),
           NEW i \in Ids, NEW row, NEW type, NEW name, Changed(i, row, type, name),
           odb[i].name # n, row.name # n, name # n
    PROVE  NameInv(n)'
<1> DEFINE new == [type |-> type, id |-> i, name |-> name, ver |-> versions + 1]
<1>1. /\ msgs' = msgs \cup {new} /\ odb' = [odb EXCEPT ![i] = row]
      /\ UNCHANGED <<phase, listening, list, jobs, obj, live, greenlets, calls, lock>>
  BY DEF Changed, process
<1>2. new.id = i /\ new.name = name
  OBVIOUS
<1> HIDE DEF new
<1>3. odb'[i] = row /\ \A j \in Ids \ {i} : odb'[j] = odb[j]
  BY <1>1 DEF Typed, Rows
<1>4. \A x \in DOMAIN obj \cup list \cup msgs : x.id \in Ids
  BY DEF Typed, Objects, Jobs, Messages, Msgs, Deactivation
<1>5. Named(n)'
  BY <1>1, <1>2, <1>3, <1>4 DEF NameInv, Named
<1>6. MessagesAlone(n)
  BY <1>1, <1>2, <1>3, <1>5 DEF MessagesAlone
<1>7. Unconcerned(n)
  BY <1>1, <1>6, LoopsUnchanged, LockUnchanged, PhaseUnchanged DEF Unconcerned
<1> QED
  BY <1>7, UnconcernedInv

\* A change with nothing under way.
LEMMA ChangedName ==
    ASSUME Typed, Typed', NEW n \in Names, NameInv(n), ~UnderWay(n),
           NEW i \in Ids, NEW row, NEW type, Changed(i, row, type, n),
           ~Taken(i, n), odb[i].name = n \/ odb[i].ver = 0, row.name = n \/ ~row.there,
           type = "delete" => ~row.active, type # "delete" => row.active,
           type = "create" => odb[i].ver = 0
    PROVE  NameInv(n)'
<1> DEFINE new == [type |-> type, id |-> i, name |-> n, ver |-> versions + 1]
<1>1. /\ msgs' = msgs \cup {new} /\ odb' = [odb EXCEPT ![i] = row]
      /\ UNCHANGED <<phase, listening, list, jobs, obj, live, greenlets, calls, lock>>
      /\ row.there => row.ver = versions + 1
      /\ ~row.there => ~row.active /\ row.name = Nothing
      /\ type \in {"create", "edit", "delete"}
  BY DEF Changed, process
<1>2. new.id = i /\ new.name = n /\ new.type = type /\ new.ver = versions + 1
  OBVIOUS
<1> HIDE DEF new
<1>3. odb'[i] = row /\ \A j \in Ids \ {i} : odb'[j] = odb[j]
  BY <1>1 DEF Typed, Rows
<1>4. \A x \in DOMAIN obj \cup list \cup msgs : x.id \in Ids /\ odb[x.id].ver > 0
  BY DEF Typed, Objects, Jobs, Messages, Msgs, Deactivation
<1>5. \A j \in Ids \ {i} : odb[j].name # n /\ odb'[j].name # n
  <2>1. Nothing # n
    BY SchedulerAssumption
  <2> QED
    BY <2>1, <1>3 DEF Taken, Typed, Rows
<1>6. odb[i].there => odb[i].ver > 0 /\ odb[i].ver \in Nat /\ odb[i].name = n
  BY SchedulerAssumption DEF Typed, Rows, AnyRow
<1>7. /\ phase = "ready" /\ listening
      /\ \A m \in msgs : m.name # n /\ odb[m.id].name # n
      /\ ~Ending(n) /\ ~Spawns(n)
  <2>1. lock.by # "run"
    BY DEF UnderWay, Typed, Locks, LockTyped
  <2> QED
    BY <2>1 DEF UnderWay, About, Ending, Spawns
<1>8. Changes(n) = {} /\ Changes(n)' = {new}
  BY <1>1, <1>2, <1>7 DEF Changes
<1>9. jobs[n] # Nothing => jobs[n].id = i /\ odb[i].there
  <2>1. jobs[n] # Nothing => jobs[n].id \in Ids
    BY DEF Typed, Objects, Jobs
  <2> QED
    BY <2>1, <1>5, <1>8 DEF NameInv, Latest
<1>10. Named(n)'
  <2>1. ASSUME NEW x \in DOMAIN obj \cup list \cup msgs, odb'[x.id].name = n PROVE x.name = n
    <3>1. x.id = i /\ odb[i].ver > 0
      BY <2>1, <1>4, <1>5
    <3>2. odb[i].name = n
      BY <3>1 DEF Typed, Rows, AnyRow
    <3> QED
      BY <3>1, <3>2 DEF NameInv, Named
  <2> QED
    BY <2>1, <1>1, <1>2 DEF Named
<1>11. Waiting(n)'
  <2>1. type # "delete" => Wanted(i, n)' /\ odb'[i].ver = versions + 1
    BY <1>1, <1>3 DEF Wanted
  <2>2. type = "delete" => \A j \in Ids : ~Wanted(j, n)'
    BY <1>3, <1>5 DEF Wanted
  <2>3. type = "create" => jobs'[n] = Nothing
    BY <1>1, <1>6, <1>9
  <2> QED
    BY <1>1, <1>2, <1>7, <1>8, <2>1, <2>2, <2>3 DEF Waiting, Up
<1>12. Ends(n)'
  <2>1. ~Ending(n)'
    BY <1>1, <1>2, <1>7 DEF Ending
  <2>2. \A c \in calls : c.job.name = n => c.job.id \notin OneTime
    BY <1>7 DEF Ending
  <2>3. \A c \in calls : c.at = "unschedule" => c.job.id \in OneTime
    BY DEF Typed, Loops
  <2>4. \A g \in DOMAIN live : ~(g.job.name = n /\ g.job.id \in OneTime /\ live[g] = "max")
    BY <1>7 DEF Ending
  <2> QED
    BY <1>1, <2>1, <2>2, <2>3, <2>4 DEF Ends
<1>13. ByHand(n)'
  BY <1>1, <1>2, <1>7 DEF NameInv, ByHand
<1>14. Single(n)'
  BY <1>1 DEF NameInv, Single, Running, Greenlet, Spawns
<1>15. Latest(n)'
  BY <1>1, <1>5, <1>8, <1>9 DEF NameInv, Latest
<1>16. Starting(n)'
  BY <1>1, <1>7 DEF Starting, Early, Pending
<1>17. Present(n)'
  BY <1>1, <1>8 DEF NameInv, Present, Pending, Early, Greenlet, Spawns
<1> QED
  BY <1>10, <1>11, <1>12, <1>13, <1>14, <1>15, <1>16, <1>17 DEF NameInv


LEMMA ServicesName ==
    ASSUME Typed, Typed', NEW n \in Names \ disturbed', NameInv(n),
           NEW i \in Ids, NEW k \in Names, NEW active \in BOOLEAN,
           Create(i, k, active) \/ Edit(i, k, active) \/ Delete(i) \/ Execute(i)
    PROVE  NameInv(n)'
<1>a. /\ odb[i].there => odb[i].ver > 0 /\ odb[i].ver \in Nat /\ odb[i].name \in Names
      /\ ~odb[i].there => odb[i].name = Nothing
      /\ Nothing # n
      /\ \A j \in Ids : odb[i].there /\ odb[j].there /\ odb[i].name = odb[j].name => i = j
  BY SchedulerAssumption DEF Typed, Rows, AnyRow
<1>b. Row(k, active).there /\ Row(k, active).name = k /\ Row(k, active).active = active
  BY DEF Row
<1>1. ASSUME Create(i, k, active) PROVE NameInv(n)'
  <2>1. /\ odb[i].ver = 0 /\ ~Taken(i, k) /\ odb[i].name # n
        /\ Changed(i, Row(k, active), IF active THEN "create" ELSE "delete", k)
        /\ k = n => ~UnderWay(n)
    <3>1. Changed(i, Row(k, active), IF active THEN "create" ELSE "delete", k)
      BY <1>1, ChangeCases DEF Typed
    <3> QED
      BY <1>1, <1>a, <3>1 DEF Create, Disturb
  <2>2. CASE k # n
    BY <2>1, <2>2, <1>b, ChangedOther
  <2>3. CASE k = n
    <3>1. PICK type : /\ type = IF active THEN "create" ELSE "delete"
                      /\ Changed(i, Row(k, active), type, n)
      BY <2>1, <2>3
    <3>2. /\ type = "delete" => ~Row(k, active).active
          /\ type # "delete" => Row(k, active).active
      BY <3>1, <1>b
    <3> QED
      BY <2>1, <2>3, <3>1, <3>2, <1>b, ChangedName
  <2> QED
    BY <2>2, <2>3
<1>2. ASSUME Edit(i, k, active) PROVE NameInv(n)'
  <2>1. /\ odb[i].there /\ ~Taken(i, k)
        /\ Changed(i, Row(k, active), IF active THEN "edit" ELSE "delete", k)
        /\ k = odb[i].name /\ k = n => ~UnderWay(n)
        /\ k # odb[i].name => n # k /\ n # odb[i].name
    BY <1>2, ChangeCases DEF Edit, Disturb, Typed
  <2>2. CASE k # n
    BY <2>1, <2>2, <1>b, ChangedOther
  <2>3. CASE k = n
    <3>1. PICK type : /\ type = IF active THEN "edit" ELSE "delete"
                      /\ Changed(i, Row(k, active), type, n)
      BY <2>1, <2>3
    <3>2. /\ type = "delete" => ~Row(k, active).active
          /\ type # "delete" => Row(k, active).active
          /\ type # "create"
      BY <3>1, <1>b
    <3>3. odb[i].name = n /\ ~UnderWay(n)
      BY <2>1, <2>3
    <3> QED
      BY <2>1, <2>3, <3>1, <3>2, <3>3, <1>b, ChangedName
  <2> QED
    BY <2>2, <2>3
<1>3. ASSUME Delete(i) PROVE NameInv(n)'
  <2> DEFINE row == [NoRow EXCEPT !.ver = odb[i].ver]
  <2>1. /\ odb[i].there
        /\ Changed(i, row, "delete", odb[i].name)
        /\ odb[i].name = n => ~UnderWay(n)
    BY <1>3, <1>a, ChangeCases DEF Delete, Disturb, Typed
  <2>2. ~row.there /\ row.name = Nothing /\ ~row.active
    BY DEF NoRow
  <2> HIDE DEF row
  <2>3. CASE odb[i].name # n
    BY <2>1, <2>2, <2>3, <1>a, ChangedOther
  <2>4. CASE odb[i].name = n
    <3>1. ~Taken(i, n)
      BY <1>a, <2>1, <2>4 DEF Taken
    <3>2. Changed(i, row, "delete", n) /\ ~UnderWay(n)
      BY <2>1, <2>4
    <3> QED
      BY <2>2, <2>4, <3>1, <3>2, ChangedName
  <2> QED
    BY <2>3, <2>4
<1> QED
  BY <1>1, <1>2, <1>3, ExecuteName

\* ODB is told that a job is over.
LEMMA SetActiveStatusName ==
    ASSUME Typed, Typed', NEW n \in Names, NameInv(n), NEW m \in msgs, SetActiveStatus(m)
    PROVE  NameInv(n)'
<1>1. /\ m.type = "deactivate" /\ m.id \in Ids
      /\ msgs' = msgs \ {m}
      /\ odb' = [odb EXCEPT ![m.id].active = FALSE]
      /\ UNCHANGED <<phase, listening, list, jobs, obj, live, greenlets, calls, lock>>
  BY DEF SetActiveStatus, process, Typed, Messages, Msgs, Deactivation
<1>2. \A i \in Ids : /\ odb'[i].there = odb[i].there /\ odb'[i].name = odb[i].name
                     /\ odb'[i].ver = odb[i].ver
                     /\ odb'[i].active => odb[i].active
                     /\ i # m.id => odb'[i] = odb[i]
  BY <1>1 DEF Typed, Rows, AnyRow
<1>3. \A x \in DOMAIN obj \cup list \cup msgs : x.id \in Ids
  BY DEF Typed, Objects, Jobs, Messages, Msgs, Deactivation
<1>4. Named(n)'
  BY <1>1, <1>2, <1>3 DEF NameInv, Named
<1>5. CASE m.name # n
  <2>1. odb[m.id].name # n
    BY <1>5 DEF NameInv, Named
  <2>2. MessagesAlone(n)
    BY <1>1, <1>2, <1>4, <1>5, <2>1 DEF MessagesAlone
  <2>3. Unconcerned(n)
    BY <1>1, <2>2, LoopsUnchanged, LockUnchanged, PhaseUnchanged DEF Unconcerned
  <2> QED
    BY <2>3, UnconcernedInv
<1>6. CASE m.name = n
  <2>1. Ending(n)
    BY <1>1, <1>6 DEF Ending
  <2>2. Up /\ Changes(n) = {} /\ ~Spawns(n) /\ (jobs[n] # Nothing => ~obj[jobs[n]].keep)
    BY <2>1 DEF NameInv, Ends
  <2>3. Changes(n)' = {}
    BY <1>1, <2>2 DEF Changes
  <2>4. \A i \in Ids : /\ Wanted(i, n)' => i # m.id /\ Wanted(i, n)
                       /\ i # m.id /\ Deactivated(i, n) => Deactivated(i, n)'
    <3>1. ~odb'[m.id].active
      BY <1>1 DEF Typed, Rows, AnyRow
    <3> QED
      BY <1>1, <1>2, <3>1 DEF Wanted, Deactivated
  <2>5. Waiting(n)'
    BY <2>3 DEF Waiting
  <2>6. Ends(n)'
    <3>1. ~Spawns(n)' /\ Up'
      BY <1>1, <2>2 DEF Spawns, Up
    <3>2. \A c \in calls' : c.at = "unschedule" /\ c.job.name = n =>
             \A i \in Ids : Wanted(i, n)' => Deactivated(i, n)'
      BY <1>1, <2>4 DEF NameInv, Ends
    <3> QED
      BY <1>1, <2>2, <2>3, <3>1, <3>2 DEF NameInv, Ends
  <2>7. ByHand(n)'
    BY <1>1, <1>2, <1>3 DEF NameInv, ByHand
  <2>8. Single(n)'
    BY <1>1 DEF NameInv, Single, Running, Greenlet, Spawns
  <2>9. Latest(n)'
    <3>1. jobs[n] # Nothing => jobs[n].id \in Ids
      BY DEF Typed, Objects, Jobs
    <3> QED
      BY <1>1, <1>2, <2>2, <3>1 DEF NameInv, Latest
  <2>10. Starting(n)'
    BY <1>1, <2>2 DEF Starting, Early, Pending, Up
  <2>11. Present(n)'
    <3>1. \A i \in Ids : Wanted(i, n)' => jobs'[n] # Nothing \/ Deactivated(i, n)'
      BY <1>1, <2>2, <2>4 DEF NameInv, Present, Up
    <3> QED
      BY <1>1, <2>2, <3>1 DEF Present
  <2> QED
    BY <1>4, <2>5, <2>6, <2>7, <2>8, <2>9, <2>10, <2>11 DEF NameInv
<1> QED
  BY <1>5, <1>6


-----------------------------------------------------------------------------
(* Start and end of the scheduler.                                         *)

LEMMA PhaseName ==
    ASSUME Typed, Typed', NEW n \in Names, NameInv(n), Start \/ Listen \/ RunStart \/ RunDone
    PROVE  NameInv(n)'
<1>1. UNCHANGED <<odb, msgs, list, jobs, obj, live, greenlets, calls>>
  BY DEF Start, Listen, RunStart, RunDone, store
<1>2. MessagesAlone(n)
  BY <1>1, MessagesTaken
<1>3. LoopsAlone(n)
  BY <1>1, LoopsUnchanged
<1>4. PhaseAlone(n)
  <2>1. CASE Start
    BY <2>1 DEF Start, PhaseAlone, Up, Early, Pending
  <2>2. CASE Listen
    BY <2>2 DEF Listen, PhaseAlone, Up, Early, Pending
  <2>3. CASE RunStart
    BY <2>3 DEF RunStart, PhaseAlone, Up, Early, Pending, Unlocked
  <2>4. CASE RunDone
    BY <2>4 DEF RunDone, PhaseAlone, Up, Early, Pending, Unlocked, Typed, Locks, LockTyped
  <2> QED
    BY <2>1, <2>2, <2>3, <2>4
<1>5. LockAlone(n)
  <2>1. CASE Start \/ Listen
    BY <2>1, LockUnchanged DEF Start, Listen
  <2>2. CASE RunStart \/ RunDone
    <3>1. /\ lock.by # "execute" /\ lock'.by # "execute"
          /\ ~Spawns(n) /\ ~Spawns(n)'
      BY <2>2 DEF RunStart, RunDone, Unlocked, Spawns
    <3> QED
      BY <1>1, <3>1 DEF LockAlone, Greenlet
  <2> QED
    BY <2>1, <2>2
<1> QED
  BY <1>2, <1>3, <1>4, <1>5, UnconcernedInv DEF Unconcerned

\* With the scheduler down or starting, nothing has changed and nothing ends.
LEMMA NotUp ==
    ASSUME NEW n, NameInv(n), ~Up
    PROVE  Changes(n) = {} /\ ~Ending(n)
BY DEF NameInv, Waiting, Ends

LEMMA ReadJobsName ==
    ASSUME Typed, Typed', NEW n \in Names, NameInv(n), ReadJobs
    PROVE  NameInv(n)'
<1>1. /\ phase = "start" /\ phase' = "read"
      /\ UNCHANGED <<odb, msgs, listening, jobs, obj, live, greenlets, calls, lock>>
      /\ list' = {[id |-> i, name |-> odb[i].name, ver |-> odb[i].ver, from |-> "odb"] :
                    i \in {j \in Ids : odb[j].there /\ odb[j].active}}
  BY DEF ReadJobs, store
<1>2. Changes(n) = {} /\ ~Ending(n)
  BY <1>1, NotUp DEF Up
<1>3. /\ \A o \in list' : o.name = odb[o.id].name /\ odb[o.id].there /\ odb[o.id].active
                          /\ odb[o.id].ver = o.ver
      /\ \A i \in Ids : odb[i].there /\ odb[i].active => \E o \in list' : o.name = odb[i].name
  <2>1. ASSUME NEW o \in list'
        PROVE  o.name = odb[o.id].name /\ odb[o.id].there /\ odb[o.id].active /\ odb[o.id].ver = o.ver
    <3>1. PICK i \in Ids :
             /\ odb[i].there /\ odb[i].active
             /\ o = [id |-> i, name |-> odb[i].name, ver |-> odb[i].ver, from |-> "odb"]
      BY <1>1, <2>1
    <3> QED
      BY <3>1
  <2>2. ASSUME NEW i \in Ids, odb[i].there, odb[i].active
        PROVE  \E o \in list' : o.name = odb[i].name
    <3>1. [id |-> i, name |-> odb[i].name, ver |-> odb[i].ver, from |-> "odb"] \in list'
      BY <1>1, <2>2
    <3> QED
      BY <3>1
  <2> QED
    BY <2>1, <2>2
<1>4. Named(n)'
  BY <1>1, <1>3 DEF NameInv, Named
<1>5. Changes(n)' = {} /\ ~Ending(n)'
  BY <1>1, <1>2 DEF Changes, Ending
<1>6. Waiting(n)' /\ Latest(n)'
  BY <1>1, <1>2, <1>5 DEF Waiting, NameInv, Latest
<1>7. Ends(n)' /\ ByHand(n)'
  BY <1>1, <1>5 DEF NameInv, Ends, ByHand, Wanted, Deactivated
<1>8. Single(n)'
  BY <1>1 DEF NameInv, Single, Running, Greenlet, Spawns
<1>9. Starting(n)'
  <2>1. Pending(n) /\ Early
    BY <1>1 DEF Pending, Early
  <2> QED
    BY <1>1, <1>3, <2>1 DEF NameInv, Starting, Wanted, Spawns
<1>10. Present(n)'
  BY <1>1 DEF Present, Pending, Early
<1> QED
  BY <1>4, <1>6, <1>7, <1>8, <1>9, <1>10 DEF NameInv

LEMMA AddJobsName ==
    ASSUME Typed, Typed', NEW n \in Names, NameInv(n), AddJobs
    PROVE  NameInv(n)'
<1>1. /\ phase = "read" /\ phase' = "added" /\ list' = {} /\ lock = Unlocked
      /\ UNCHANGED <<odb, msgs, listening, live, greenlets, calls, lock>>
  BY DEF AddJobs, store
<1>2. /\ Changes(n) = {} /\ ~Ending(n) /\ Pending(n) /\ jobs[n] = Nothing
      /\ greenlets[n] = Nothing /\ ~Spawns(n)
      /\ \A g \in DOMAIN live : g.job.name # n
      /\ \A o \in list : o.name = n => Wanted(o.id, n) /\ odb[o.id].ver = o.ver
      /\ \A i \in Ids : Wanted(i, n) => \E o \in list : o.name = n
  BY <1>1, NotUp DEF Up, NameInv, Starting, Pending, Early
<1>3. /\ DOMAIN obj' = DOMAIN obj \cup list
      /\ jobs'[n] = Nothing => ~\E o \in list : o.name = n
      /\ jobs'[n] # Nothing => jobs'[n] \in list /\ jobs'[n].name = n
  <2>1. Nothing \notin list
    BY SchedulerAssumption DEF Typed, Objects
  <2> QED
    BY <1>2, <2>1, AddJobsObj, AddJobsSet
<1>4. Changes(n)' = {} /\ ~Ending(n)' /\ ~Spawns(n)' /\ Pending(n)'
  BY <1>1, <1>2 DEF Changes, Ending, Spawns, Pending, Unlocked
<1>5. Named(n)'
  BY <1>1, <1>3 DEF NameInv, Named
<1>6. Waiting(n)'
  BY <1>4 DEF Waiting
<1>7. Ends(n)' /\ ByHand(n)'
  BY <1>1, <1>4 DEF NameInv, Ends, ByHand, Wanted, Deactivated, Ending, Unlocked
<1>8. Single(n)'
  BY <1>1, <1>2 DEF Single, Running
<1>9. Latest(n)'
  <2> SUFFICES ASSUME jobs'[n] # Nothing
               PROVE  /\ \A i \in Ids : odb[i].there /\ odb[i].name = n => jobs'[n].id = i
                      /\ odb[jobs'[n].id].there /\ odb[jobs'[n].id].name = n
                      /\ odb[jobs'[n].id].ver = jobs'[n].ver
                      /\ odb[jobs'[n].id].active
    BY <1>1 DEF Latest
  <2>1. Wanted(jobs'[n].id, n) /\ odb[jobs'[n].id].ver = jobs'[n].ver /\ jobs'[n].id \in Ids
    BY <1>2, <1>3 DEF Typed, Objects, Jobs
  <2> QED
    BY <2>1 DEF Wanted, Typed, Rows
<1>10. Starting(n)'
  BY <1>1, <1>2, <1>4 DEF Starting, Early
<1>11. Present(n)'
  BY <1>1, <1>2, <1>3, <1>4 DEF Present, Wanted
<1> QED
  BY <1>5, <1>6, <1>7, <1>8, <1>9, <1>10, <1>11 DEF NameInv


\* run spawns one job after the other.
LEMMA RunNextName ==
    ASSUME Typed, Typed', NEW n \in Names, NameInv(n), NEW k \in Names, RunNext(k)
    PROVE  NameInv(n)'
<1> DEFINE g == [job |-> jobs[k], by |-> "run"]
<1>1. /\ lock.by = "run" /\ lock.what = Nothing /\ k \in lock.todo /\ phase = "added"
      /\ jobs[k] # Nothing /\ jobs[k].name = k
      /\ UNCHANGED <<odb, msgs, phase, listening, list, jobs, obj, greenlets, calls>>
  BY DEF RunNext, store, Typed, Locks, LockTyped, Objects
<1>2. /\ lock'.by = "run" /\ lock'.todo = lock.todo \ {k}
      /\ \/ obj[jobs[k]].reached /\ lock'.what = Nothing /\ live' = live
         \/ ~obj[jobs[k]].reached /\ lock'.what = g /\ live' = Spawned(g)
  BY <1>1 DEF RunNext, Typed, Locks, LockTyped
<1>3. g # Nothing /\ g.job = jobs[k]
  <2>1. g \in Greenlets
    BY <1>1 DEF Typed, Objects, Greenlets
  <2> QED
    BY <2>1, SchedulerAssumption
<1> HIDE DEF g
<1>4. MessagesAlone(n)
  BY <1>1, MessagesTaken
<1>5. CASE n # k
  <2>1. LoopsAlone(n)
    BY <1>1, <1>2, <1>3, <1>5 DEF LoopsAlone, Spawned
  <2>2. LockAlone(n)
    BY <1>1, <1>2, <1>3, <1>5 DEF LockAlone, Greenlet, Spawns
  <2>3. PhaseAlone(n)
    BY <1>1, <1>2, <1>5 DEF PhaseAlone, Up, Early, Pending
  <2> QED
    BY <1>4, <2>1, <2>2, <2>3, UnconcernedInv DEF Unconcerned
<1>6. CASE n = k
  <2>1. /\ Changes(n) = {} /\ ~Ending(n) /\ Pending(n) /\ ~Pending(n)'
        /\ greenlets[n] = Nothing /\ ~Spawns(n)
        /\ \A x \in DOMAIN live : x.job.name # n
    BY <1>1, <1>2, <1>6, NotUp DEF Up, NameInv, Starting, Pending, Early
  <2>2. /\ DOMAIN live' \subseteq DOMAIN live \cup {g}
        /\ \A x \in DOMAIN live' : live'[x] = "loop" \/ (x \in DOMAIN live /\ live'[x] = live[x])
        /\ ~obj[jobs[k]].reached => /\ g \in DOMAIN live' /\ Spawns(n)' /\ Greenlet(n)' = g
    BY <1>1, <1>2, <1>3, <1>6 DEF Spawned, Spawns, Greenlet
  <2>3. Changes(n)' = {} /\ ~Ending(n)'
    BY <1>1, <2>1, <2>2 DEF Changes, Ending
  <2>4. Named(n)' /\ Waiting(n)' /\ Latest(n)'
    BY <1>1, <2>1, <2>3 DEF NameInv, Named, Waiting, Latest
  <2>5. Ends(n)'
    BY <1>1, <2>3 DEF NameInv, Ends, Ending, Wanted, Deactivated
  <2>6. ByHand(n)'
    BY <1>1, <1>2 DEF NameInv, ByHand
  <2>7. Single(n)'
    <3>1. \A x \in Running(n)' : x = g /\ ~obj[jobs[k]].reached
      BY <1>1, <1>2, <2>1, <2>2, <1>6 DEF Running
    <3> QED
      BY <1>1, <1>3, <1>6, <2>2, <3>1 DEF Single
  <2>8. Starting(n)'
    BY <1>1, <2>1 DEF NameInv, Starting, Early
  <2>9. Present(n)'
    <3>1. \A i \in Ids : Wanted(i, n)' => jobs'[n] # Nothing
      BY <1>1, <1>6
    <3>2. jobs'[n] # Nothing /\ obj'[jobs'[n]].keep => Greenlet(n)' \in DOMAIN live' /\ Greenlet(n)'.job = jobs'[n]
      BY <1>1, <1>3, <1>6, <2>2 DEF Typed, Objects
    <3> QED
      BY <3>1, <3>2 DEF Present
  <2> QED
    BY <2>4, <2>5, <2>6, <2>7, <2>8, <2>9 DEF NameInv
<1> QED
  BY <1>5, <1>6

\* The greenlet of a name is the one to be stored until it is.
LEMMA SpawnDoneName ==
    ASSUME Typed, Typed', NEW n \in Names, NameInv(n), SpawnDone
    PROVE  NameInv(n)'
<1>1. /\ lock.by \in {"create", "run"} /\ lock.what # Nothing /\ lock.what \in Greenlets
      /\ greenlets' = [greenlets EXCEPT ![lock.what.job.name] = lock.what]
      /\ UNCHANGED <<odb, msgs, phase, listening, list, jobs, obj, live, calls>>
  BY DEF SpawnDone, store, Typed, Locks, LockTyped
<1>2. \/ lock.by = "create" /\ lock' = Unlocked
      \/ lock.by = "run" /\ lock'.by = "run" /\ lock'.what = Nothing /\ lock'.todo = lock.todo
  BY DEF SpawnDone, Typed, Locks, LockTyped
<1>3. MessagesAlone(n) /\ LoopsAlone(n)
  BY <1>1, MessagesTaken, LoopsUnchanged
<1>4. LockAlone(n)
  <2>1. ~Spawns(n)' /\ lock'.by # "execute"
    BY <1>2 DEF Spawns, Unlocked
  <2>2. greenlets'[n] = IF Spawns(n) THEN lock.what ELSE greenlets[n]
    BY <1>1 DEF Spawns, Typed, Loops
  <2> QED
    BY <2>1, <2>2 DEF LockAlone, Greenlet
<1>5. PhaseAlone(n)
  BY <1>1, <1>2 DEF PhaseAlone, Up, Early, Pending, Unlocked
<1> QED
  BY <1>3, <1>4, <1>5, UnconcernedInv DEF Unconcerned

\* After a crash nothing is known of a name that no message is about.
LEMMA CrashName ==
    ASSUME NEW n \in Names \ disturbed', Crash
    PROVE  NameInv(n)'
<1>1. /\ phase' = "down" /\ ~listening' /\ list' = {} /\ calls' = {} /\ lock' = Unlocked
      /\ jobs'[n] = Nothing /\ greenlets'[n] = Nothing
      /\ DOMAIN obj' = {} /\ DOMAIN live' = {}
      /\ UNCHANGED <<odb, msgs>>
      /\ \A m \in msgs : m.name # n /\ odb[m.id].name # n
  BY DEF Crash, NoJobs, store, About
<1>2. /\ Running(n)' = {} /\ Changes(n)' = {} /\ ~Ending(n)' /\ ~Spawns(n)'
      /\ Early' /\ Pending(n)'
  BY <1>1 DEF Running, Changes, Ending, Spawns, Early, Pending, Unlocked
<1>3. Named(n)' /\ Waiting(n)' /\ Ends(n)'
  BY <1>1, <1>2 DEF Named, Waiting, Ends
<1>4. ByHand(n)' /\ Single(n)' /\ Latest(n)'
  BY <1>1, <1>2 DEF ByHand, Single, Latest, Unlocked
<1>5. Starting(n)' /\ Present(n)'
  BY <1>1, <1>2 DEF Starting, Present
<1> QED
  BY <1>3, <1>4, <1>5 DEF NameInv

-----------------------------------------------------------------------------
(* Executions by hand, messages that are lost, greenlets that end.         *)

LEMMA LoseName ==
    ASSUME Typed, Typed', NEW n \in Names, NameInv(n), NEW m \in msgs, Lose(m)
    PROVE  NameInv(n)'
<1>1. /\ ~listening /\ m.type # "deactivate" /\ msgs' = msgs \ {m}
      /\ UNCHANGED <<odb, phase, listening, list, jobs, obj, live, greenlets, calls, lock>>
  BY DEF Lose, store, process
<1>2. Changes(n) = {}
  BY <1>1, NotUp DEF Up
<1>3. m.name = n => m.type = "execute"
  BY <1>1, <1>2 DEF Changes, Typed, Messages, Msgs, Deactivation
<1>4. Unconcerned(n)
  BY <1>1, <1>3, MessagesTaken, LoopsUnchanged, LockUnchanged, PhaseUnchanged DEF Unconcerned
<1> QED
  BY <1>4, UnconcernedInv

LEMMA HandleExecuteName ==
    ASSUME Typed, Typed', NEW n \in Names, NameInv(n), NEW m \in msgs, HandleExecute(m)
    PROVE  NameInv(n)'
<1>1. /\ m.type = "execute" /\ lock = Unlocked /\ msgs' = msgs \ {m} /\ m.name \in Names /\ m.id \in Ids
      /\ \/ lock' = Unlocked
         \/ /\ jobs[m.name] # Nothing
            /\ lock' = [by |-> "execute", what |-> jobs[m.name], todo |-> {}]
      /\ UNCHANGED <<odb, phase, listening, list, jobs, obj, live, greenlets, calls>>
  BY DEF HandleExecute, Handled, store, Typed, Messages, Msgs, Deactivation
<1>2. MessagesAlone(n) /\ LoopsAlone(n)
  BY <1>1, MessagesTaken, LoopsUnchanged
<1>3. PhaseAlone(n)
  BY <1>1 DEF PhaseAlone, Up, Early, Pending, Unlocked
<1>4. LockAlone(n)
  <2>1. ASSUME lock'.by = "execute", lock'.what.name = n
        PROVE  lock'.what.id \notin OneTime
    <3>1. lock'.what = jobs[m.name] /\ jobs[m.name] # Nothing /\ m.name = n
      BY <1>1, <2>1 DEF Unlocked, Typed, Objects
    <3>2. odb[m.id].there /\ odb[m.id].name = n /\ m.id \notin OneTime
      BY <1>1, <3>1 DEF NameInv, ByHand
    <3>3. jobs[n].id = m.id
      BY <1>1, <3>1, <3>2 DEF NameInv, Latest
    <3> QED
      BY <3>1, <3>2, <3>3
  <2>2. ~Spawns(n) /\ ~Spawns(n)'
    BY <1>1 DEF Spawns, Unlocked
  <2> QED
    BY <1>1, <2>1, <2>2 DEF LockAlone, Greenlet
<1> QED
  BY <1>2, <1>3, <1>4, UnconcernedInv DEF Unconcerned

\* A greenlet's end is of one that does not go on.
LEMMA LeaveName ==
    ASSUME Typed, Typed', NEW n \in Names, NameInv(n), NEW g \in DOMAIN live, Leave(g)
    PROVE  NameInv(n)'
<1>1. /\ ~obj[g.job].keep \/ ~obj[g.job].start
      /\ live' = Without(g)
      /\ UNCHANGED <<odb, msgs, phase, listening, list, jobs, obj, greenlets, calls, lock>>
  BY DEF Leave, store
<1>2. LoopsAlone(n)
  BY <1>1 DEF LoopsAlone, Without
<1> QED
  BY <1>1, <1>2, MessagesTaken, LockUnchanged, PhaseUnchanged, UnconcernedInv DEF Unconcerned


\* What is sent about a job that is not a one-time job of this name.
LEMMA SentAlone ==
    ASSUME Typed, NEW n \in Names, NameInv(n), NEW o \in DOMAIN obj, Sent(o),
           o.name # n \/ o.id \notin OneTime, UNCHANGED <<odb, obj, list>>
    PROVE  MessagesAlone(n)
<1>1. o.id \in Ids /\ o.name \in Names
  BY DEF Typed, Objects, Jobs
<1>2. /\ msgs \subseteq msgs'
      /\ \A m \in msgs' : m \in msgs \/ (m.id = o.id /\ m.name = o.name /\ o.id \in OneTime)
  BY <1>1, SentMessages
<1>3. Named(n)'
  BY <1>2 DEF NameInv, Named
<1> QED
  BY <1>2, <1>3 DEF MessagesAlone

LEMMA ExecuteDoneName ==
    ASSUME Typed, Typed', NEW n \in Names, NameInv(n), ExecuteDone \/ ExecuteFailed
    PROVE  NameInv(n)'
<1>1. /\ lock.by = "execute" /\ lock' = Unlocked
      /\ UNCHANGED <<odb, phase, listening, list, jobs, obj, live, greenlets, calls>>
      /\ Sent(lock.what) \/ msgs' = msgs
  BY DEF ExecuteDone, ExecuteFailed, store
<1>2. MessagesAlone(n)
  <2>1. lock.what \in DOMAIN obj /\ (lock.what.name = n => lock.what.id \notin OneTime)
    BY <1>1 DEF NameInv, ByHand, Typed, Locks, LockTyped
  <2> QED
    BY <1>1, <2>1, SentAlone, MessagesTaken
<1>3. LoopsAlone(n)
  BY <1>1, LoopsUnchanged
<1>4. LockAlone(n)
  <2>1. ~Spawns(n) /\ ~Spawns(n)' /\ lock'.by # "execute"
    BY <1>1 DEF Spawns, Unlocked
  <2> QED
    BY <1>1, <2>1 DEF LockAlone, Greenlet
<1>5. PhaseAlone(n)
  BY <1>1 DEF PhaseAlone, Up, Early, Pending, Unlocked
<1> QED
  BY <1>2, <1>3, <1>4, <1>5, UnconcernedInv DEF Unconcerned

\* A callback tells ODB that a one-time job is over before it is unscheduled.
LEMMA SendName ==
    ASSUME Typed, Typed', NEW n \in Names, NameInv(n), NEW c \in calls, Send(c) \/ SendFailed(c)
    PROVE  NameInv(n)'
<1>1. /\ c.job \in DOMAIN obj /\ c.job.id \in Ids /\ c.job.name \in Names
      /\ UNCHANGED <<odb, phase, listening, list, jobs, obj, live, greenlets, lock>>
  BY DEF Send, SendFailed, store, Typed, Loops, Objects, Jobs
<1>2. LockAlone(n) /\ PhaseAlone(n)
  BY <1>1, LockUnchanged, PhaseUnchanged
<1>3. \A d \in calls' : \/ d \in calls
                        \/ Send(c) /\ d.job = c.job /\ d.at = "unschedule" /\ c.job.id \in OneTime
  BY DEF Send, SendFailed
<1>4. CASE SendFailed(c) \/ c.job.name # n \/ c.job.id \notin OneTime
  <2>1. MessagesAlone(n)
    BY <1>1, <1>4, SentAlone, MessagesTaken DEF Send, SendFailed
  <2>2. LoopsAlone(n)
    BY <1>1, <1>3, <1>4 DEF LoopsAlone, Send, SendFailed
  <2> QED
    BY <1>2, <2>1, <2>2, UnconcernedInv DEF Unconcerned
<1>5. CASE Send(c) /\ c.job.name = n /\ c.job.id \in OneTime
  <2>1. Ending(n) /\ jobs[n] \in {c.job, Nothing}
    BY <1>5 DEF Ending, NameInv, Ends
  <2>2. Up /\ Changes(n) = {} /\ ~Spawns(n) /\ (jobs[n] # Nothing => ~obj[jobs[n]].keep)
    BY <2>1 DEF NameInv, Ends
  <2>3. /\ msgs \subseteq msgs'
        /\ \A m \in msgs' : \/ m \in msgs
                            \/ m.type = "deactivate" /\ m.id = c.job.id /\ m.name = n
        /\ \E m \in msgs' : m.type = "deactivate" /\ m.id = c.job.id /\ m.name = n
    BY <1>1, <1>5, SentMessages DEF Send
  <2>4. Changes(n)' = {}
    BY <2>2, <2>3 DEF Changes
  <2>5. \A i \in Ids : Deactivated(i, n) => Deactivated(i, n)'
    BY <2>3 DEF Deactivated
  <2>6. \A i \in Ids : Wanted(i, n) => Deactivated(i, n)'
    <3> TAKE i \in Ids
    <3>1. CASE jobs[n] = Nothing
      BY <2>2, <2>5, <3>1 DEF NameInv, Present, Up
    <3>2. CASE jobs[n] # Nothing /\ Wanted(i, n)
      <4>1. c.job.id = i
        BY <2>1, <3>2 DEF NameInv, Latest, Wanted
      <4> QED
        BY <2>3, <4>1 DEF Deactivated
    <3> QED
      BY <3>1, <3>2
  <2>7. Named(n)'
    BY <1>1, <2>3 DEF NameInv, Named
  <2>8. Waiting(n)'
    BY <2>4 DEF Waiting
  <2>9. Ends(n)'
    <3>1. Up' /\ ~Spawns(n)' /\ (jobs'[n] # Nothing => ~obj'[jobs'[n]].keep)
      BY <1>1, <2>2 DEF Up, Spawns
    <3>2. \A d \in calls' : d.job.name = n /\ d.job.id \in OneTime => jobs'[n] \in {d.job, Nothing}
      BY <1>1, <1>3, <2>1 DEF NameInv, Ends
    <3>3. \A i \in Ids : Wanted(i, n)' => Deactivated(i, n)'
      BY <1>1, <2>6 DEF Wanted
    <3> QED
      BY <1>1, <2>4, <3>1, <3>2, <3>3 DEF NameInv, Ends
  <2>10. ByHand(n)'
    BY <1>1, <2>3 DEF NameInv, ByHand
  <2>11. Single(n)'
    BY <1>1 DEF NameInv, Single, Running, Greenlet, Spawns
  <2>12. Latest(n)'
    BY <1>1, <2>2 DEF NameInv, Latest
  <2>13. Starting(n)'
    BY <1>1, <2>2 DEF Starting, Early, Pending, Up
  <2>14. Present(n)'
    BY <1>1, <2>2, <2>6 DEF Present, Wanted
  <2> QED
    BY <2>7, <2>8, <2>9, <2>10, <2>11, <2>12, <2>13, <2>14 DEF NameInv
<1> QED
  BY <1>4, <1>5

-----------------------------------------------------------------------------
(* Jobs that are made and unscheduled.                                     *)

\* Jobs of other names, and their greenlets.
LEMMA UnscheduleOther ==
    ASSUME Typed, NEW n \in Names, NEW k \in Names \ {n}, Unschedule(k), calls' \subseteq calls
    PROVE  /\ LoopsAlone(n)
           /\ greenlets'[n] = greenlets[n]
<1>1. CASE jobs[k] = Nothing
  BY <1>1 DEF Unschedule, LoopsAlone
<1>2. CASE jobs[k] # Nothing
  <2>1. /\ DOMAIN obj' = DOMAIN obj /\ jobs[k].name = k
        /\ \A o \in DOMAIN obj \ {jobs[k]} : obj'[o] = obj[o]
        /\ jobs'[n] = jobs[n] /\ greenlets'[n] = greenlets[n]
        /\ live' \in Kill(greenlets[k])
    BY <1>2, UnscheduleDoes DEF Typed, Objects
  <2>2. /\ DOMAIN live' \subseteq DOMAIN live
        /\ DOMAIN live \ {greenlets[k]} \subseteq DOMAIN live'
        /\ \A x \in DOMAIN live' : live'[x] = live[x]
    BY <2>1, KillLeaves
  <2>3. \A g \in DOMAIN live : g = greenlets[k] => g.job.name = k
    BY SchedulerAssumption DEF Typed, Loops
  <2> QED
    BY <2>1, <2>2, <2>3 DEF LoopsAlone
<1> QED
  BY <1>1, <1>2

\* A job of this name, after which nothing runs.
LEMMA UnscheduleName ==
    ASSUME Typed, Typed', NEW n \in Names, NameInv(n), Unschedule(n),
           Up, msgs' \subseteq msgs, calls' \subseteq calls, ~Spawns(n),
           \A m \in msgs : m \in msgs' \/ (m.type # "deactivate" /\ m.name = n),
           UNCHANGED <<odb, phase, listening, list, lock>>,
           Changes(n)' = {},
           \A i \in Ids : Wanted(i, n) => Deactivated(i, n)
    PROVE  NameInv(n)'
<1>1. /\ DOMAIN obj' = DOMAIN obj /\ jobs'[n] = Nothing
      /\ DOMAIN live' \subseteq DOMAIN live
      /\ \A x \in DOMAIN live' : live'[x] = live[x]
      /\ \A g \in DOMAIN live : g.job.name = n /\ obj'[g.job].keep /\ obj'[g.job].start =>
            g \in Running(n) /\ g.job # jobs[n]
  <2>1. CASE jobs[n] = Nothing
    <3>1. UNCHANGED <<obj, jobs, live>>
      BY <2>1 DEF Unschedule
    <3>2. \A g \in DOMAIN live : g.job.name = n /\ obj[g.job].keep /\ obj[g.job].start =>
            g \in Running(n) /\ g.job # jobs[n]
      BY <2>1, SchedulerAssumption DEF Running, NameInv, Single
    <3> QED
      BY <2>1, <3>1, <3>2
  <2>2. CASE jobs[n] # Nothing
    <3>1. /\ DOMAIN obj' = DOMAIN obj
          /\ \A o \in DOMAIN obj \ {jobs[n]} : obj'[o] = obj[o]
          /\ ~obj'[jobs[n]].keep /\ jobs'[n] = Nothing
          /\ live' \in Kill(greenlets[n])
      BY <2>2, UnscheduleDoes
    <3>2. /\ DOMAIN live' \subseteq DOMAIN live
          /\ \A x \in DOMAIN live' : live'[x] = live[x]
      BY <3>1, KillLeaves
    <3>3. \A g \in DOMAIN live : g.job \in DOMAIN obj
      BY DEF Typed, Loops
    <3> QED
      BY <3>1, <3>2, <3>3 DEF Running
  <2> QED
    BY <2>1, <2>2
<1>2. Running(n)' = {}
  BY <1>1 DEF Running, NameInv, Single
<1>3. \A i \in Ids : Deactivated(i, n) => Deactivated(i, n)'
  BY DEF Deactivated
<1>4. Named(n)' /\ Waiting(n)' /\ Latest(n)'
  BY <1>1 DEF NameInv, Named, Waiting, Latest
<1>5. Ends(n)'
  <2>1. Up' /\ ~Spawns(n)'
    BY DEF Up, Spawns
  <2> QED
    BY <1>1, <1>3, <2>1 DEF NameInv, Ends, Wanted
<1>6. ByHand(n)' /\ Single(n)'
  BY <1>2 DEF NameInv, ByHand, Single
<1>7. Starting(n)'
  BY DEF Starting, Early, Pending, Up
<1>8. Present(n)'
  BY <1>1, <1>3 DEF Present, Wanted
<1> QED
  BY <1>4, <1>5, <1>6, <1>7, <1>8 DEF NameInv


LEMMA UnscheduleOneTimeName ==
    ASSUME Typed, Typed', NEW n \in Names, NameInv(n), NEW c \in calls, UnscheduleOneTime(c)
    PROVE  NameInv(n)'
<1>1. /\ c.at = "unschedule" /\ lock = Unlocked /\ c.job.name \in Names /\ c.job.id \in OneTime
      /\ Unschedule(c.job.name)
      /\ calls' \subseteq calls
      /\ UNCHANGED <<odb, msgs, phase, listening, list, lock>>
  BY DEF UnscheduleOneTime, store, Typed, Loops, Objects, Jobs
<1>2. CASE c.job.name = n
  <2>1. Ending(n)
    BY <1>1, <1>2 DEF Ending
  <2>2. Up /\ Changes(n) = {} /\ ~Spawns(n)
    BY <2>1 DEF NameInv, Ends
  <2>3. Changes(n)' = {}
    BY <1>1, <2>2 DEF Changes
  <2>4. \A i \in Ids : Wanted(i, n) => Deactivated(i, n)
    BY <1>1, <1>2 DEF NameInv, Ends
  <2> QED
    BY <1>1, <1>2, <2>2, <2>3, <2>4, UnscheduleName
<1>3. CASE c.job.name # n
  <2>1. LoopsAlone(n) /\ greenlets'[n] = greenlets[n]
    BY <1>1, <1>3, UnscheduleOther
  <2>2. UNCHANGED obj \/ \A o \in DOMAIN obj' : o \in DOMAIN obj
    BY <1>1, UnscheduleDoes DEF Unschedule
  <2>3. MessagesAlone(n)
    BY <1>1, <2>2 DEF NameInv, Named, MessagesAlone
  <2>4. LockAlone(n)
    BY <1>1, <2>1 DEF LockAlone, Greenlet, Spawns, Unlocked
  <2> QED
    BY <1>1, <2>1, <2>3, <2>4, PhaseUnchanged, UnconcernedInv DEF Unconcerned
<1> QED
  BY <1>2, <1>3

LEMMA HandleDeleteName ==
    ASSUME Typed, Typed', NEW n \in Names, NameInv(n), NEW m \in msgs, HandleDelete(m)
    PROVE  NameInv(n)'
<1>1. /\ m.type = "delete" /\ lock = Unlocked /\ m.name \in Names
      /\ Unschedule(m.name) /\ msgs' = msgs \ {m}
      /\ UNCHANGED <<odb, phase, listening, list, calls, lock>>
  BY DEF HandleDelete, Handled, store, Typed, Messages, Msgs, Deactivation
<1>2. CASE m.name = n
  <2>1. m \in Changes(n)
    BY <1>1, <1>2 DEF Changes
  <2>2. Changes(n) = {m} /\ Up /\ \A i \in Ids : ~Wanted(i, n)
    BY <1>1, <2>1 DEF NameInv, Waiting
  <2>3. Changes(n)' = {}
    BY <1>1, <2>2 DEF Changes
  <2>4. ~Spawns(n)
    BY <1>1 DEF Spawns, Unlocked
  <2> QED
    BY <1>1, <1>2, <2>2, <2>3, <2>4, UnscheduleName
<1>3. CASE m.name # n
  <2>1. LoopsAlone(n) /\ greenlets'[n] = greenlets[n]
    BY <1>1, <1>3, UnscheduleOther
  <2>2. UNCHANGED obj \/ \A o \in DOMAIN obj' : o \in DOMAIN obj
    BY <1>1, UnscheduleDoes DEF Unschedule
  <2>3. MessagesAlone(n)
    BY <1>1, <1>3, <2>2 DEF NameInv, Named, MessagesAlone
  <2>4. LockAlone(n)
    BY <1>1, <2>1 DEF LockAlone, Greenlet, Spawns, Unlocked
  <2> QED
    BY <1>1, <2>1, <2>3, <2>4, PhaseUnchanged, UnconcernedInv DEF Unconcerned
<1> QED
  BY <1>2, <1>3

\* Handlers of messages that define jobs: another name,
LEMMA DefineOther ==
    ASSUME Typed, Typed', NEW n \in Names, NameInv(n), NEW m \in msgs, m.name # n,
           HandleCreate(m) \/ HandleEdit(m)
    PROVE  NameInv(n)'
<1> DEFINE o == JobOf(m)
           g == [job |-> o, by |-> "create"]
<1>1. /\ m \in Definitions /\ m.name \in Names /\ lock = Unlocked /\ msgs' = msgs \ {m}
      /\ UNCHANGED <<odb, phase, listening, list, calls>>
      /\ lock' = [by |-> "create", what |-> g, todo |-> {}]
  BY DEF HandleCreate, HandleEdit, Handled, store, Typed, Messages, Msgs, Deactivation, Definitions,
         Spawning
<1>2. o \notin DOMAIN obj /\ o.id = m.id /\ o.name = m.name /\ jobs'[n] = jobs[n]
  BY <1>1, NewJob, HandleAdds
<1>3. DOMAIN obj' = DOMAIN obj \cup {o} /\ \A x \in DOMAIN obj : obj'[x] = obj[x]
  <2>1. PICK f \in Flags : obj' = Added(o, f)
    BY HandleAdds
  <2> QED
    BY <1>2, <2>1 DEF Added
<1>4. g.job = o
  OBVIOUS
<1> HIDE DEF o, g
<1>5. /\ greenlets'[n] = greenlets[n]
      /\ \E h : /\ h = Nothing \/ h = greenlets[m.name]
                /\ \E L : /\ L = live \/ L \in Kill(h)
                          /\ live' = [x \in DOMAIN L \cup {g} |-> IF x = g THEN "loop" ELSE L[x]]
  <2>1. CASE HandleCreate(m)
    <3>1. greenlets' = greenlets /\ live' = Spawned(g)
      BY <2>1 DEF HandleCreate, g, o
    <3> QED
      BY <3>1 DEF Spawned
  <2>2. CASE HandleEdit(m)
    <3>1. greenlets' = [greenlets EXCEPT ![m.name] = Nothing]
      BY <2>2 DEF HandleEdit
    <3>2. \E L \in Kill(greenlets[m.name]) :
             live' = [x \in DOMAIN L \cup {g} |-> IF x = g THEN "loop" ELSE L[x]]
      BY <2>2 DEF HandleEdit, g, o
    <3>3. greenlets'[n] = greenlets[n]
      BY <3>1 DEF Typed, Loops
    <3> QED
      BY <3>2, <3>3
  <2> QED
    BY <2>1, <2>2
<1>6. PICK h, L : /\ h = Nothing \/ h = greenlets[m.name]
                  /\ L = live \/ L \in Kill(h)
                  /\ live' = [x \in DOMAIN L \cup {g} |-> IF x = g THEN "loop" ELSE L[x]]
  BY <1>5
<1>7. /\ DOMAIN L \subseteq DOMAIN live
      /\ DOMAIN live \ {h} \subseteq DOMAIN L
      /\ \A x \in DOMAIN L : L[x] = live[x]
  BY <1>6, KillLeaves
<1>8. \A x \in DOMAIN live : x = h => x.job.name # n
  BY <1>1, <1>6, SchedulerAssumption DEF Typed, Loops
<1>9. LoopsAlone(n)
  BY <1>1, <1>2, <1>3, <1>4, <1>6, <1>7, <1>8 DEF LoopsAlone
<1>10. MessagesAlone(n)
  BY <1>1, <1>2, <1>3 DEF NameInv, Named, MessagesAlone
<1>11. LockAlone(n)
  BY <1>1, <1>2, <1>4, <1>5 DEF LockAlone, Greenlet, Spawns, Unlocked
<1>12. PhaseAlone(n)
  BY <1>1 DEF PhaseAlone, Up, Early, Pending, Unlocked
<1> QED
  BY <1>9, <1>10, <1>11, <1>12, UnconcernedInv DEF Unconcerned


\* or this one, which leaves nothing but the new job running: create found none,
\* and edit has killed the greenlet that the other one had.
LEMMA DefineName ==
    ASSUME Typed, Typed', NEW n \in Names, NameInv(n), NEW m \in msgs, m.name = n,
           HandleCreate(m) \/ HandleEdit(m)
    PROVE  NameInv(n)'
<1> DEFINE o == JobOf(m)
           g == [job |-> o, by |-> "create"]
<1>1. /\ m \in Definitions /\ lock = Unlocked /\ msgs' = msgs \ {m} /\ m.id \in Ids
      /\ UNCHANGED <<odb, phase, listening, list, calls>>
      /\ lock' = [by |-> "create", what |-> g, todo |-> {}]
  BY DEF HandleCreate, HandleEdit, Handled, store, Typed, Messages, Msgs, Deactivation, Definitions,
         Spawning
<1>2. o \notin DOMAIN obj /\ o \in Jobs /\ o.id = m.id /\ o.name = n /\ o.ver = m.ver
  BY <1>1, NewJob
<1>3. DOMAIN obj' = DOMAIN obj \cup {o} /\ \A x \in DOMAIN obj : obj'[x] = obj[x]
  <2>1. PICK f \in Flags : obj' = Added(o, f)
    BY HandleAdds
  <2> QED
    BY <1>2, <2>1 DEF Added
<1>4. g.job = o /\ g \in Greenlets /\ g # Nothing /\ o # Nothing
  <2>1. g \in Greenlets
    BY <1>2 DEF Greenlets
  <2> QED
    BY <1>2, <2>1, SchedulerAssumption
<1>5. m \in Changes(n)
  BY <1>1 DEF Changes, Definitions
<1>6. /\ Changes(n) = {m} /\ Up /\ Wanted(m.id, n) /\ odb[m.id].ver = m.ver
      /\ m.type = "create" => jobs[n] = Nothing
  BY <1>1, <1>5 DEF NameInv, Waiting, Definitions
<1>7. ~Ending(n) /\ Changes(n)' = {}
  BY <1>1, <1>6 DEF NameInv, Ends, Changes
<1>8. jobs'[n] = o
  BY <1>6, HandleAdds DEF HandleCreate, HandleEdit
<1>9. \A x \in Running(n) : m.type = "edit" /\ x = greenlets[n]
  BY <1>1, <1>6 DEF HandleCreate, HandleEdit, NameInv, Single, Greenlet, Spawns, Unlocked
<1>10. PICK L : /\ \/ HandleCreate(m) /\ L = live
                   \/ HandleEdit(m) /\ L \in Kill(greenlets[n])
                /\ live' = [x \in DOMAIN L \cup {g} |-> IF x = g THEN "loop" ELSE L[x]]
  <2>1. CASE HandleCreate(m)
    <3>1. live' = Spawned(g)
      BY <2>1 DEF HandleCreate
    <3> QED
      BY <2>1, <3>1 DEF Spawned
  <2>2. CASE HandleEdit(m)
    BY <2>2 DEF HandleEdit
  <2> QED
    BY <2>1, <2>2
<1> HIDE DEF g, o
<1>11. /\ DOMAIN L \subseteq DOMAIN live
       /\ \A x \in DOMAIN L : L[x] = live[x]
       /\ m.type = "edit" /\ greenlets[n] \in DOMAIN L => live[greenlets[n]] = "max"
  BY <1>10, KillLeaves DEF HandleCreate
<1>12. /\ DOMAIN live' = DOMAIN L \cup {g} /\ live'[g] = "loop"
       /\ \A x \in DOMAIN live' : x # g => x \in DOMAIN live /\ live'[x] = live[x]
  BY <1>10, <1>11
<1>13. \A x \in DOMAIN live : x.job \in DOMAIN obj /\ (live[x] = "max" => ~obj[x.job].keep)
  BY DEF Typed, Loops
<1>14. Running(n)' \subseteq {g}
  <2> SUFFICES ASSUME NEW x \in Running(n)', x # g PROVE FALSE
    OBVIOUS
  <2>1. x \in DOMAIN L /\ x \in DOMAIN live
    BY <1>11, <1>12 DEF Running
  <2>2. x \in Running(n) /\ obj[x.job].keep
    BY <2>1, <1>3, <1>13 DEF Running
  <2> QED
    BY <2>1, <2>2, <1>9, <1>11, <1>13
<1>15. Spawns(n)' /\ Greenlet(n)' = g /\ g \in DOMAIN live'
  BY <1>1, <1>2, <1>4, <1>12 DEF Spawns, Greenlet
<1>16. Named(n)'
  BY <1>1, <1>2, <1>3 DEF NameInv, Named
<1>17. Waiting(n)'
  BY <1>7 DEF Waiting
<1>18. Ends(n)'
  <2>1. ~Ending(n)'
    BY <1>1, <1>7, <1>12 DEF Ending
  <2>2. \A c \in calls : c.at = "unschedule" => c.job.id \in OneTime
    BY DEF Typed, Loops
  <2> QED
    BY <1>1, <2>1, <2>2 DEF Ends, Ending
<1>19. ByHand(n)'
  BY <1>1 DEF NameInv, ByHand
<1>20. Single(n)'
  BY <1>4, <1>8, <1>14, <1>15 DEF Single
<1>21. Latest(n)'
  BY <1>1, <1>2, <1>6, <1>8 DEF Latest, Wanted, Typed, Rows
<1>22. Starting(n)'
  BY <1>1, <1>6 DEF Starting, Early, Pending, Up
<1>23. Present(n)'
  BY <1>4, <1>8, <1>15 DEF Present
<1> QED
  BY <1>16, <1>17, <1>18, <1>19, <1>20, <1>21, <1>22, <1>23 DEF NameInv

-----------------------------------------------------------------------------
(* Passes of the loop.                                                     *)

\* What a greenlet of another name does, or one that runs an interval job.
LEMMA LoopAlone ==
    ASSUME Typed, NEW n \in Names, NameInv(n), NEW g \in DOMAIN live,
           Iterate(g) \/ MaxReached(g),
           g.job.name # n \/ g.job.id \notin OneTime
    PROVE  Unconcerned(n)
<1>1. /\ g.job \in DOMAIN obj /\ g.job.id \in Ids /\ obj[g.job] \in Flags
  BY DEF Typed, Loops, Objects, Jobs
<1>2. UNCHANGED <<odb, msgs, phase, listening, list, jobs, greenlets, lock>>
  BY DEF Iterate, MaxReached, store
<1>3. /\ DOMAIN obj' = DOMAIN obj
      /\ \A o \in DOMAIN obj : /\ obj'[o].keep => obj[o].keep
                               /\ obj'[o].start = obj[o].start
  <2>1. CASE MaxReached(g)
    BY <2>1 DEF MaxReached
  <2>2. CASE Iterate(g)
    <3>1. obj[g.job].keep
      BY <2>2 DEF Iterate
    <3> QED
      BY <1>1, <2>2, <3>1, IterateFlags
  <2> QED
    BY <2>1, <2>2
<1>4. LoopsAlone(n)
  <2>1. \A c \in calls' : c \in calls \/ (c.job = g.job /\ c.at = "send")
    BY DEF Iterate, MaxReached, Callback
  <2>2. \/ live' = Without(g) /\ g.job.id \in OneTime
        \/ live' = [live EXCEPT ![g] = "loop"]
        \/ live' = [live EXCEPT ![g] = "max"]
    BY DEF Iterate, MaxReached, Callback
  <2>3. \A x \in DOMAIN live' : x.job.name = n =>
           x \in DOMAIN live /\ (live'[x] = "max" => live[x] = "max" \/ x.job.id \notin OneTime)
    BY <2>2 DEF Without
  <2>4. \A x \in DOMAIN live : x.job.name = n => x \in DOMAIN live'
    BY <2>2 DEF Without
  <2> QED
    BY <1>2, <1>3, <2>1, <2>3, <2>4 DEF LoopsAlone
<1>5. MessagesAlone(n)
  BY <1>2, <1>3 DEF NameInv, Named, MessagesAlone
<1> QED
  BY <1>2, <1>4, <1>5, LockUnchanged, PhaseUnchanged DEF Unconcerned


\* A one-time job runs for the last time, and goes on to end.
LEMMA OnceName ==
    ASSUME Typed, Typed', Counted, NEW n \in Names \ disturbed', NameInv(n), NEW g \in DOMAIN live,
           Iterate(g) \/ MaxReached(g),
           g.job.name = n, g.job.id \in OneTime
    PROVE  NameInv(n)'
<1>1. /\ g.job \in DOMAIN obj /\ g.job.id \in Ids /\ obj[g.job] \in Flags
      /\ \A x \in DOMAIN live : x.job \in DOMAIN obj
  BY DEF Typed, Loops, Objects, Jobs
<1>2. /\ UNCHANGED <<odb, msgs, phase, listening, list, jobs, greenlets, lock>>
      /\ \A c \in calls' : c \in calls \/ (c.job = g.job /\ c.at = "send")
      /\ DOMAIN live' \subseteq DOMAIN live
      /\ \A x \in DOMAIN live' : live'[x] = live[x] \/ x = g
  BY DEF Iterate, MaxReached, Callback, Without, store
<1>3. /\ DOMAIN obj' = DOMAIN obj
      /\ \A o \in DOMAIN obj : /\ obj'[o].keep => obj[o].keep
                               /\ obj'[o].start = obj[o].start
      /\ ~obj'[g.job].keep
  <2>1. CASE MaxReached(g)
    BY <2>1 DEF MaxReached, Typed, Loops
  <2>2. CASE Iterate(g)
    <3>1. obj[g.job].keep /\ MaxRepeats[g.job.id] = 1
      BY <2>2, SchedulerAssumption DEF Iterate
    <3>2. obj[g.job].run \in Nat /\ obj[g.job].run < 1
      BY <1>1, <3>1 DEF Counted, Flags
    <3>3. Last(g.job)
      BY <3>1, <3>2 DEF Last
    <3> QED
      BY <1>1, <2>2, <3>1, <3>3, IterateFlags
  <2> QED
    BY <2>1, <2>2
<1>4. /\ Up /\ Changes(n) = {} /\ ~Spawns(n)
      /\ jobs[n] \in {g.job, Nothing}
      /\ \A i \in Ids, c \in calls : c.at = "unschedule" /\ c.job.name = n /\ Wanted(i, n) => Deactivated(i, n)
  <2>1. CASE MaxReached(g)
    <3>1. Ending(n) /\ live[g] = "max"
      BY <2>1 DEF MaxReached, Ending
    <3> QED
      BY <3>1 DEF NameInv, Ends
  <2>2. CASE Iterate(g)
    <3>1. ~UnderWay(n)
      BY <2>2 DEF Iterate, Disturb
    <3>2. lock.by # "run"
      BY <3>1 DEF UnderWay, Typed, Locks, LockTyped
    <3>3. g \in Running(n)
      BY <2>2 DEF Iterate, Running
    <3> QED
      BY <3>1, <3>2, <3>3 DEF UnderWay, About, Up, Changes, Spawns, NameInv, Single, Ends
  <2> QED
    BY <2>1, <2>2
<1>5. jobs[n] # Nothing => jobs[n] \in DOMAIN obj /\ ~obj'[jobs[n]].keep
  BY <1>1, <1>3, <1>4
<1>6. Changes(n)' = {} /\ ~Spawns(n)' /\ Up'
  BY <1>2, <1>4 DEF Changes, Spawns, Up
<1>7. Running(n)' = {}
  <2> SUFFICES ASSUME NEW x \in Running(n)' PROVE FALSE
    OBVIOUS
  <2>1. x \in Running(n) /\ obj'[x.job].keep
    BY <1>1, <1>2, <1>3 DEF Running
  <2> QED
    BY <2>1, <1>5 DEF NameInv, Single
<1>8. Named(n)' /\ Waiting(n)'
  BY <1>2, <1>3, <1>6 DEF NameInv, Named, Waiting
<1>9. Ends(n)'
  <2>1. \A c \in calls' : c.job.name = n /\ c.job.id \in OneTime => jobs'[n] \in {c.job, Nothing}
    BY <1>2, <1>4 DEF NameInv, Ends
  <2>2. \A x \in DOMAIN live' :
           x.job.name = n /\ x.job.id \in OneTime /\ live'[x] = "max" => jobs'[n] \in {x.job, Nothing}
    BY <1>2, <1>4 DEF NameInv, Ends
  <2>3. \A c \in calls' : c.at = "unschedule" /\ c.job.name = n =>
           \A i \in Ids : Wanted(i, n)' => Deactivated(i, n)'
    BY <1>2, <1>4 DEF Wanted, Deactivated
  <2> QED
    BY <1>2, <1>5, <1>6, <2>1, <2>2, <2>3 DEF Ends
<1>10. ByHand(n)' /\ Single(n)'
  BY <1>2, <1>7 DEF NameInv, ByHand, Single
<1>11. Latest(n)'
  BY <1>2, <1>5 DEF NameInv, Latest, Changes
<1>12. Starting(n)'
  BY <1>2, <1>4 DEF Starting, Early, Pending, Up
<1>13. Present(n)'
  BY <1>2, <1>4, <1>5 DEF NameInv, Present, Wanted, Deactivated, Up
<1> QED
  BY <1>8, <1>9, <1>10, <1>11, <1>12, <1>13 DEF NameInv

-----------------------------------------------------------------------------
NamesInv == \A n \in Names \ disturbed : NameInv(n)

\* Only a crash makes the history forget.
LEMMA DisturbedGrows ==
    ASSUME [Next]_vars
    PROVE  disturbed \subseteq disturbed' \/ Crash
<1>1. CASE UNCHANGED vars
  BY <1>1 DEF vars, history
<1>2. CASE \E i \in Ids, n \in Names, active \in BOOLEAN :
             Create(i, n, active) \/ Edit(i, n, active)
  BY <1>2 DEF Create, Edit, Disturb
<1>3. CASE \E i \in Ids : Delete(i) \/ Execute(i)
  BY <1>3 DEF Delete, Execute, Disturb
<1>4. CASE \E m \in msgs : SetActiveStatus(m) \/ Lose(m) \/ Handle(m)
  BY <1>4 DEF SetActiveStatus, Lose, Handle, HandleExecute, HandleCreate, HandleEdit,
              HandleDelete, history
<1>5. CASE Boot
  BY <1>5 DEF Boot, Start, Listen, RunDone, ReadJobs, AddJobs, RunStart, RunNext, history
<1>6. CASE SpawnDone \/ ExecuteDone \/ ExecuteFailed
  BY <1>6 DEF SpawnDone, ExecuteDone, ExecuteFailed, history
<1>7. CASE \E g \in DOMAIN live : Iterate(g) \/ MaxReached(g) \/ Leave(g)
  BY <1>7 DEF Iterate, MaxReached, Leave, Disturb, history
<1>8. CASE \E c \in calls : Send(c) \/ SendFailed(c) \/ UnscheduleOneTime(c)
  BY <1>8 DEF Send, SendFailed, UnscheduleOneTime, history
<1> QED
  BY <1>1, <1>2, <1>3, <1>4, <1>5, <1>6, <1>7, <1>8 DEF Next

LEMMA NamesNext == Inv /\ Typed /\ Typed' /\ NamesInv /\ [Next]_vars => NamesInv'
<1> SUFFICES ASSUME Inv, Typed, Typed', NamesInv, [Next]_vars, NEW n \in Names \ disturbed'
             PROVE  NameInv(n)'
  BY DEF NamesInv
<1>1. CASE Crash
  BY <1>1, CrashName
<1>2. CASE ~Crash
  <2>1. n \in Names /\ NameInv(n)
    BY <1>2, DisturbedGrows DEF NamesInv
  <2>2. CASE UNCHANGED vars
    BY <2>1, <2>2, MessagesTaken, LoopsUnchanged, LockUnchanged, PhaseUnchanged, UnconcernedInv
    DEF vars, store, process, Unconcerned
  <2>3. CASE \E i \in Ids, k \in Names, active \in BOOLEAN :
               Create(i, k, active) \/ Edit(i, k, active)
    BY <2>1, <2>3, ServicesName
  <2>4. CASE \E i \in Ids : Delete(i) \/ Execute(i)
    <3>1. n \in Names /\ TRUE \in BOOLEAN
      OBVIOUS
    <3> QED
      BY <2>1, <2>4, <3>1, ServicesName
  <2>5. CASE \E m \in msgs : SetActiveStatus(m) \/ Lose(m)
    BY <2>1, <2>5, SetActiveStatusName, LoseName
  <2>6. CASE \E m \in msgs : Handle(m)
    BY <2>1, <2>6, DefineName, DefineOther, HandleDeleteName, HandleExecuteName DEF Handle
  <2>7. CASE Boot
    BY <2>1, <2>7, PhaseName, ReadJobsName, AddJobsName, RunNextName DEF Boot
  <2>8. CASE SpawnDone \/ ExecuteDone \/ ExecuteFailed
    BY <2>1, <2>8, SpawnDoneName, ExecuteDoneName
  <2>9. CASE \E g \in DOMAIN live : Iterate(g) \/ MaxReached(g) \/ Leave(g)
    <3>1. PICK g \in DOMAIN live : Iterate(g) \/ MaxReached(g) \/ Leave(g)
      BY <2>9
    <3>2. CASE Leave(g)
      BY <2>1, <3>2, LeaveName
    <3>3. CASE (Iterate(g) \/ MaxReached(g)) /\ (g.job.name # n \/ g.job.id \notin OneTime)
      BY <2>1, <3>3, LoopAlone, UnconcernedInv
    <3>4. CASE (Iterate(g) \/ MaxReached(g)) /\ g.job.name = n /\ g.job.id \in OneTime
      BY <2>1, <3>4, OnceName DEF Inv
    <3> QED
      BY <3>1, <3>2, <3>3, <3>4
  <2>10. CASE \E c \in calls : Send(c) \/ SendFailed(c) \/ UnscheduleOneTime(c)
    BY <2>1, <2>10, SendName, UnscheduleOneTimeName
  <2> QED
    BY <1>2, <2>2, <2>3, <2>4, <2>5, <2>6, <2>7, <2>8, <2>9, <2>10 DEF Next
<1> QED
  BY <1>1, <1>2

\* No two greenlets ever execute jobs of one name that was not disturbed, through
\* creation, edits, deletions, executions and starts of the scheduler, whatever
\* other jobs do (Scheduler.create, edit, run).
THEOREM OneGreenletSafety == Spec => []OneGreenlet
<1>1. NamesInv => OneGreenlet
  <2> SUFFICES ASSUME NamesInv, NEW n \in Names \ disturbed PROVE Cardinality(Running(n)) <= 1
    BY DEF OneGreenlet
  <2>1. Running(n) \subseteq {Greenlet(n)}
    BY DEF NamesInv, NameInv, Single
  <2>2. Running(n) = {} \/ Running(n) = {Greenlet(n)}
    BY <2>1
  <2>3. Cardinality({Greenlet(n)}) = 1 /\ Cardinality({}) = 0
    BY FS_EmptySet, FS_Singleton
  <2> QED
    BY <2>2, <2>3
<1>2. Inv /\ Typed /\ NamesInv /\ [Next]_vars => (Inv /\ Typed /\ NamesInv)'
  BY NextInv, TypedNext, NamesNext
<1>3. Init => Inv /\ Typed /\ NamesInv
  BY InitInv, TypedInit, NamesInit DEF NamesInv
<1> QED
  BY <1>1, <1>2, <1>3, PTL DEF Spec

\* With nothing under way, what runs is what ODB has, in its latest version and in
\* a greenlet that can be killed.
THEOREM CurrentSafety == Spec => []Current
<1>1. Typed /\ NamesInv => Current
  <2> SUFFICES ASSUME Typed, NamesInv, Quiet, NEW n \in Names \ disturbed
               PROVE  /\ \A g \in Running(n) : \E i \in Ids : Wanted(i, n) /\ odb[i].ver = g.job.ver
                      /\ \A i \in Ids : Wanted(i, n) =>
                            /\ jobs[n] # Nothing
                            /\ jobs[n].ver = odb[i].ver
                            /\ \/ obj[jobs[n]].reached \/ ~obj[jobs[n]].start
                               \/ greenlets[n] \in Running(n)
    BY DEF Current
  <2>1. /\ phase = "ready" /\ msgs = {} /\ lock = Unlocked /\ n \in Names
        /\ NameInv(n)
    BY DEF Quiet, NamesInv
  <2>2. /\ Changes(n) = {} /\ ~Spawns(n) /\ ~Pending(n) /\ Greenlet(n) = greenlets[n]
        /\ \A i \in Ids : ~Deactivated(i, n)
    BY <2>1 DEF Changes, Spawns, Pending, Early, Greenlet, Deactivated, Unlocked
  <2>3. jobs[n] # Nothing =>
          /\ jobs[n] \in DOMAIN obj /\ jobs[n].id \in Ids /\ jobs[n].name = n
          /\ obj[jobs[n]].keep \/ obj[jobs[n]].reached
    BY <2>1 DEF Typed, Objects, Jobs
  <2>4. ASSUME NEW g \in Running(n)
        PROVE  \E i \in Ids : Wanted(i, n) /\ odb[i].ver = g.job.ver
    <3>1. jobs[n] # Nothing /\ g.job = jobs[n] /\ obj[jobs[n]].keep
      BY <2>1 DEF NameInv, Single, Running
    <3> QED
      BY <2>1, <2>2, <2>3, <3>1 DEF NameInv, Latest, Wanted
  <2>5. ASSUME NEW i \in Ids, Wanted(i, n)
        PROVE  /\ jobs[n] # Nothing
               /\ jobs[n].ver = odb[i].ver
               /\ \/ obj[jobs[n]].reached \/ ~obj[jobs[n]].start
                  \/ greenlets[n] \in Running(n)
    <3>1. jobs[n] # Nothing
      BY <2>1, <2>2, <2>5 DEF NameInv, Present
    <3>2. jobs[n].id = i /\ jobs[n].ver = odb[i].ver
      BY <2>1, <2>2, <2>5, <3>1 DEF NameInv, Latest, Wanted
    <3>3. ASSUME ~obj[jobs[n]].reached, obj[jobs[n]].start
          PROVE  greenlets[n] \in Running(n)
      <4>1. obj[jobs[n]].keep
        BY <2>3, <3>1, <3>3
      <4>2. greenlets[n] \in DOMAIN live /\ greenlets[n].job = jobs[n]
        BY <2>1, <2>2, <3>1, <3>3, <4>1 DEF NameInv, Present
      <4> QED
        BY <2>3, <3>1, <3>3, <4>1, <4>2 DEF Running
    <3> QED
      BY <3>1, <3>2, <3>3
  <2> QED
    BY <2>4, <2>5
<1>2. Inv /\ Typed /\ NamesInv /\ [Next]_vars => (Inv /\ Typed /\ NamesInv)'
  BY NextInv, TypedNext, NamesNext
<1>3. Init => Inv /\ Typed /\ NamesInv
  BY InitInv, TypedInit, NamesInit DEF NamesInv
<1> QED
  BY <1>1, <1>2, <1>3, PTL DEF Spec

============================================================================
