-------------------------- MODULE Scheduler_proof ---------------------------
(***************************************************************************)
(* What holds of Scheduler for every number of tasks and operations.       *)
(***************************************************************************)
EXTENDS Scheduler, TLAPS

\* Whether operations interleave is settled at the start.
LEMMA FlagStays == [Next]_vars => concurrent' = concurrent
  BY DEF Next, vars, ScriptStarts, ScriptEnds, Crash, Start, StartFails, Create, Update, Delete,
         RunNow, CronFires, RconSettles, Stringify, Saved, SaveRejects, Audited, Execute

(***************************************************************************)
(* The shape of the state.  An operation that waits for RCON holds a task  *)
(* that was created, in the list or deleted since, and so does the array   *)
(* of a save; a start empties the objects, and no operation outlives the   *)
(* process.                                                                *)
(***************************************************************************)
Texts == UNION {[D -> Task] : D \in SUBSET Ids}
Alarms == UNION {[D -> Schedules] : D \in SUBSET Ids}
RconOp == [at : {"rcon"}, work : Work]
LiveOp == [at : {"live"}, work : Work]
OldOp == [at : {"old"}, work : Work, array : SUBSET Ids]
WriteOp == [at : {"write"}, work : Work, text : Texts]
AuditOp == [at : {"audit"}, work : Work]
SomeOp == {Idle} \union RconOp \union LiveOp \union OldOp \union WriteOp \union AuditOp

\* What the operation x uses of the task objects T is there.
Holds(x, T) ==
    /\ x.at = "rcon" => x.work.kind # "change" /\ T[x.work.id] \in Task
    /\ x.at = "old" => \A i \in x.array : T[i] \in Task

Objects ==
    /\ task \in [Ids -> Task \union {NoTask}]
    /\ list \subseteq Ids /\ \A i \in list : task[i] \in Task
    /\ handles \in Alarms
Operations ==
    /\ op \in [Ops -> SomeOp]
    /\ \A o \in Ops : Holds(op[o], task)
    /\ status # "up" => \A o \in Ops : op[o] = Idle
Scalars ==
    /\ disk \in Texts /\ unsaved \in BOOLEAN
    /\ busy \in BOOLEAN /\ status \in {"up", "down", "died"} /\ changes \in 0..MaxChanges

Armament == Objects /\ Operations /\ Scalars /\ HandlesMatchTasks

LEMMA TaskFields ==
    ASSUME NEW t \in Task
    PROVE  /\ t # NoTask
           /\ \A r \in Results :
                /\ [t EXCEPT !.last = r] \in Task
                /\ [t EXCEPT !.last = r].enabled = t.enabled
                /\ [t EXCEPT !.last = r].schedule = t.schedule
           /\ t.enabled \in BOOLEAN /\ t.schedule \in Schedules
  BY DEF Task, NoTask, Types, Results

LEMMA OpFields ==
    /\ Idle.at = "idle" /\ Idle \in SomeOp
    /\ \A x \in SomeOp : /\ x = Idle \/ x.at \in {"rcon", "live", "old", "write", "audit"}
                         /\ x # Idle => x.work \in Work
                         /\ x.at = "rcon" => x \in RconOp
                         /\ x.at = "live" => x \in LiveOp
                         /\ x.at = "old" => x \in OldOp /\ x.array \in SUBSET Ids
                         /\ x.at = "write" => x \in WriteOp /\ x.text \in Texts
                         /\ x.at = "audit" => x \in AuditOp
  BY DEF Idle, SomeOp, RconOp, LiveOp, OldOp, WriteOp, AuditOp

\* An operation that holds nothing of the task objects.
LEMMA Free ==
    /\ \A T : Holds(Idle, T)
    /\ \A x \in LiveOp \union WriteOp \union AuditOp : x \in SomeOp /\ \A T : Holds(x, T)
  BY DEF Idle, SomeOp, LiveOp, WriteOp, AuditOp, Holds

LEMMA InitArmament == Init => Armament
<1> SUFFICES ASSUME Init PROVE Armament
  OBVIOUS
<1>1. disk \in [{} -> Task] /\ handles \in [{} -> Schedules]
  BY DEF Init
<1>2. disk \in Texts /\ handles \in Alarms
  BY <1>1 DEF Texts, Alarms
<1>3. Scalars
  <2>1. changes \in 0..MaxChanges
    BY SchedulerAssumption DEF SchedulerAssumption, Init
  <2> QED
    BY <1>2, <2>1 DEF Init, Scalars
<1>4. Objects
  BY <1>2 DEF Init, Objects
<1>5. HandlesMatchTasks
  <2>1. {j \in list : task[j].enabled} = {}
    BY DEF Init
  <2>2. handles = [i \in {} |-> "none"]
    BY DEF Init
  <2> QED
    BY <2>1, <2>2 DEF HandlesMatchTasks
<1>6. Operations
  BY OpFields, Free DEF Init, Operations
<1> QED
  BY <1>3, <1>4, <1>5, <1>6 DEF Armament

\* A text of objects that are there.
LEMMA Snapshot ==
    ASSUME NEW L \in SUBSET Ids, NEW T, \A i \in L : T[i] \in Task
    PROVE  [i \in L |-> T[i]] \in Texts
<1>1. [i \in L |-> T[i]] \in [L -> Task]
  OBVIOUS
<1> QED
  BY <1>1 DEF Texts

\* The expressions of the enabled tasks of a list.
LEMMA AlarmsOf ==
    ASSUME NEW L \in SUBSET Ids, NEW T, \A i \in L : T[i] \in Task
    PROVE  [i \in {j \in L : T[j].enabled} |-> T[i].schedule] \in Alarms
<1> DEFINE D == {j \in L : T[j].enabled}
<1>1. [i \in D |-> T[i].schedule] \in [D -> Schedules]
  BY TaskFields
<1> QED
  BY <1>1 DEF Alarms

\* No task object goes while the process is up.
Grows == \A i \in Ids : task[i] \in Task => task'[i] \in Task

LEMMA StillHolds ==
    ASSUME NEW x \in SomeOp, Holds(x, task), Grows
    PROVE  Holds(x, task')
<1>1. CASE x.at = "rcon"
  <2>1. x.work.id \in Ids
    BY <1>1, OpFields DEF Work
  <2> QED
    BY <1>1, <2>1 DEF Holds, Grows
<1>2. CASE x.at = "old"
  BY <1>2, OpFields DEF Holds, Grows
<1>3. CASE x.at \notin {"rcon", "old"}
  BY <1>3 DEF Holds
<1> QED
  BY <1>1, <1>2, <1>3

(***************************************************************************)
(* One operation goes on as x, the others stay what they were.             *)
(***************************************************************************)
LEMMA OneOp ==
    ASSUME Operations, NEW o \in Ops, status = "up", status' = status, Grows,
           NEW x \in SomeOp, Holds(x, task'), op' = [op EXCEPT ![o] = x]
    PROVE  Operations'
<1>1. op' \in [Ops -> SomeOp] /\ op'[o] = x
  BY DEF Operations
<1>2. ASSUME NEW p \in Ops
      PROVE  Holds(op'[p], task')
  <2>1. CASE p = o
    BY <1>1, <2>1
  <2>2. CASE p # o
    BY <2>2, StillHolds DEF Operations
  <2> QED
    BY <2>1, <2>2
<1> QED
  BY <1>1, <1>2 DEF Operations

\* persist(): an operation waits to save this.tasks.
LEMMA PersistOps ==
    ASSUME Operations, NEW o \in Ops, status = "up", status' = status, Grows,
           NEW work \in Work, Persist(o, work)
    PROVE  Operations'
<1> DEFINE x == [at |-> "live", work |-> work]
<1>1. x \in LiveOp /\ op' = [op EXCEPT ![o] = x]
  BY DEF LiveOp, Persist, Go
<1> HIDE DEF x
<1> QED
  BY <1>1, Free, OneOp

LEMMA ChangeWork ==
    ASSUME NEW i \in Ids
    PROVE  ChangeOf(i) \in Work
  BY DEF ChangeOf, Work, Results

\* Only an operation that is not idle goes on, so the process is up.
LEMMA GoesOn ==
    ASSUME Operations, Scalars, NEW o \in Ops, op[o] # Idle
    PROVE  status = "up"
  BY DEF Operations, Scalars

\* armHandle() and disarmHandle() of one task leave the others' handles alone.
LEMMA ArmedRight ==
    ASSUME NEW i \in Ids, NEW t \in Task, NEW L \in SUBSET Ids, list \in SUBSET Ids,
           L = list \union {i}, task \in [Ids -> Task \union {NoTask}],
           task' = [task EXCEPT ![i] = t],
           handles = [k \in {j \in list : task[j].enabled} |-> task[k].schedule]
    PROVE  Armed(i, t) = [k \in {j \in L : task'[j].enabled} |-> task'[k].schedule]
<1>1. task'[i] = t /\ \A j \in Ids : j # i => task'[j] = task[j]
  OBVIOUS
<1>2. CASE t.enabled
  <2>1. Armed(i, t) = [j \in DOMAIN handles \union {i} |-> IF j = i THEN t.schedule ELSE handles[j]]
    BY <1>2 DEF Armed
  <2>2. DOMAIN handles \union {i} = {j \in L : task'[j].enabled}
    BY <1>1, <1>2
  <2>3. \A j \in DOMAIN handles \union {i} :
          (IF j = i THEN t.schedule ELSE handles[j]) = task'[j].schedule
    BY <1>1
  <2> QED
    BY <2>1, <2>2, <2>3
<1>3. CASE ~t.enabled
  <2>1. Armed(i, t) = [j \in DOMAIN handles \ {i} |-> handles[j]]
    BY <1>3 DEF Armed
  <2>2. DOMAIN handles \ {i} = {j \in L : task'[j].enabled}
    BY <1>1, <1>3
  <2>3. \A j \in DOMAIN handles \ {i} : handles[j] = task'[j].schedule
    BY <1>1
  <2> QED
    BY <2>1, <2>2, <2>3
<1> QED
  BY <1>2, <1>3

\* A task is created or edited.
LEMMA EditKeeps ==
    ASSUME Armament, NEW o \in Ops, NEW i \in Ids, NEW t \in Task, status = "up", status' = status,
           task' = [task EXCEPT ![i] = t], list' = list \union {i}, handles' = Armed(i, t),
           Persist(o, ChangeOf(i))
    PROVE  Objects' /\ Operations' /\ HandlesMatchTasks'
<1>1. task' \in [Ids -> Task \union {NoTask}] /\ list' \in SUBSET Ids /\ \A j \in list' : task'[j] \in Task
  BY DEF Armament, Objects
<1>2. Armed(i, t) = [k \in {j \in list' : task'[j].enabled} |-> task'[k].schedule]
  <2>1. /\ list \in SUBSET Ids /\ task \in [Ids -> Task \union {NoTask}]
        /\ handles = [k \in {j \in list : task[j].enabled} |-> task[k].schedule]
    BY DEF Armament, Objects, HandlesMatchTasks
  <2> QED
    BY <1>1, <2>1, ArmedRight
<1>3. [k \in {j \in list' : task'[j].enabled} |-> task'[k].schedule] \in Alarms
  <2> DEFINE D == {j \in list' : task'[j].enabled}
  <2>1. D \in SUBSET Ids /\ \A k \in D : task'[k].schedule \in Schedules
    BY <1>1, TaskFields
  <2> HIDE DEF D
  <2>2. [k \in D |-> task'[k].schedule] \in [D -> Schedules]
    BY <2>1
  <2>3. [k \in D |-> task'[k].schedule] \in Alarms
    BY <2>1, <2>2 DEF Alarms
  <2> QED
    BY <2>3 DEF D
<1>4. Grows
  BY DEF Armament, Objects, Grows
<1>5. Operations'
  BY <1>4, PersistOps, ChangeWork DEF Armament
<1> QED
  BY <1>1, <1>2, <1>3, <1>5 DEF Objects, HandlesMatchTasks

LEMMA CreateKeeps ==
    ASSUME Armament, NEW o \in Ops, Create(o)
    PROVE  Armament'
<1>1. PICK i \in Ids, t \in Task :
         /\ task' = [task EXCEPT ![i] = t] /\ list' = list \union {i}
         /\ handles' = Armed(i, t) /\ Persist(o, ChangeOf(i))
  BY DEF Create
<1>2. /\ status = "up" /\ status' = status /\ disk' = disk /\ unsaved' = unsaved
      /\ busy' = busy /\ changes' \in 0..MaxChanges
  BY SchedulerAssumption DEF SchedulerAssumption, Create, Change, Begins, Armament, Scalars
<1> QED
  BY <1>1, <1>2, EditKeeps DEF Armament, Scalars

LEMMA UpdateKeeps ==
    ASSUME Armament, NEW o \in Ops, Update(o)
    PROVE  Armament'
<1>1. PICK i \in list, t \in Task :
         /\ task' = [task EXCEPT ![i] = t] /\ list' = list
         /\ handles' = Armed(i, t) /\ Persist(o, ChangeOf(i))
  BY DEF Update
<1>2. /\ status = "up" /\ status' = status /\ disk' = disk /\ unsaved' = unsaved
      /\ busy' = busy /\ changes' \in 0..MaxChanges
  BY SchedulerAssumption DEF SchedulerAssumption, Update, Change, Begins, Armament, Scalars
<1>3. i \in Ids /\ list' = list \union {i}
  BY <1>1 DEF Armament, Objects
<1> QED
  BY <1>1, <1>2, <1>3, EditKeeps DEF Armament, Scalars

\* delete(): the saves that wait keep the array they were given.
LEMMA DeleteKeeps ==
    ASSUME Armament, NEW o \in Ops, Delete(o)
    PROVE  Armament'
<1>1. PICK i \in Ids :
         /\ list' = list \ {i} /\ handles' = [j \in DOMAIN handles \ {i} |-> handles[j]]
         /\ task' = task /\ PersistReplaced(o, ChangeOf(i))
  BY DEF Delete
<1>2. /\ status = "up" /\ status' = status /\ disk' = disk /\ unsaved' = unsaved
      /\ busy' = busy /\ changes' \in 0..MaxChanges
  BY SchedulerAssumption DEF SchedulerAssumption, Delete, Change, Begins, Armament, Scalars
<1>3. handles' = [k \in {j \in list' : task'[j].enabled} |-> task'[k].schedule]
  <2>1. handles = [k \in {j \in list : task[j].enabled} |-> task[k].schedule]
    BY <1>2 DEF Armament, HandlesMatchTasks
  <2>2. DOMAIN handles \ {i} = {j \in list' : task'[j].enabled}
    BY <1>1, <2>1
  <2>3. \A j \in DOMAIN handles \ {i} : handles[j] = task'[j].schedule
    BY <1>1, <2>1
  <2> QED
    BY <1>1, <2>2, <2>3
<1>4. Objects'
  <2>1. list' \in SUBSET Ids /\ \A j \in list' : task'[j] \in Task
    BY <1>1 DEF Armament, Objects
  <2>2. handles' \in Alarms
    BY <1>3, <2>1, AlarmsOf
  <2> QED
    BY <1>1, <2>1, <2>2 DEF Armament, Objects
<1>5. ASSUME NEW p \in Ops
      PROVE  op'[p] \in SomeOp /\ Holds(op'[p], task')
  <2>1. CASE p = o
    <3>1. op'[p] \in LiveOp
      BY <1>1, <2>1, ChangeWork DEF PersistReplaced, LiveOp
    <3> QED
      BY <3>1, Free
  <2>2. CASE p # o /\ op[p].at = "live"
    <3>1. op'[p] = [at |-> "old", work |-> op[p].work, array |-> list]
      BY <1>1, <2>2 DEF PersistReplaced
    <3>2. op'[p] \in OldOp
      BY <2>2, <3>1, OpFields DEF Armament, Objects, Operations, OldOp
    <3>3. Holds(op'[p], task')
      BY <1>1, <3>1 DEF Armament, Objects, Holds
    <3> QED
      BY <3>2, <3>3 DEF SomeOp
  <2>3. CASE p # o /\ op[p].at # "live"
    <3>1. op'[p] = op[p]
      BY <1>1, <2>3 DEF PersistReplaced
    <3> QED
      BY <1>1, <3>1 DEF Armament, Operations
  <2> QED
    BY <2>1, <2>2, <2>3
<1>6. Operations'
  <2>1. op' = [p \in Ops |-> op'[p]]
    BY <1>1 DEF PersistReplaced
  <2>2. op' \in [Ops -> SomeOp]
    BY <1>5, <2>1
  <2> QED
    BY <1>2, <1>5, <2>2 DEF Operations
<1> QED
  BY <1>2, <1>3, <1>4, <1>6 DEF Armament, Scalars, HandlesMatchTasks

(***************************************************************************)
(* The end of execute() writes into an object that may have left the list: *)
(* it changes no `enabled` and no expression, so nothing is armed, brought *)
(* back or moved to another time.                                          *)
(***************************************************************************)
LEMMA FinishKeeps ==
    ASSUME Armament, NEW o \in Ops, NEW run \in Work, Finish(o, run), task[run.id] \in Task,
           status = "up", status' = status, handles' = handles, list' = list
    PROVE  Objects' /\ Operations' /\ HandlesMatchTasks'
<1>1. task' = [task EXCEPT ![run.id] = [task[run.id] EXCEPT !.last = run.result]] /\ Persist(o, run)
  BY DEF Finish
<1>2. run.id \in Ids /\ run.result \in Results
  BY DEF Work
<1>3. \A i \in Ids : task[i] \in Task =>
        task'[i] \in Task /\ task'[i].enabled = task[i].enabled /\ task'[i].schedule = task[i].schedule
  BY <1>1, <1>2, TaskFields DEF Armament, Objects
<1>4. task' \in [Ids -> Task \union {NoTask}]
  BY <1>1, <1>2, TaskFields DEF Armament, Objects
<1>5. Objects'
  BY <1>3, <1>4 DEF Armament, Objects
<1>6. Operations'
  BY <1>1, <1>3, PersistOps DEF Armament, Grows
<1>7. HandlesMatchTasks'
  <2>1. handles = [k \in {j \in list : task[j].enabled} |-> task[k].schedule]
    BY DEF Armament, HandlesMatchTasks
  <2>2. {j \in list : task[j].enabled} = {j \in list' : task'[j].enabled}
    BY <1>3 DEF Armament, Objects
  <2>3. \A k \in {j \in list : task[j].enabled} : task[k].schedule = task'[k].schedule
    BY <1>3 DEF Armament, Objects
  <2> QED
    BY <2>1, <2>2, <2>3 DEF HandlesMatchTasks
<1> QED
  BY <1>5, <1>6, <1>7

LEMMA ExecuteKeeps ==
    ASSUME Armament, NEW o \in Ops, NEW i \in list, NEW kind \in {"manual", "cron"}, Execute(o, i, kind)
    PROVE  Armament'
<1>1. /\ status = "up" /\ status' = status /\ handles' = handles /\ list' = list
      /\ disk' = disk /\ unsaved' = unsaved /\ changes' = changes
      /\ i \in Ids /\ task[i] \in Task
  BY DEF Execute, Begins, Armament, Objects
<1> DEFINE run == [kind |-> kind, id |-> i, started |-> FALSE, result |-> "never"]
<1>2. CASE task[i].type = "restart"
  <2> DEFINE ran == [run EXCEPT !.started = ~busy, !.result = "triggered"]
  <2>1. busy' = TRUE /\ Finish(o, ran)
    BY <1>2 DEF Execute
  <2>2. ran \in Work /\ ran.id = i
    BY <1>1 DEF Armament, Scalars, Work, Results
  <2> HIDE DEF ran
  <2>3. Objects' /\ Operations' /\ HandlesMatchTasks'
    BY <1>1, <2>1, <2>2, FinishKeeps
  <2>4. busy' \in BOOLEAN
    BY <2>1
  <2> QED
    BY <1>1, <2>3, <2>4 DEF Armament, Scalars
<1>3. CASE task[i].type # "restart"
  <2> DEFINE x == [at |-> "rcon", work |-> run]
  <2>1. op' = [op EXCEPT ![o] = x] /\ task' = task /\ busy' = busy
    BY <1>3 DEF Execute, Go
  <2>2. x \in RconOp
    BY <1>1 DEF RconOp, Work, Results
  <2>3. Holds(x, task')
    BY <1>1, <2>1 DEF Holds
  <2> HIDE DEF x
  <2>4. Operations'
    BY <1>1, <2>1, <2>2, <2>3, OneOp DEF Armament, Grows, SomeOp
  <2> QED
    BY <1>1, <2>1, <2>4 DEF Armament, Objects, Scalars, HandlesMatchTasks
<1> QED
  BY <1>2, <1>3

LEMMA RconSettlesKeeps ==
    ASSUME Armament, NEW o \in Ops, RconSettles(o)
    PROVE  Armament'
<1>1. op[o] # Idle /\ op[o].at = "rcon" /\ op[o].work \in Work
  BY OpFields DEF RconSettles, Armament, Operations
<1>2. status = "up" /\ task[op[o].work.id] \in Task
  BY <1>1, GoesOn DEF Armament, Operations, Holds
<1>3. PICK result \in {"reply", "failed"} : Finish(o, [op[o].work EXCEPT !.result = result])
  BY DEF RconSettles
<1> DEFINE run == [op[o].work EXCEPT !.result = result]
<1>4. run \in Work /\ run.id = op[o].work.id
  BY <1>1 DEF Work, Results
<1>5. Finish(o, run)
  BY <1>3
<1> HIDE DEF run
<1>6. Objects' /\ Operations' /\ HandlesMatchTasks'
  BY <1>2, <1>4, <1>5, FinishKeeps DEF RconSettles
<1> QED
  BY <1>6 DEF RconSettles, Armament, Scalars

\* A save that waits makes its text; every object it needs is there.
LEMMA StringifyKeeps ==
    ASSUME Armament, NEW o \in Ops, Stringify(o)
    PROVE  Armament'
<1>1. op[o].at \in {"live", "old"} /\ op[o] \in SomeOp /\ op[o] # Idle
  BY OpFields DEF Stringify, Armament, Operations
<1> DEFINE array == IF op[o].at = "live" THEN list ELSE op[o].array
           x == [at |-> "write", work |-> op[o].work, text |-> Text(array)]
<1>2. array \in SUBSET Ids /\ \A i \in array : task[i] \in Task
  BY <1>1, OpFields DEF Armament, Objects, Operations, Holds
<1>3. op' = [op EXCEPT ![o] = x]
  BY DEF Stringify, Go
<1> HIDE DEF array
<1>4. Text(array) \in Texts
  BY <1>2, Snapshot DEF Text
<1>5. x \in WriteOp
  BY <1>1, <1>4, OpFields DEF WriteOp
<1> HIDE DEF x
<1>6. Operations'
  BY <1>1, <1>3, <1>5, Free, OneOp, GoesOn DEF Armament, Stringify, Grows
<1> QED
  BY <1>6 DEF Stringify, Armament, Objects, Scalars, HandlesMatchTasks

LEMMA SaveKeeps ==
    ASSUME Armament, NEW o \in Ops, Saved(o) \/ SaveRejects(o)
    PROVE  Armament'
<1>1. op[o] \in SomeOp /\ op[o] # Idle /\ op[o].work \in Work
  BY OpFields DEF Saved, SaveRejects, Armament, Operations
<1>2. status = "up"
  BY <1>1, GoesOn DEF Armament
<1>3. /\ Objects' /\ busy' = busy /\ changes' = changes /\ task' = task /\ list' = list
      /\ handles' = handles /\ unsaved' \in BOOLEAN /\ Grows
  BY DEF Saved, SaveRejects, Armament, Objects, Grows
<1>4. CASE Saved(o)
  <2> DEFINE x == IF op[o].work.kind = "change" THEN Idle ELSE [at |-> "audit", work |-> op[o].work]
  <2>1. op' = [op EXCEPT ![o] = x] /\ disk' = op[o].text /\ status' = status
    BY <1>4 DEF Saved, Go
  <2>2. x = Idle \/ x \in AuditOp
    BY <1>1 DEF AuditOp
  <2> HIDE DEF x
  <2>3. Operations'
    BY <1>2, <1>3, <2>1, <2>2, Free, OpFields, OneOp DEF Armament
  <2>4. disk' \in Texts
    BY <1>1, <1>4, <2>1, OpFields DEF Saved
  <2> QED
    BY <1>3, <2>1, <2>3, <2>4 DEF Armament, Scalars, HandlesMatchTasks
<1>5. CASE SaveRejects(o) /\ op[o].work.kind = "cron"
  <2>1. status' = "died" /\ op' = [p \in Ops |-> Idle] /\ disk' = disk
    BY <1>5 DEF SaveRejects
  <2>2. Operations'
    BY <2>1, OpFields, Free DEF Operations
  <2> QED
    BY <1>3, <2>1, <2>2 DEF Armament, Scalars, HandlesMatchTasks
<1>6. CASE SaveRejects(o) /\ op[o].work.kind # "cron"
  <2>1. status' = status /\ op' = [op EXCEPT ![o] = Idle] /\ disk' = disk
    BY <1>6 DEF SaveRejects, Go
  <2>2. Operations'
    BY <1>2, <1>3, <2>1, Free, OpFields, OneOp DEF Armament
  <2> QED
    BY <1>3, <2>1, <2>2 DEF Armament, Scalars, HandlesMatchTasks
<1> QED
  BY <1>4, <1>5, <1>6

LEMMA AuditedKeeps ==
    ASSUME Armament, NEW o \in Ops, Audited(o)
    PROVE  Armament'
<1>1. status = "up"
  BY OpFields, GoesOn DEF Audited, Armament
<1>2. Operations'
  BY <1>1, OpFields, Free, OneOp DEF Audited, Armament, Go, Grows
<1> QED
  BY <1>2 DEF Audited, Armament, Objects, Scalars, HandlesMatchTasks

LEMMA ProcessKeeps ==
    ASSUME Armament, ScriptStarts \/ ScriptEnds \/ Crash \/ StartFails \/ UNCHANGED vars
    PROVE  Armament'
<1>1. Objects' /\ task' = task /\ list' = list /\ handles' = handles
  BY DEF Armament, Objects, ScriptStarts, ScriptEnds, Crash, StartFails, vars, tasks
<1>2. Scalars'
  <2>1. busy' \in BOOLEAN
    BY DEF Armament, Scalars, ScriptStarts, ScriptEnds, Crash, StartFails, vars, tasks
  <2> QED
    BY <2>1 DEF Armament, Scalars, ScriptStarts, ScriptEnds, Crash, StartFails, vars, tasks
<1>3. CASE Crash \/ StartFails
  <2>1. (\A o \in Ops : op'[o] = Idle) /\ status' # "up" /\ op' = [o \in Ops |-> op'[o]]
    BY <1>3 DEF Crash, StartFails, Armament, Operations
  <2> QED
    BY <1>1, <1>2, <2>1, OpFields, Free DEF Armament, Operations, HandlesMatchTasks
<1>4. CASE ScriptStarts \/ ScriptEnds \/ UNCHANGED vars
  <2>1. op' = op /\ status' = status
    BY <1>4 DEF ScriptStarts, ScriptEnds, vars, tasks
  <2> QED
    BY <1>1, <1>2, <2>1 DEF Armament, Operations, HandlesMatchTasks
<1> QED
  BY <1>3, <1>4

\* ensureLoaded(): whatever memory held, the file is what is armed.
LEMMA StartKeeps ==
    ASSUME Armament, Start
    PROVE  Armament'
<1>1. PICK D \in SUBSET Ids : disk \in [D -> Task]
  BY DEF Armament, Scalars, Texts
<1>2. /\ list' = D /\ handles' = [i \in {j \in D : disk[j].enabled} |-> disk[i].schedule]
      /\ task' = [i \in Ids |-> IF i \in D THEN disk[i] ELSE NoTask]
      /\ status' = "up" /\ busy' = FALSE /\ unsaved' = FALSE
      /\ disk' = disk /\ op' = op /\ changes' = changes
  BY <1>1 DEF Start, Loaded
<1>3. Objects'
  <2>1. handles' \in Alarms
    BY <1>1, <1>2, AlarmsOf
  <2> QED
    BY <1>1, <1>2, <2>1 DEF Objects
<1>4. Operations'
  <2>1. \A o \in Ops : op[o] = Idle
    BY DEF Start, Armament, Operations
  <2> QED
    BY <1>2, <2>1, Free DEF Armament, Operations
<1>5. HandlesMatchTasks'
  <2>1. \A j \in D : task'[j] = disk[j]
    BY <1>2
  <2>2. {j \in D : disk[j].enabled} = {j \in list' : task'[j].enabled}
    BY <1>2, <2>1
  <2> QED
    BY <1>2, <2>1, <2>2 DEF HandlesMatchTasks
<1>6. Scalars'
  <2>1. busy' \in BOOLEAN /\ unsaved' \in BOOLEAN
    BY <1>2
  <2> QED
    BY <1>2, <2>1 DEF Armament, Scalars
<1> QED
  BY <1>3, <1>4, <1>5, <1>6 DEF Armament

LEMMA NextArmament == Armament /\ [Next]_vars => Armament'
<1> SUFFICES ASSUME Armament, [Next]_vars PROVE Armament'
  OBVIOUS
<1>1. CASE ScriptStarts \/ ScriptEnds \/ Crash \/ StartFails \/ UNCHANGED vars
  BY <1>1, ProcessKeeps
<1>2. CASE Start
  BY <1>2, StartKeeps
<1>3. ASSUME NEW o \in Ops,
             \/ Create(o) \/ Update(o) \/ Delete(o) \/ RunNow(o) \/ CronFires(o)
             \/ RconSettles(o) \/ Stringify(o) \/ Saved(o) \/ SaveRejects(o) \/ Audited(o)
      PROVE  Armament'
  <2>1. CASE Create(o) \/ Update(o) \/ Delete(o)
    BY <2>1, CreateKeeps, UpdateKeeps, DeleteKeeps
  <2>2. CASE RunNow(o)
    BY <2>2, ExecuteKeeps DEF RunNow
  <2>3. CASE CronFires(o)
    <3>1. PICK i \in DOMAIN handles : Execute(o, i, "cron")
      BY <2>3 DEF CronFires
    <3>2. i \in list
      BY <3>1 DEF Execute, Begins, Armament, HandlesMatchTasks
    <3> QED
      BY <3>1, <3>2, ExecuteKeeps
  <2>4. CASE RconSettles(o) \/ Stringify(o) \/ Saved(o) \/ SaveRejects(o) \/ Audited(o)
    BY <2>4, RconSettlesKeeps, StringifyKeeps, SaveKeeps, AuditedKeeps
  <2> QED
    BY <1>3, <2>1, <2>2, <2>3, <2>4
<1> QED
  BY <1>1, <1>2, <1>3 DEF Next

LEMMA AlwaysArmament == Spec => []Armament
<1> QED
  BY InitArmament, NextArmament, PTL DEF Spec

LEMMA TextsAreTables ==
    ASSUME NEW t \in Texts
    PROVE  IsTable(t)
<1>1. PICK D \in SUBSET Ids : t \in [D -> Task]
  BY DEF Texts
<1> QED
  BY <1>1 DEF IsTable

LEMMA SomeOpIsOp ==
    ASSUME NEW x \in SomeOp
    PROVE  IsOp(x)
<1>1. CASE x \in WriteOp
  <2>1. /\ x = [at |-> "write", work |-> x.work, text |-> x.text] /\ x.at = "write"
        /\ x.work \in Work /\ x.text \in Texts
    BY <1>1 DEF WriteOp
  <2> QED
    BY <2>1, TextsAreTables DEF IsOp
<1>2. CASE x \notin WriteOp
  BY <1>2 DEF SomeOp, RconOp, LiveOp, OldOp, AuditOp, IsOp
<1> QED
  BY <1>1, <1>2

LEMMA AlwaysFields == Spec => []Fields
<1>1. Armament => Fields
  <2> SUFFICES ASSUME Armament PROVE Fields
    OBVIOUS
  <2>1. IsTable(disk)
    BY TextsAreTables DEF Armament, Scalars
  <2>2. DOMAIN handles \subseteq Ids /\ handles \in [DOMAIN handles -> Schedules]
    <3>1. PICK D \in SUBSET Ids : handles \in [D -> Schedules]
      BY DEF Armament, Objects, Alarms
    <3> QED
      BY <3>1
  <2>3. \A o \in Ops : IsOp(op[o])
    BY SomeOpIsOp DEF Armament, Operations
  <2>4. op = [o \in Ops |-> op[o]]
    BY DEF Armament, Operations
  <2> QED
    BY <2>1, <2>2, <2>3, <2>4 DEF Armament, Objects, Scalars, Fields
<1> QED
  BY <1>1, AlwaysArmament, PTL

(***************************************************************************)
(* The state of SchedulerService keeps its types, whatever interleaves,    *)
(* fails or restarts.                                                      *)
(***************************************************************************)
THEOREM TypeCorrect == Spec => []TypeOK
<1> DEFINE Flag == concurrent \in BOOLEAN
<1>1. Init => Flag
  BY DEF Init
<1>2. Flag /\ [Next]_vars => Flag'
  BY FlagStays
<1>3. Fields /\ Flag => TypeOK
  BY DEF TypeOK
<1> HIDE DEF Flag
<1> QED
  BY <1>1, <1>2, <1>3, AlwaysFields, PTL DEF Spec

(***************************************************************************)
(* What node-cron fires is what is enabled, each task by the expression it *)
(* has now, for every number of tasks, of expressions and of operations    *)
(* under way, failing saves and restarts included.                         *)
(***************************************************************************)
THEOREM HandlesRight == Spec => []HandlesMatchTasks
<1>1. Armament => HandlesMatchTasks
  BY DEF Armament
<1> QED
  BY <1>1, AlwaysArmament, PTL

-----------------------------------------------------------------------------
(***************************************************************************)
(* One operation at a time: the text under way is what memory holds, and   *)
(* nothing else goes on; without a save under way, the file holds it,      *)
(* unless the last save rejected.                                          *)
(***************************************************************************)
Memory == [i \in list |-> task[i]]
Saving == {o \in Ops : op[o].at \in {"live", "old", "write"}}
Serial ==
    /\ \A o, p \in Ops : op[o] # Idle /\ op[p] # Idle => o = p
    /\ \A o \in Ops : op[o].at # "old"
    /\ \A o \in Ops : op[o].at = "write" => op[o].text = Memory
    /\ status = "up" /\ Saving = {} /\ ~unsaved => disk = Memory

Alone(o) == \A p \in Ops \ {o} : op[p] = Idle

LEMMA Others ==
    ASSUME Serial, NEW o \in Ops, op[o] # Idle
    PROVE  Alone(o)
  BY DEF Serial, Alone

LEMMA BeginsAlone ==
    ASSUME ~concurrent, NEW o \in Ops, Begins(o)
    PROVE  Alone(o) /\ op[o] = Idle /\ Saving = {}
  BY OpFields DEF Begins, Alone, Saving

(***************************************************************************)
(* What an operation that is alone goes on as: a save that waits, a text   *)
(* of memory, or nothing of a save with the file as it should be.          *)
(***************************************************************************)
LEMMA StepSerial ==
    ASSUME NEW o \in Ops, Alone(o), NEW x, op'[o] = x, x.at # "old",
           \A p \in Ops : p # o => op'[p] = op[p],
           x.at = "write" => x.text = Memory',
           x.at \in {"live", "write"} \/ status' # "up" \/ unsaved' \/ disk' = Memory'
    PROVE  Serial'
<1>1. \A p \in Ops : p # o => op'[p] = Idle
  BY DEF Alone
<1>2. \A p, q \in Ops : op'[p] # Idle /\ op'[q] # Idle => p = q
  BY <1>1
<1>3. \A p \in Ops : op'[p].at # "old" /\ (op'[p].at = "write" => op'[p].text = Memory')
  BY <1>1, OpFields
<1>4. x.at \in {"live", "write"} => Saving' # {}
  BY DEF Saving
<1> QED
  BY <1>2, <1>3, <1>4 DEF Serial

\* Only one operation changes.
LEMMA GoSerial ==
    ASSUME NEW o \in Ops, NEW x, Go(o, x), op = [p \in Ops |-> op[p]]
    PROVE  op'[o] = x /\ \A p \in Ops : p # o => op'[p] = op[p]
  BY DEF Go

LEMMA PersistSerial ==
    ASSUME Armament, NEW o \in Ops, Alone(o), NEW work,
           Persist(o, work) \/ PersistReplaced(o, work)
    PROVE  Serial'
<1> DEFINE x == [at |-> "live", work |-> work]
<1>1. \A p \in Ops : p # o => op[p].at # "live"
  BY OpFields DEF Alone
<1>2. op'[o] = x /\ \A p \in Ops : p # o => op'[p] = op[p]
  BY <1>1 DEF Persist, PersistReplaced, Go, Armament, Operations
<1>3. x.at = "live"
  OBVIOUS
<1> HIDE DEF x
<1> QED
  BY <1>2, <1>3, StepSerial

LEMMA ChangeSerial ==
    ASSUME Armament, ~concurrent, NEW o \in Ops, Create(o) \/ Update(o) \/ Delete(o)
    PROVE  Serial'
<1>1. Alone(o)
  BY BeginsAlone DEF Create, Update, Delete, Change
<1>2. PICK work : Persist(o, work) \/ PersistReplaced(o, work)
  BY DEF Create, Update, Delete
<1> QED
  BY <1>1, <1>2, PersistSerial

LEMMA ExecuteSerial ==
    ASSUME Armament, Serial, ~concurrent, NEW o \in Ops, NEW i, NEW kind, Execute(o, i, kind)
    PROVE  Serial'
<1>1. Alone(o) /\ op[o] = Idle /\ Saving = {} /\ status = "up"
  BY BeginsAlone DEF Execute, Begins
<1>2. CASE task[i].type = "restart"
  <2>1. PICK work : Persist(o, work)
    BY <1>2 DEF Execute, Finish
  <2> QED
    BY <1>1, <2>1, PersistSerial
<1>3. CASE task[i].type # "restart"
  <2> DEFINE run == [kind |-> kind, id |-> i, started |-> FALSE, result |-> "never"]
             x == [at |-> "rcon", work |-> run]
  <2>1. Go(o, x) /\ task' = task /\ list' = list /\ disk' = disk /\ unsaved' = unsaved
    BY <1>3 DEF Execute
  <2>2. x.at = "rcon" /\ op = [p \in Ops |-> op[p]]
    BY DEF Armament, Operations
  <2> HIDE DEF x
  <2>3. unsaved' \/ disk' = Memory'
    BY <1>1, <2>1 DEF Serial, Memory
  <2> QED
    BY <1>1, <2>1, <2>2, <2>3, GoSerial, StepSerial
<1> QED
  BY <1>2, <1>3

LEMMA SaveSerial ==
    ASSUME Armament, Serial, NEW o \in Ops, Stringify(o) \/ Saved(o) \/ SaveRejects(o)
    PROVE  Serial'
<1>1. Alone(o) /\ op = [p \in Ops |-> op[p]]
  BY OpFields, Others DEF Stringify, Saved, SaveRejects, Armament, Operations
<1>2. Memory' = Memory
  BY DEF Stringify, Saved, SaveRejects, Memory
<1>3. CASE Stringify(o)
  <2> DEFINE x == [at |-> "write", work |-> op[o].work, text |-> Text(list)]
  <2>1. op[o].at = "live"
    BY <1>3 DEF Stringify, Serial
  <2>2. Go(o, x)
    BY <1>3, <2>1 DEF Stringify
  <2>3. x.at = "write" /\ x.text = Memory
    BY DEF Text, Memory
  <2> HIDE DEF x
  <2> QED
    BY <1>1, <1>2, <2>2, <2>3, GoSerial, StepSerial
<1>4. CASE Saved(o)
  <2> DEFINE x == IF op[o].work.kind = "change" THEN Idle ELSE [at |-> "audit", work |-> op[o].work]
  <2>1. Go(o, x) /\ disk' = op[o].text
    BY <1>4 DEF Saved
  <2>2. x.at \in {"idle", "audit"}
    BY OpFields
  <2>3. op[o].text = Memory
    BY <1>4 DEF Saved, Serial
  <2> HIDE DEF x
  <2> QED
    BY <1>1, <1>2, <2>1, <2>2, <2>3, GoSerial, StepSerial
<1>5. CASE SaveRejects(o)
  <2>1. op'[o] = Idle /\ unsaved' = TRUE /\ \A p \in Ops : p # o => op'[p] = op[p]
    BY <1>1, <1>5, GoSerial DEF SaveRejects, Alone
  <2> QED
    BY <1>1, <2>1, OpFields, StepSerial
<1> QED
  BY <1>3, <1>4, <1>5

LEMMA GoesOnSerial ==
    ASSUME Armament, Serial, NEW o \in Ops, RconSettles(o) \/ Audited(o)
    PROVE  Serial'
<1>1. Alone(o) /\ op = [p \in Ops |-> op[p]] /\ status = "up"
  BY OpFields, Others, GoesOn DEF RconSettles, Audited, Armament, Operations
<1>2. CASE RconSettles(o)
  <2>1. PICK work : Persist(o, work)
    BY <1>2 DEF RconSettles, Finish
  <2> QED
    BY <1>1, <2>1, PersistSerial
<1>3. CASE Audited(o)
  <2>1. Saving = {}
    BY <1>1, <1>3, OpFields DEF Audited, Alone, Saving
  <2>2. /\ Go(o, Idle) /\ disk' = disk /\ unsaved' = unsaved
        /\ status' = status /\ list' = list /\ task' = task
    BY <1>3 DEF Audited
  <2>3. unsaved' \/ disk' = Memory'
    BY <1>1, <2>1, <2>2 DEF Serial, Memory
  <2> QED
    BY <1>1, <2>2, <2>3, OpFields, GoSerial, StepSerial
<1> QED
  BY <1>2, <1>3

LEMMA ProcessSerial ==
    ASSUME Armament, Serial,
           ScriptStarts \/ ScriptEnds \/ Crash \/ Start \/ StartFails \/ UNCHANGED vars
    PROVE  Serial'
<1>1. CASE Crash \/ StartFails
  <2>1. (\A o \in Ops : op'[o] = Idle) /\ status' # "up"
    BY <1>1 DEF Crash, StartFails, Armament, Operations
  <2> QED
    BY <2>1, OpFields DEF Serial
<1>2. CASE Start
  <2>1. \A o \in Ops : op'[o] = Idle
    BY <1>2 DEF Start, Armament, Operations
  <2>2. PICK D \in SUBSET Ids : disk \in [D -> Task]
    BY DEF Armament, Scalars, Texts
  <2>3. disk' = Memory'
    BY <1>2, <2>2 DEF Start, Loaded, Memory
  <2> QED
    BY <2>1, <2>3, OpFields DEF Serial
<1>3. CASE ScriptStarts \/ ScriptEnds \/ UNCHANGED vars
  <2>1. /\ task' = task /\ list' = list /\ op' = op /\ disk' = disk /\ status' = status
        /\ unsaved' = unsaved
    BY <1>3 DEF ScriptStarts, ScriptEnds, vars, tasks
  <2>2. Memory' = Memory /\ Saving' = Saving
    BY <2>1 DEF Memory, Saving
  <2> QED
    BY <2>1, <2>2 DEF Serial
<1> QED
  BY <1>1, <1>2, <1>3

LEMMA NextSerial == ~concurrent /\ Armament /\ Serial /\ [Next]_vars => Serial'
<1> SUFFICES ASSUME ~concurrent, Armament, Serial, [Next]_vars PROVE Serial'
  OBVIOUS
<1>1. CASE ScriptStarts \/ ScriptEnds \/ Crash \/ Start \/ StartFails \/ UNCHANGED vars
  BY <1>1, ProcessSerial
<1>2. ASSUME NEW o \in Ops,
             \/ Create(o) \/ Update(o) \/ Delete(o) \/ RunNow(o) \/ CronFires(o)
             \/ RconSettles(o) \/ Stringify(o) \/ Saved(o) \/ SaveRejects(o) \/ Audited(o)
      PROVE  Serial'
  BY <1>2, ChangeSerial, ExecuteSerial, SaveSerial, GoesOnSerial DEF RunNow, CronFires
<1> QED
  BY <1>1, <1>2 DEF Next

LEMMA InitSerial == Init => Serial
  BY OpFields DEF Init, Serial, Saving, Memory

LEMMA AlwaysSerial == Spec => [](Armament /\ (~concurrent => Serial))
<1>1. Init => Armament /\ (~concurrent => Serial)
  BY InitArmament, InitSerial
<1>2. [Next]_vars => concurrent' = concurrent
  BY FlagStays
<1>3. /\ Armament /\ (~concurrent => Serial) /\ [Next]_vars
      => (Armament /\ (~concurrent => Serial))'
  BY <1>2, NextArmament, NextSerial
<1> QED
  BY <1>1, <1>3, PTL DEF Spec

(***************************************************************************)
(* One operation at a time, over saves that reject and restarts: when      *)
(* nothing is in progress and the last save did not reject,                *)
(* scheduled-tasks.json is what memory holds, so a restart brings back no  *)
(* deleted task and loses none, for every number of tasks.                 *)
(***************************************************************************)
THEOREM Persisted == Spec => []SerialPersistedWhenQuiet
<1>1. Armament /\ Serial /\ (\A o \in Ops : op[o] = Idle) /\ status = "up" /\ ~unsaved => disk = Memory
  BY OpFields DEF Serial, Saving
<1>2. Armament /\ (~concurrent => Serial) => SerialPersistedWhenQuiet
  BY <1>1 DEF Armament, Objects, Memory, SerialPersistedWhenQuiet
<1> QED
  BY <1>2, AlwaysSerial, PTL
=============================================================================
