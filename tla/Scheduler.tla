------------------------------ MODULE Scheduler ------------------------------
(***************************************************************************)
(* services/scheduler.service.ts behind scheduler.routes.ts: cron tasks    *)
(* that run the restart script or an RCON command, saved to                *)
(* scheduled-tasks.json and armed again on start-up.                       *)
(*                                                                         *)
(* An operation is a request (create, update, delete, run now) or a cron   *)
(* firing; it holds its task by reference, also after delete().  Of the    *)
(* script runner only "is a script running" is kept (scripts.service.ts),  *)
(* of the RCON connection that an answer comes or not.                     *)
(*                                                                         *)
(* A save is given this.tasks, makes its text after the await of mkdir and *)
(* lands later, or rejects at any await.  The array (a set of ids, its     *)
(* order is immaterial here) holds shared objects: a save that waits sees  *)
(* every field that changes, but keeps the array it was given when         *)
(* delete() replaces this.tasks.  Saves in flight together land in any     *)
(* order; what their one temporary file adds is in module JsonStore.       *)
(***************************************************************************)
EXTENDS Naturals

CONSTANTS
    Ids, Ops,
    Schedules,      \* cron expressions
    MaxChanges,     \* bound on creations, updates and deletions
    MaxConcurrent   \* the same when concurrent

ASSUME SchedulerAssumption == MaxChanges \in Nat /\ MaxConcurrent \in 0..MaxChanges

Types == {"restart", "rcon"}
Results == {"never", "triggered", "reply", "failed"}
Task == [type : Types, schedule : Schedules, enabled : BOOLEAN, last : Results]
NoTask == [type |-> "none"]

VARIABLES
    task,       \* the task objects, by id
    list,       \* this.tasks
    handles,    \* this.handles: the expression node-cron fires each armed task by
    disk,       \* scheduled-tasks.json
    unsaved,    \* a save rejected and none has landed since (history)
    op,         \* the operations in progress
    busy,       \* scriptsService.running is set
    status,     \* "up", "down", or "died" of an unhandled rejection
    changes,
    concurrent  \* TRUE: an operation may begin while others are in progress; never changes

tasks == <<task, list, handles, disk, unsaved, op, busy, status, changes>>
vars == <<tasks, concurrent>>

Idle == [at |-> "idle"]
Work == [kind : {"change", "manual", "cron"}, id : Ids, started : BOOLEAN, result : Results]
IsTable(t) == DOMAIN t \subseteq Ids /\ t \in [DOMAIN t -> Task]
IsOp(o) ==
    \/ o = Idle
    \/ o \in [at : {"rcon"}, work : Work]
    \/ o \in [at : {"live"}, work : Work]                       \* to save this.tasks
    \/ o \in [at : {"old"}, work : Work, array : SUBSET Ids]    \* to save an array replaced since
    \/ o.at = "write" /\ o = [at |-> "write", work |-> o.work, text |-> o.text]    \* stringified
       /\ o.work \in Work /\ IsTable(o.text)
    \/ o \in [at : {"audit"}, work : Work]

Fields ==
    /\ task \in [Ids -> Task \union {NoTask}]
    /\ list \subseteq Ids /\ \A i \in list : task[i] \in Task
    /\ DOMAIN handles \subseteq Ids /\ handles \in [DOMAIN handles -> Schedules]
    /\ IsTable(disk) /\ unsaved \in BOOLEAN
    /\ op = [o \in Ops |-> op[o]] /\ \A o \in Ops : IsOp(op[o])
    /\ busy \in BOOLEAN /\ status \in {"up", "down", "died"}
    /\ changes \in 0..MaxChanges
TypeOK == Fields /\ concurrent \in BOOLEAN

Init ==
    /\ task = [i \in Ids |-> NoTask] /\ list = {}
    /\ handles = [i \in {} |-> "none"]
    /\ disk = [i \in {} |-> NoTask] /\ unsaved = FALSE
    /\ op = [o \in Ops |-> Idle]
    /\ busy = FALSE /\ status = "up" /\ changes = 0
    /\ concurrent \in BOOLEAN

-----------------------------------------------------------------------------
Begins(o) ==
    /\ status = "up" /\ op[o] = Idle
    /\ concurrent \/ \A p \in Ops : op[p] = Idle

Change(o) ==
    /\ Begins(o)
    /\ changes < IF concurrent THEN MaxConcurrent ELSE MaxChanges
    /\ changes' = changes + 1

Text(array) == [i \in array |-> task[i]]
Go(o, state) == op' = [op EXCEPT ![o] = state]

\* Slip: the tasks as they were before the change are saved.
PersistBefore(o, work) == Go(o, [at |-> "write", work |-> work, text |-> Text(list)])
\* persist(): o goes on with work once this.tasks is saved.
Persist(o, work) == Go(o, [at |-> "live", work |-> work])
\* The same when this.tasks is replaced: saves that wait keep the array they have.
PersistReplaced(o, work) ==
    op' = [p \in Ops |-> IF p = o THEN [at |-> "live", work |-> work]
                         ELSE IF op[p].at = "live"
                         THEN [at |-> "old", work |-> op[p].work, array |-> list]
                         ELSE op[p]]

ChangeOf(i) == [kind |-> "change", id |-> i, started |-> FALSE, result |-> "never"]

\* disarm, and arm again when enabled.
\* Slip: a task that is armed already is left as it is.
ArmedOnce(i, t) ==
    IF ~t.enabled THEN [j \in DOMAIN handles \ {i} |-> handles[j]]
    ELSE [j \in DOMAIN handles \union {i} |-> IF j \in DOMAIN handles THEN handles[j] ELSE t.schedule]
Armed(i, t) ==
    IF ~t.enabled THEN [j \in DOMAIN handles \ {i} |-> handles[j]]
    ELSE [j \in DOMAIN handles \union {i} |-> IF j = i THEN t.schedule ELSE handles[j]]

Create(o) ==
    /\ Change(o)
    /\ \E i \in Ids, t \in Task :
         /\ task[i] = NoTask /\ t.last = "never"
         /\ task' = [task EXCEPT ![i] = t]
         /\ list' = list \union {i}
         /\ handles' = Armed(i, t)
         /\ Persist(o, ChangeOf(i))
    /\ UNCHANGED <<disk, unsaved, busy, status, concurrent>>

Update(o) ==
    /\ Change(o)
    /\ \E i \in list, t \in Task :
         /\ t.last = task[i].last
         /\ task' = [task EXCEPT ![i] = t]
         /\ handles' = Armed(i, t)
         /\ Persist(o, ChangeOf(i))
    /\ UNCHANGED <<list, disk, unsaved, busy, status, concurrent>>

\* delete(), also of a task that is deleted already.
Delete(o) ==
    /\ Change(o)
    /\ \E i \in {j \in Ids : task[j] # NoTask} :
         /\ list' = list \ {i}
         /\ handles' = [j \in DOMAIN handles \ {i} |-> handles[j]]
         /\ PersistReplaced(o, ChangeOf(i))
    /\ UNCHANGED <<task, disk, unsaved, busy, status, concurrent>>

\* The end of execute(): the result goes into the task object.
Finish(o, run) ==
    /\ task' = [task EXCEPT ![run.id].last = run.result]
    /\ Persist(o, run)

\* execute() of a restart task does not wait; scriptsService.run() does
\* nothing while a script is running.
Execute(o, i, kind) ==
    /\ Begins(o)
    /\ LET run == [kind |-> kind, id |-> i, started |-> FALSE, result |-> "never"] IN
       IF task[i].type = "restart"
       THEN /\ busy' = TRUE
            /\ Finish(o, [run EXCEPT !.started = ~busy, !.result = "triggered"])
       ELSE /\ Go(o, [at |-> "rcon", work |-> run])
            /\ UNCHANGED <<task, busy>>
    /\ UNCHANGED <<list, handles, disk, unsaved, status, changes, concurrent>>

RunNow(o) == \E i \in list : Execute(o, i, "manual")
CronFires(o) == \E i \in DOMAIN handles : Execute(o, i, "cron")

RconSettles(o) ==
    /\ op[o].at = "rcon"
    /\ \E result \in {"reply", "failed"} : Finish(o, [op[o].work EXCEPT !.result = result])
    /\ UNCHANGED <<list, handles, disk, unsaved, busy, status, changes, concurrent>>

\* The text is made after the await of mkdir.
Stringify(o) ==
    /\ op[o].at \in {"live", "old"}
    /\ Go(o, [at |-> "write", work |-> op[o].work,
              text |-> Text(IF op[o].at = "live" THEN list ELSE op[o].array)])
    /\ UNCHANGED <<task, list, handles, disk, unsaved, busy, status, changes, concurrent>>

\* The save has landed: a change is answered, a run goes on to its audit entry.
Saved(o) ==
    /\ op[o].at = "write"
    /\ disk' = op[o].text /\ unsaved' = FALSE
    /\ Go(o, IF op[o].work.kind = "change" THEN Idle ELSE [at |-> "audit", work |-> op[o].work])
    /\ UNCHANGED <<task, list, handles, busy, status, changes, concurrent>>

\* The save rejects at mkdir, writeFile or rename, and a run is not audited.  A
\* request answers with an error; nobody awaits execute() of a firing, and Node
\* ends the process.
SaveRejects(o) ==
    /\ op[o].at \in {"live", "old", "write"}
    /\ unsaved' = TRUE
    /\ IF op[o].work.kind = "cron"
       THEN status' = "died" /\ op' = [p \in Ops |-> Idle]
       ELSE status' = status /\ Go(o, Idle)
    /\ UNCHANGED <<task, list, handles, disk, busy, changes, concurrent>>

\* auditLogService.record() swallows its own errors.
Audited(o) ==
    /\ op[o].at = "audit"
    /\ Go(o, Idle)
    /\ UNCHANGED <<task, list, handles, disk, unsaved, busy, status, changes, concurrent>>

\* The Dashboard runs a script; the script ends.
ScriptStarts ==
    /\ status = "up" /\ ~busy /\ busy' = TRUE
    /\ UNCHANGED <<task, list, handles, disk, unsaved, op, status, changes, concurrent>>
ScriptEnds ==
    /\ status = "up" /\ busy /\ busy' = FALSE
    /\ UNCHANGED <<task, list, handles, disk, unsaved, op, status, changes, concurrent>>

Crash ==
    /\ status = "up" /\ status' = "down"
    /\ op' = [o \in Ops |-> Idle]
    /\ UNCHANGED <<task, list, handles, disk, unsaved, busy, changes, concurrent>>

\* Slip: the loaded tasks are added to the old ones.
LoadedToo == list' = list \union DOMAIN disk
Loaded == list' = DOMAIN disk

\* ensureLoaded(), which every operation awaits: what the file holds is armed again.
Start ==
    /\ status # "up" /\ status' = "up"
    /\ Loaded
    /\ task' = [i \in Ids |-> IF i \in DOMAIN disk THEN disk[i] ELSE NoTask]
    /\ handles' = [i \in {j \in DOMAIN disk : disk[j].enabled} |-> disk[i].schedule]
    /\ busy' = FALSE /\ unsaved' = FALSE
    /\ UNCHANGED <<disk, op, changes, concurrent>>

\* The file cannot be read: nobody awaits start(), and Node ends the process.
StartFails ==
    /\ status # "up" /\ status' = "died"
    /\ UNCHANGED <<task, list, handles, disk, unsaved, op, busy, changes, concurrent>>

Next ==
    \/ ScriptStarts \/ ScriptEnds \/ Crash \/ Start \/ StartFails
    \/ \E o \in Ops :
         \/ Create(o) \/ Update(o) \/ Delete(o) \/ RunNow(o) \/ CronFires(o)
         \/ RconSettles(o) \/ Stringify(o) \/ Saved(o) \/ SaveRejects(o) \/ Audited(o)

Spec == Init /\ [][Next]_vars

-----------------------------------------------------------------------------
(***************************************************************************)
(* node-cron fires exactly the enabled tasks of the list, each by the      *)
(* expression it has now: no deleted or disabled task fires on, none by an *)
(* expression that was edited since, and no enabled one is silent; over    *)
(* failed saves and restarts too.                                          *)
(***************************************************************************)
HandlesMatchTasks ==
    status = "up" => handles = [i \in {j \in list : task[j].enabled} |-> task[i].schedule]

(***************************************************************************)
(* One operation at a time: with nothing in progress, and unless the last  *)
(* save rejected, the file has what memory has, last runs included, so a   *)
(* restart brings back no deleted task and loses none.  (After a save that *)
(* rejected it may: memory keeps the change and the file does not.)        *)
(***************************************************************************)
SerialPersistedWhenQuiet ==
    ~concurrent /\ status = "up" /\ ~unsaved /\ (\A o \in Ops : op[o] = Idle)
        => DOMAIN disk = list /\ \A i \in list : disk[i] = task[i]

(***************************************************************************)
(* A restart recorded as triggered was triggered.                          *)
(***************************************************************************)
RecordedRestartsHappened ==
    \A o \in Ops : op[o] # Idle /\ op[o].work.result = "triggered" => op[o].work.started
=============================================================================
