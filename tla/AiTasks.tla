-------------------------------- MODULE AiTasks --------------------------------
(***************************************************************************)
(* The AI platform's task queue, its worker and its own scheduler (app/ai/ *)
(* task_queue, app/ai/scheduler/service.py, the endpoints of app/ai/       *)
(* routers that use them).  One process is meant to run the worker and the *)
(* scheduler; there are two for a while when the singleton lock expires.   *)
(*                                                                         *)
(* No handler is registered for any task type, so that every attempt       *)
(* raises and the task is retried until its tries are used up; complete    *)
(* and the workflow executor are never reached.  schedule_at of a task is  *)
(* not looked at.  A schedule is loaded in one session and its counter is  *)
(* incremented in another, to which it does not belong: nothing of it is   *)
(* written.  The request that executes a schedule at once, whatever its    *)
(* interval, is left out.                                                  *)
(***************************************************************************)
EXTENDS Integers, FiniteSets, Database

CONSTANTS
    Task,           \* ai_tasks (a bound)
    Schedule,       \* ai_schedule_definitions
    Runner,         \* processes that run the worker and the scheduler
    MaxTries,       \* max_retries
    Interval,       \* interval_seconds
    MaxNow,         \* bound on time
    TaskFaults,     \* bound on crashes
    NoTask

ASSUME TaskAssumption ==
    /\ NoTask \notin Task \cup Schedule
    /\ MaxTries \in Nat \ {0} /\ Interval \in Nat \ {0}
    /\ MaxNow \in Nat /\ TaskFaults \in Nat

VARIABLES
    task,       \* rows of ai_tasks
    work,       \* the worker of each process
    cancelling, \* tasks a cancel request has read as pending or queued
    sched,      \* rows of ai_schedule_definitions
    lastRun,    \* the latest of ai_schedule_executions, per schedule
    tick,       \* the scheduler of each process
    now,
    tfaults,
    \* history: tasks two workers had in hand, tasks whose worker died, cancels written
    \* while a worker was writing, executions too soon, schedules two processes
    \* had listed
    shared, orphaned, overruled, hurried, doubled

taskHist == <<shared, orphaned, overruled>>
schedHist == <<hurried, doubled>>
aiVars == <<task, work, cancelling, sched, lastRun, tick, now, tfaults, taskHist, schedHist>>

Resting  == [pc |-> "poll", task |-> NoTask, count |-> 0]
Ticking0 == [pc |-> "sleep", at |-> 0, todo |-> {}, cur |-> NoTask]
Never    == -1

TaskInit ==
    /\ task = [k \in Task |-> [status |-> "none", prio |-> 0, count |-> 0]]
    /\ work = [r \in Runner |-> Resting]
    /\ cancelling = {}
    /\ sched = [s \in Schedule |-> [kind |-> "none", active |-> FALSE, runAt |-> 0]]
    /\ lastRun = [s \in Schedule |-> Never]
    /\ tick = [r \in Runner |-> Ticking0]
    /\ now = 0 /\ tfaults = 0
    /\ shared = {} /\ orphaned = {} /\ overruled = {}
    /\ hurried = {} /\ doubled = {}

InStatus(k, S) == task[k].status \in S
SetStatus(k, st) == task' = [task EXCEPT ![k].status = st]

-----------------------------------------------------------------------------
(* Requests on tasks: create_task, execute_workflow, cancel_task.          *)

Enqueue(k, p) == /\ InStatus(k, {"none"})
                 /\ task' = [task EXCEPT ![k] = [status |-> "pending", prio |-> p, count |-> 0]]

CreateTask(k) ==
    /\ \E p \in {0, 1} : Enqueue(k, p)
    /\ UNCHANGED <<work, cancelling, sched, lastRun, tick, now, tfaults, taskHist, schedHist>>

CancelReadTask(k) ==
    /\ InStatus(k, {"pending", "queued"}) /\ k \notin cancelling
    /\ cancelling' = cancelling \cup {k}
    /\ UNCHANGED <<task, work, sched, lastRun, tick, now, tfaults, taskHist, schedHist>>

Writers(k) == {r \in Runner : work[r].task = k /\ work[r].pc \in {"picked", "claiming", "running"}}

CancelWriteTask(k) ==
    /\ k \in cancelling
    /\ SetStatus(k, "cancelled")
    /\ cancelling' = cancelling \ {k}
    /\ overruled' = IF Writers(k) # {} THEN overruled \cup {k} ELSE overruled
    /\ UNCHANGED <<work, sched, lastRun, tick, now, tfaults, shared, orphaned, schedHist>>

-----------------------------------------------------------------------------
(* The worker: _worker_loop, dequeue, claim, _process_task, retry.         *)

Pending == {k \in Task : InStatus(k, {"pending"})}
Highest == {k \in Pending : \A j \in Pending : task[j].prio <= task[k].prio}

(* dequeue reads a task of the highest priority ... *)
Pick(r) ==
    /\ work[r].pc = "poll"
    /\ \E k \in Highest :
          /\ work' = [work EXCEPT ![r] = [Resting EXCEPT !.pc = "picked", !.task = k]]
          /\ shared' = IF \E q \in Runner \ {r} : work[q].task = k THEN shared \cup {k} ELSE shared
    /\ UNCHANGED <<task, cancelling, sched, lastRun, tick, now, tfaults, orphaned, overruled, schedHist>>

(* ... and writes it queued, whatever it is by now. *)
MarkQueued(r) ==
    /\ work[r].pc = "picked"
    /\ SetStatus(work[r].task, "queued")
    /\ work' = [work EXCEPT ![r].pc = "queued"]
    /\ UNCHANGED <<cancelling, sched, lastRun, tick, now, tfaults, taskHist, schedHist>>

(* Mutant: the status is not looked at. *)
ClaimableAlways(k) == TRUE
ClaimableTask(k) == InStatus(k, {"queued"})

(* claim reads it queued, or gives up; then writes it running. *)
ClaimTask(r) ==
    /\ work[r].pc = "queued"
    /\ work' = [work EXCEPT ![r] = IF ClaimableTask(work[r].task)
                                  THEN [@ EXCEPT !.pc = "claiming"] ELSE Resting]
    /\ UNCHANGED <<task, cancelling, sched, lastRun, tick, now, tfaults, taskHist, schedHist>>

(* started_at has no zone and is given one: where that is refused the      *)
(* commit raises, outside of the worker's try, and the row stays queued.   *)
MarkRunning(r) ==
    /\ work[r].pc = "claiming"
    /\ LET k == work[r].task IN
       \/ /\ ZoneTaken
          /\ SetStatus(k, "running")
          /\ work' = [work EXCEPT ![r].pc = "running", ![r].count = task[k].count]
       \/ /\ ZoneRefused
          /\ work' = [work EXCEPT ![r] = Resting]
          /\ UNCHANGED task
    /\ UNCHANGED <<cancelling, sched, lastRun, tick, now, tfaults, taskHist, schedHist>>

(* Mutant: the try is not counted. *)
UncountedTry(k, n) == [task[k] EXCEPT !.status = IF n >= MaxTries THEN "failed" ELSE "pending"]
(* retry, with the count read by claim. *)
Retried(k, n) == IF n >= MaxTries THEN [task[k] EXCEPT !.status = "failed"]
                 ELSE [task[k] EXCEPT !.status = "pending", !.count = n + 1]

(* There is no handler: the attempt raises. *)
AttemptFails(r) ==
    /\ work[r].pc = "running"
    /\ LET k == work[r].task IN task' = [task EXCEPT ![k] = Retried(k, work[r].count)]
    /\ work' = [work EXCEPT ![r] = Resting]
    /\ UNCHANGED <<cancelling, sched, lastRun, tick, now, tfaults, taskHist, schedHist>>

(* The process dies and is started again: nothing takes up its task.       *)
RunnerDies(r) ==
    /\ tfaults < TaskFaults /\ tfaults' = tfaults + 1
    /\ work[r] # Resting \/ tick[r] # Ticking0
    /\ work' = [work EXCEPT ![r] = Resting]
    /\ tick' = [tick EXCEPT ![r] = Ticking0]
    /\ orphaned' = orphaned \cup ({work[r].task} \ {NoTask})
    /\ UNCHANGED <<task, cancelling, sched, lastRun, now, shared, overruled, schedHist>>

-----------------------------------------------------------------------------
(* The scheduler: create, update and delete_schedule, tick.                *)

CreateSchedule(s) ==
    /\ sched[s].kind = "none"
    /\ \E kind \in {"once", "interval"}, t \in {now, now + 1} :
          sched' = [sched EXCEPT ![s] = [kind |-> kind, active |-> TRUE, runAt |-> t]]
    /\ UNCHANGED <<task, work, cancelling, lastRun, tick, now, tfaults, taskHist, schedHist>>

(* update_schedule may turn it off or on again; deleting it ends it too.   *)
SwitchSchedule(s) ==
    /\ sched[s].kind # "none"
    /\ sched' = [sched EXCEPT ![s].active = ~@]
    /\ UNCHANGED <<task, work, cancelling, lastRun, tick, now, tfaults, taskHist, schedHist>>

(* tick lists the active schedules and notes the time. *)
StartTick(r) ==
    /\ tick[r].pc = "sleep"
    /\ LET listed == {s \in Schedule : sched[s].active} IN
       /\ listed # {}
       /\ tick' = [tick EXCEPT ![r] = [Ticking0 EXCEPT !.pc = "list", !.at = now, !.todo = listed]]
       /\ doubled' = doubled \cup {s \in listed : \E q \in Runner \ {r} : s \in tick[q].todo}
    /\ UNCHANGED <<task, work, cancelling, sched, lastRun, now, tfaults, taskHist, hurried>>

(* Mutant: the last execution is not looked at. *)
DueAtOnce(s, t) == sched[s].kind = "interval" \/ sched[s].runAt <= t
(* current_executions of a "once" schedule is 0 in the database for ever.  *)
DueSchedule(s, t) ==
    \/ sched[s].kind = "once" /\ sched[s].runAt <= t
    \/ sched[s].kind = "interval" /\ (lastRun[s] = Never \/ t - lastRun[s] >= Interval)

(* On to the next of the list. *)
AfterSchedule(r, s) ==
    IF tick[r].todo = {s} THEN Ticking0
    ELSE [tick[r] EXCEPT !.pc = "list", !.todo = @ \ {s}, !.cur = NoTask]

(* Each of the schedules is looked at ... *)
LookSchedule(r, s) ==
    /\ tick[r].pc = "list" /\ s \in tick[r].todo
    /\ tick' = [tick EXCEPT ![r] = IF DueSchedule(s, tick[r].at)
                                   THEN [@ EXCEPT !.pc = "fire", !.cur = s]
                                   ELSE AfterSchedule(r, s)]
    /\ UNCHANGED <<task, work, cancelling, sched, lastRun, now, tfaults, taskHist, schedHist>>

(* ... and execute_schedule records its execution and enqueues a task, or  *)
(* publishes an event.  triggered_at has no zone and is given one: where   *)
(* that is refused the record raises first, and the tick goes on.          *)
RecordExecution(s) ==
    /\ lastRun' = [lastRun EXCEPT ![s] = now]
    /\ hurried' = IF sched[s].kind = "interval" /\ lastRun[s] # Never /\ now - lastRun[s] < Interval
                  THEN hurried \cup {s} ELSE hurried
    /\ \/ \E k \in Task : Enqueue(k, 0)
       \/ UNCHANGED task    \* event_emit, or the bound

ExecuteSchedule(r) ==
    LET s == tick[r].cur IN
    /\ tick[r].pc = "fire"
    /\ tick' = [tick EXCEPT ![r] = AfterSchedule(r, s)]
    /\ \/ ZoneTaken /\ RecordExecution(s)
       \/ ZoneRefused /\ UNCHANGED <<lastRun, hurried, task>>
    /\ UNCHANGED <<work, cancelling, sched, now, tfaults, taskHist, doubled>>

PassTime ==
    /\ now < MaxNow /\ now' = now + 1
    /\ UNCHANGED <<task, work, cancelling, sched, lastRun, tick, tfaults, taskHist, schedHist>>

-----------------------------------------------------------------------------
WorkStep(r) == Pick(r) \/ MarkQueued(r) \/ ClaimTask(r) \/ MarkRunning(r) \/ AttemptFails(r)

TaskNext ==
    \/ \E k \in Task : CreateTask(k) \/ CancelReadTask(k) \/ CancelWriteTask(k)
    \/ \E r \in Runner : WorkStep(r) \/ RunnerDies(r) \/ StartTick(r)
    \/ \E s \in Schedule : CreateSchedule(s) \/ SwitchSchedule(s)
    \/ \E r \in Runner : ExecuteSchedule(r) \/ \E s \in Schedule : LookSchedule(r, s)
    \/ PassTime

TaskSpec == TaskInit /\ [][TaskNext]_aiVars

(* The worker polls for ever. *)
TaskFairness == \A r \in Runner : WF_aiVars(WorkStep(r))

-----------------------------------------------------------------------------
(* Correctness.                                                            *)

(* Every variable has its type. *)
TaskTypeOK ==
    /\ task \in [Task -> [status : {"none", "pending", "queued", "running", "failed", "cancelled"},
                          prio : {0, 1}, count : 0 .. MaxTries]]
    /\ work \in [Runner -> [pc : {"poll", "picked", "queued", "claiming", "running"},
                            task : Task \cup {NoTask}, count : 0 .. MaxTries]]
    /\ cancelling \subseteq Task
    /\ sched \in [Schedule -> [kind : {"none", "once", "interval"}, active : BOOLEAN,
                               runAt : 0 .. MaxNow + 1]]
    /\ lastRun \in [Schedule -> Never .. MaxNow]
    /\ tick \in [Runner -> [pc : {"sleep", "list", "fire"}, at : 0 .. MaxNow,
                          todo : SUBSET Schedule, cur : Schedule \cup {NoTask}]]
    /\ now \in 0 .. MaxNow /\ tfaults \in 0 .. TaskFaults
    /\ shared \subseteq Task /\ orphaned \subseteq Task /\ overruled \subseteq Task
    /\ hurried \subseteq Schedule /\ doubled \subseteq Schedule

(* A cancelled task stays cancelled, so that no attempt of it begins,      *)
(* unless the cancel landed while a worker was between reading and writing *)
(* it.                                                                     *)
CancelSticks ==
    [][\A k \in Task : InStatus(k, {"cancelled"}) /\ k \notin overruled =>
           task'[k].status = "cancelled"]_aiVars

(* A pending task does not go round for ever, though higher priorities     *)
(* pass it and every attempt of it raises: in the end it has failed, is    *)
(* cancelled, or is left queued by a claim that raised, where nothing      *)
(* takes it up; unless its worker died with it, or two had it in hand.     *)
TaskEnds ==
    \A k \in Task : InStatus(k, {"pending"}) ~>
        \/ InStatus(k, {"failed", "cancelled"}) \/ k \in orphaned \cup shared \cup overruled
        \/ InStatus(k, {"queued"}) /\ \A r \in Runner : work[r].task # k

(* Two executions of a schedule are its interval apart, though the time is *)
(* noted before the schedules are gone through and the last execution is   *)
(* read before the next is written, unless two processes had it listed at  *)
(* once.                                                                   *)
IntervalKept == hurried \subseteq doubled
=============================================================================
