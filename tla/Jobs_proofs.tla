------------------------------ MODULE Jobs_proofs ------------------------------
(***************************************************************************)
(* Proofs about SingletonLock, AiTasks and JoinQueue: for every number of  *)
(* workers, tasks, links, accounts, processes and requests, every time to  *)
(* live and every limit.                                                   *)
(***************************************************************************)
EXTENDS SingletonLock, JoinQueue, AiTasks, FiniteSums_proofs, FiniteSetTheorems, WellFoundedInduction,
        TLAPS

-----------------------------------------------------------------------------
(* The lock that picks a scheduler.                                        *)

(* What keeps a second worker out: while nothing has gone wrong, a running *)
(* scheduler holds the key, renews it, and does so before it expires.      *)
Guarded(p) == renewing[p] /\ holder = p /\ timer[p] < left

LockInv ==
    ~troubled => redis /\ \A p \in Proc : role[p] = "running" => Guarded(p)

(* The renewal interval is positive and shorter than the time to live, so  *)
(* a renewal that is on time comes before the key expires                  *)
(* (max(1, ttl // 3) in _start_singleton_lock_renewal).                    *)
LEMMA RenewsInTime == RenewInterval \in Nat /\ 0 < RenewInterval /\ RenewInterval < TTL
BY LockAssumption DEF LockAssumption, RenewInterval

(* The part of TypeOK that is about flags, and the rest.                   *)
FlagsOK == redis \in BOOLEAN /\ troubled \in BOOLEAN

TimesOK ==
    /\ role \in [Proc -> {"down", "skipped", "running"}]
    /\ renewing \in [Proc -> BOOLEAN]
    /\ timer \in [Proc -> 0 .. RenewInterval]
    /\ holder \in Proc \cup {None}
    /\ left \in 0 .. TTL

LEMMA FlagsTyped == FlagsOK /\ [Next]_vars => FlagsOK'
BY Zenon DEF FlagsOK, Next, vars, Start, Win, Lose, StartUnguarded, Renew, Stop, Tick,
             Outage, Recovery

LEMMA TimesTyped == TimesOK /\ [Next]_vars => TimesOK'
<1> SUFFICES ASSUME TimesOK, [Next]_vars PROVE TimesOK'
  OBVIOUS
<1> USE LockAssumption, RenewsInTime DEF LockAssumption, TimesOK
<1>1. ASSUME NEW p \in Proc, Start(p) PROVE TimesOK'
  <2>1. CASE Win(p)
    BY <2>1 DEF Win, SetIfAbsent
  <2>2. CASE Lose(p)
    BY <2>2 DEF Lose
  <2>3. CASE StartUnguarded(p)
    BY <2>3 DEF StartUnguarded
  <2> QED
    BY <1>1, <2>1, <2>2, <2>3 DEF Start
<1>2. ASSUME NEW p \in Proc, Renew(p) PROVE TimesOK'
  BY <1>2 DEF Renew, RenewedTime
<1>3. ASSUME NEW p \in Proc, Stop(p) PROVE TimesOK'
  BY <1>3 DEF Stop
<1>4. CASE Tick
  BY <1>4 DEF Tick
<1>5. CASE Outage
  BY <1>5 DEF Outage
<1>6. CASE Recovery
  BY <1>6 DEF Recovery
<1>7. CASE UNCHANGED vars
  BY <1>7 DEF vars
<1> QED
  BY <1>1, <1>2, <1>3, <1>4, <1>5, <1>6, <1>7 DEF Next

(* Every variable keeps its type: in particular the key's time to live     *)
(* never exceeds TTL and no timer exceeds the renewal interval.            *)
THEOREM LockTyped == Spec => []TypeOK
<1>1. TypeOK <=> FlagsOK /\ TimesOK
  BY Zenon DEF TypeOK, FlagsOK, TimesOK
<1>2. Init => FlagsOK
  BY DEF Init, FlagsOK
<1>3. Init => TimesOK
  BY LockAssumption, RenewsInTime DEF Init, TimesOK, LockAssumption
<1> QED
  BY <1>1, <1>2, <1>3, FlagsTyped, TimesTyped, PTL DEF Spec

(* While nothing has gone wrong every running scheduler is guarded.  Two   *)
(* holders of one key are one worker, so the mutual exclusion follows.     *)
LEMMA LockInvHolds == Spec => []LockInv
<1> USE LockAssumption, RenewsInTime DEF LockAssumption
<1>1. Init => LockInv
  BY DEF Init, LockInv
<1>2. LockInv /\ TypeOK /\ [Next]_vars => LockInv'
  <2> SUFFICES ASSUME LockInv, TypeOK, [Next]_vars, ~troubled'
               PROVE  redis' /\ \A q \in Proc : role'[q] = "running" => Guarded(q)'
    BY DEF LockInv
  <2> USE DEF LockInv, TimesOK, Guarded
  <2> TimesOK
    BY DEF TypeOK
  <2>0. ~troubled
    BY DEF Next, Start, Win, Lose, StartUnguarded, Renew, Stop, Tick, Outage, Recovery, vars
  <2>1. ASSUME NEW p \in Proc, Start(p)
        PROVE  redis' /\ \A q \in Proc : role'[q] = "running" => Guarded(q)'
    <3>1. CASE Win(p)
      <4>1. \A q \in Proc : role[q] # "running"
        BY <2>0, <3>1 DEF Win, SetIfAbsent
      <4> QED
        BY <2>0, <3>1, <4>1 DEF Win, SetIfAbsent
    <3>2. CASE Lose(p)
      BY <2>0, <3>2 DEF Lose
    <3>3. CASE StartUnguarded(p)
      BY <2>0, <3>3 DEF StartUnguarded
    <3> QED
      BY <2>1, <3>1, <3>2, <3>3 DEF Start
  <2>2. ASSUME NEW p \in Proc, Renew(p)
        PROVE  redis' /\ \A q \in Proc : role'[q] = "running" => Guarded(q)'
    BY <2>0, <2>2 DEF Renew, RenewalDue, RenewedTime
  <2>3. ASSUME NEW p \in Proc, Stop(p)
        PROVE  redis' /\ \A q \in Proc : role'[q] = "running" => Guarded(q)'
    BY <2>0, <2>3 DEF Stop
  <2>4. CASE Tick
    <3>1. \A p \in Proc : renewing[p] => timer[p] > 0
      BY <2>4 DEF Tick
    <3>2. SUFFICES ASSUME NEW q \in Proc, role'[q] = "running" PROVE Guarded(q)'
      BY <2>0, <2>4 DEF Tick
    <3>3. Guarded(q) /\ timer[q] > 0 /\ left > 1
      BY <2>0, <2>4, <3>1, <3>2 DEF Tick
    <3> QED
      BY <2>4, <3>3 DEF Tick
  <2>5. CASE Outage \/ Recovery
    BY <2>0, <2>5 DEF Outage, Recovery
  <2>6. CASE UNCHANGED vars
    BY <2>0, <2>6 DEF vars
  <2> QED
    BY <2>1, <2>2, <2>3, <2>4, <2>5, <2>6 DEF Next
<1> QED
  BY <1>1, <1>2, LockTyped, PTL DEF Spec

(* As long as Redis answers and renewals are on time, at most one worker   *)
(* runs the scheduler, whatever the number of workers and restarts         *)
(* (app/main.py starts the scheduler only when acquire_singleton_lock      *)
(* returned True).                                                         *)
THEOREM OneScheduler == Spec => []AtMostOneScheduler
<1>1. LockInv => AtMostOneScheduler
  BY DEF LockInv, AtMostOneScheduler, Guarded
<1> QED
  BY <1>1, LockInvHolds, PTL

-----------------------------------------------------------------------------
(* The AI platform's tasks and schedules: types.                           *)

TaskRow  == [status : {"none", "pending", "queued", "running", "failed", "cancelled"},
             prio : {0, 1}, count : 0 .. MaxTries]
WorkRow  == [pc : {"poll", "picked", "queued", "claiming", "running"},
             task : Task \cup {NoTask}, count : 0 .. MaxTries]
SchedRow == [kind : {"none", "once", "interval"}, active : BOOLEAN, runAt : 0 .. MaxNow + 1]
TickRow  == [pc : {"sleep", "list", "fire"}, at : 0 .. MaxNow, todo : SUBSET Schedule,
             cur : Schedule \cup {NoTask}]

(* A worker that does not poll has a task; a scheduler that fires has a    *)
(* schedule.                                                               *)
TasksTyped ==
    /\ task \in [Task -> TaskRow] /\ work \in [Runner -> WorkRow]
    /\ cancelling \subseteq Task
    /\ sched \in [Schedule -> SchedRow] /\ lastRun \in [Schedule -> Never .. MaxNow]
    /\ tick \in [Runner -> TickRow]
    /\ now \in 0 .. MaxNow /\ tfaults \in 0 .. TaskFaults
    /\ shared \subseteq Task /\ orphaned \subseteq Task /\ overruled \subseteq Task
    /\ hurried \subseteq Schedule /\ doubled \subseteq Schedule
    /\ \A r \in Runner : /\ work[r].pc # "poll" => work[r].task \in Task
                         /\ tick[r].pc = "fire" => tick[r].cur \in Schedule

LEMMA RestingTyped ==
    /\ Resting \in WorkRow /\ Resting.pc = "poll" /\ Resting.task = NoTask
    /\ Ticking0 \in TickRow /\ Ticking0.pc = "sleep" /\ Ticking0.todo = {}
BY TaskAssumption DEF TaskAssumption, Resting, Ticking0, WorkRow, TickRow

(* The worker of a process takes a step. *)
LEMMA WorkStepTyped ==
    ASSUME TasksTyped, NEW r \in Runner, WorkStep(r)
    PROVE  TasksTyped'
<1> USE TaskAssumption DEF TaskAssumption
<1>1. ASSUME NEW k \in Task, NEW row \in TaskRow, task' = [task EXCEPT ![k] = row] \/ task' = task,
             NEW w \in WorkRow, w.pc # "poll" => w.task \in Task, work' = [work EXCEPT ![r] = w],
             shared' \subseteq Task,
             UNCHANGED <<cancelling, sched, lastRun, tick, now, tfaults, orphaned, overruled, schedHist>>
      PROVE  TasksTyped'
  BY <1>1 DEF TasksTyped, schedHist
<1>2. CASE Pick(r)
  <2>1. PICK k \in Highest : /\ work' = [work EXCEPT ![r] = [Resting EXCEPT !.pc = "picked", !.task = k]]
                             /\ shared' \subseteq shared \cup {k}
    BY <1>2 DEF Pick
  <2>2. k \in Task
    BY DEF Highest, Pending
  <2> DEFINE w == [Resting EXCEPT !.pc = "picked", !.task = k]
  <2>3. w \in WorkRow /\ w.task \in Task
    BY <2>2, RestingTyped DEF WorkRow
  <2> HIDE DEF w
  <2>4. task[k] \in TaskRow /\ shared' \subseteq Task
    BY <2>1, <2>2 DEF TasksTyped
  <2>5. UNCHANGED <<task, cancelling, sched, lastRun, tick, now, tfaults, orphaned, overruled, schedHist>>
    BY <1>2 DEF Pick
  <2> QED
    BY <1>1, <2>1, <2>2, <2>3, <2>4, <2>5 DEF w
<1> DEFINE k == work[r].task
<1>3. CASE MarkQueued(r)
  <2>1. k \in Task /\ [task[k] EXCEPT !.status = "queued"] \in TaskRow
    BY <1>3 DEF MarkQueued, TasksTyped, TaskRow
  <2>2. [work[r] EXCEPT !.pc = "queued"] \in WorkRow /\ [work[r] EXCEPT !.pc = "queued"].task = k
    BY DEF TasksTyped, WorkRow
  <2>3. /\ task' = [task EXCEPT ![k] = [task[k] EXCEPT !.status = "queued"]]
        /\ work' = [work EXCEPT ![r] = [work[r] EXCEPT !.pc = "queued"]]
        /\ UNCHANGED <<cancelling, sched, lastRun, tick, now, tfaults, shared, orphaned, overruled, schedHist>>
    BY <1>3 DEF MarkQueued, SetStatus, taskHist
  <2> QED
    BY <1>1, <2>1, <2>2, <2>3 DEF TasksTyped
<1>4. CASE ClaimTask(r)
  <2>1. k \in Task /\ task[k] \in TaskRow
    BY <1>4 DEF ClaimTask, TasksTyped
  <2>2. [work[r] EXCEPT !.pc = "claiming"] \in WorkRow /\ [work[r] EXCEPT !.pc = "claiming"].task = k
    BY DEF TasksTyped, WorkRow
  <2>3. /\ \/ work' = [work EXCEPT ![r] = [work[r] EXCEPT !.pc = "claiming"]]
           \/ work' = [work EXCEPT ![r] = Resting]
        /\ UNCHANGED <<task, cancelling, sched, lastRun, tick, now, tfaults, shared, orphaned, overruled, schedHist>>
    BY <1>4 DEF ClaimTask, taskHist
  <2> QED
    BY <1>1, <2>1, <2>2, <2>3, RestingTyped DEF TasksTyped
<1>5. CASE MarkRunning(r)
  <2> DEFINE w == [work[r] EXCEPT !.pc = "running", !.count = task[k].count]
             Rest == UNCHANGED <<cancelling, sched, lastRun, tick, now, tfaults, shared, orphaned, overruled, schedHist>>
             RefusedClaim == work' = [work EXCEPT ![r] = Resting] /\ UNCHANGED task /\ Rest
             TakenClaim == /\ task' = [task EXCEPT ![k] = [task[k] EXCEPT !.status = "running"]]
                           /\ work' = [work EXCEPT ![r] = w]
                           /\ Rest
  <2>1. k \in Task /\ [task[k] EXCEPT !.status = "running"] \in TaskRow
    BY <1>5 DEF MarkRunning, TasksTyped, TaskRow
  <2>0. RefusedClaim \/ TakenClaim
    BY <1>5 DEF MarkRunning, SetStatus, taskHist
  <2>2. w \in WorkRow /\ w.task = k
    <3>1. work[r] \in WorkRow /\ task[k].count \in 0 .. MaxTries
      BY <2>1 DEF TasksTyped, TaskRow
    <3> QED
      BY <3>1 DEF WorkRow
  <2> HIDE DEF w
  <2>3. CASE RefusedClaim
    BY <1>1, <2>1, <2>3, RestingTyped DEF TasksTyped
  <2>4. CASE TakenClaim
    BY <1>1, <2>1, <2>2, <2>4 DEF TasksTyped
  <2> QED
    BY <2>0, <2>3, <2>4
<1>6. CASE AttemptFails(r)
  <2> DEFINE n == work[r].count
  <2>1. k \in Task /\ task[k] \in TaskRow /\ n \in 0 .. MaxTries
    BY <1>6 DEF AttemptFails, TasksTyped, WorkRow
  <2>2. n >= MaxTries \/ n + 1 \in 0 .. MaxTries
    BY <2>1
  <2>3. Retried(k, n) \in TaskRow
    BY <2>1, <2>2 DEF Retried, TaskRow
  <2>4. /\ task' = [task EXCEPT ![k] = Retried(k, n)] /\ work' = [work EXCEPT ![r] = Resting]
        /\ UNCHANGED <<cancelling, sched, lastRun, tick, now, tfaults, shared, orphaned, overruled, schedHist>>
    BY <1>6 DEF AttemptFails, taskHist
  <2> QED
    BY <1>1, <2>1, <2>3, <2>4, RestingTyped DEF TasksTyped
<1> QED
  BY <1>2, <1>3, <1>4, <1>5, <1>6 DEF WorkStep

(* A request about a task, or the end of a process. *)
LEMMA TaskRequestTyped ==
    ASSUME TasksTyped,
           \/ \E k \in Task : CreateTask(k) \/ CancelReadTask(k) \/ CancelWriteTask(k)
           \/ \E r \in Runner : RunnerDies(r)
    PROVE  TasksTyped'
<1> USE TaskAssumption DEF TaskAssumption
<1>1. ASSUME NEW k \in Task, CreateTask(k) PROVE TasksTyped'
  <2>1. PICK p \in {0, 1} : task' = [task EXCEPT ![k] = [status |-> "pending", prio |-> p, count |-> 0]]
    BY <1>1 DEF CreateTask, Enqueue
  <2>2. [status |-> "pending", prio |-> p, count |-> 0] \in TaskRow
    BY DEF TaskRow
  <2> QED
    BY <1>1, <2>1, <2>2 DEF CreateTask, TasksTyped, taskHist, schedHist
<1>2. ASSUME NEW k \in Task, CancelReadTask(k) PROVE TasksTyped'
  BY <1>2 DEF CancelReadTask, TasksTyped, taskHist, schedHist
<1>3. ASSUME NEW k \in Task, CancelWriteTask(k) PROVE TasksTyped'
  <2>1. [task[k] EXCEPT !.status = "cancelled"] \in TaskRow
    BY DEF TasksTyped, TaskRow
  <2>2. task' = [task EXCEPT ![k] = [task[k] EXCEPT !.status = "cancelled"]] /\ overruled' \subseteq Task
    BY <1>3 DEF CancelWriteTask, SetStatus, TasksTyped
  <2> QED
    BY <1>3, <2>1, <2>2 DEF CancelWriteTask, TasksTyped, schedHist
<1>4. ASSUME NEW r \in Runner, RunnerDies(r) PROVE TasksTyped'
  <2>1. orphaned' \subseteq Task
    BY <1>4 DEF RunnerDies, TasksTyped, WorkRow
  <2>2. tfaults' \in 0 .. TaskFaults
    BY <1>4 DEF RunnerDies, TasksTyped
  <2>3. /\ work' = [work EXCEPT ![r] = Resting] /\ tick' = [tick EXCEPT ![r] = Ticking0]
        /\ UNCHANGED <<task, cancelling, sched, lastRun, now, shared, overruled, schedHist>>
    BY <1>4 DEF RunnerDies
  <2> QED
    BY <2>1, <2>2, <2>3, RestingTyped DEF TasksTyped, schedHist
<1> QED
  BY <1>1, <1>2, <1>3, <1>4

LEMMA AfterScheduleTyped ==
    ASSUME TasksTyped, NEW r \in Runner, NEW s \in Schedule
    PROVE  LET t == AfterSchedule(r, s) IN
           /\ t \in TickRow /\ t.pc \in {"sleep", "list"} /\ t.todo \subseteq tick[r].todo
           /\ t.pc = "list" => t.at = tick[r].at
<1>1. tick[r] \in TickRow
  BY DEF TasksTyped
<1> DEFINE t == [tick[r] EXCEPT !.pc = "list", !.todo = tick[r].todo \ {s}, !.cur = NoTask]
<1>2. t \in TickRow /\ t.pc = "list" /\ t.todo \subseteq tick[r].todo /\ t.at = tick[r].at
  BY <1>1 DEF TickRow
<1>3. AfterSchedule(r, s) = Ticking0 \/ AfterSchedule(r, s) = t
  BY Zenon DEF AfterSchedule
<1> QED
  BY <1>2, <1>3, RestingTyped

(* A step about schedules. *)
LEMMA ScheduleStepTyped ==
    ASSUME TasksTyped,
           \/ \E s \in Schedule : CreateSchedule(s) \/ SwitchSchedule(s)
           \/ \E r \in Runner : StartTick(r) \/ ExecuteSchedule(r) \/ \E s \in Schedule : LookSchedule(r, s)
           \/ PassTime
    PROVE  TasksTyped'
<1> USE TaskAssumption DEF TaskAssumption
<1>1. ASSUME NEW s \in Schedule, CreateSchedule(s) PROVE TasksTyped'
  <2>1. PICK kind \in {"once", "interval"}, t \in {now, now + 1} :
           sched' = [sched EXCEPT ![s] = [kind |-> kind, active |-> TRUE, runAt |-> t]]
    BY <1>1 DEF CreateSchedule
  <2>2. t \in 0 .. MaxNow + 1
    BY DEF TasksTyped
  <2>3. [kind |-> kind, active |-> TRUE, runAt |-> t] \in SchedRow
    BY <2>2 DEF SchedRow
  <2> QED
    BY <1>1, <2>1, <2>3 DEF CreateSchedule, TasksTyped, taskHist, schedHist
<1>2. ASSUME NEW s \in Schedule, SwitchSchedule(s) PROVE TasksTyped'
  <2>1. [sched[s] EXCEPT !.active = ~sched[s].active] \in SchedRow
    BY DEF TasksTyped, SchedRow
  <2>2. sched' = [sched EXCEPT ![s] = [sched[s] EXCEPT !.active = ~sched[s].active]]
    BY <1>2 DEF SwitchSchedule
  <2> QED
    BY <1>2, <2>1, <2>2 DEF SwitchSchedule, TasksTyped, taskHist, schedHist
<1>3. CASE PassTime
  BY <1>3 DEF PassTime, TasksTyped, taskHist, schedHist
<1>4. ASSUME NEW r \in Runner, NEW t \in TickRow, tick' = [tick EXCEPT ![r] = t],
             t.pc = "fire" => t.cur \in Schedule,
             lastRun' \in [Schedule -> Never .. MaxNow], task' \in [Task -> TaskRow],
             hurried' \subseteq Schedule, doubled' \subseteq Schedule,
             UNCHANGED <<work, cancelling, sched, now, tfaults, taskHist>>
      PROVE  TasksTyped'
  BY <1>4 DEF TasksTyped, taskHist
<1>5. ASSUME NEW r \in Runner, StartTick(r) PROVE TasksTyped'
  <2> DEFINE listed == {s \in Schedule : sched[s].active}
             t == [Ticking0 EXCEPT !.pc = "list", !.at = now, !.todo = listed]
  <2>1. t \in TickRow /\ t.pc = "list"
    BY RestingTyped DEF TickRow, TasksTyped
  <2>2. tick' = [tick EXCEPT ![r] = t] /\ doubled' \subseteq Schedule
    BY <1>5 DEF StartTick, TasksTyped
  <2> HIDE DEF t
  <2> QED
    BY <1>4, <1>5, <2>1, <2>2 DEF StartTick, TasksTyped, taskHist
<1>6. ASSUME NEW r \in Runner, NEW s \in Schedule, LookSchedule(r, s) PROVE TasksTyped'
  <2>1. tick[r] \in TickRow
    BY DEF TasksTyped
  <2>2. /\ [tick[r] EXCEPT !.pc = "fire", !.cur = s] \in TickRow
        /\ [tick[r] EXCEPT !.pc = "fire", !.cur = s].cur = s
    BY <2>1 DEF TickRow
  <2>3. /\ \/ tick' = [tick EXCEPT ![r] = [tick[r] EXCEPT !.pc = "fire", !.cur = s]]
           \/ tick' = [tick EXCEPT ![r] = AfterSchedule(r, s)]
        /\ UNCHANGED <<task, work, cancelling, sched, lastRun, now, tfaults, taskHist, schedHist>>
    BY <1>6 DEF LookSchedule
  <2>4. /\ lastRun' \in [Schedule -> Never .. MaxNow] /\ task' \in [Task -> TaskRow]
        /\ hurried' \subseteq Schedule /\ doubled' \subseteq Schedule
    BY <2>3 DEF TasksTyped, schedHist
  <2> QED
    BY <1>4, <2>2, <2>3, <2>4, AfterScheduleTyped
<1>7. ASSUME NEW r \in Runner, ExecuteSchedule(r) PROVE TasksTyped'
  <2> DEFINE s == tick[r].cur
  <2>1. s \in Schedule
    BY <1>7 DEF ExecuteSchedule, TasksTyped
  <2>2. hurried' \subseteq hurried \cup {s}
    BY <1>7 DEF ExecuteSchedule, RecordExecution
  <2>3. /\ tick' = [tick EXCEPT ![r] = AfterSchedule(r, s)]
        /\ UNCHANGED <<work, cancelling, sched, now, tfaults, taskHist, doubled>>
        /\ lastRun' = [lastRun EXCEPT ![s] = now] \/ UNCHANGED lastRun
        /\ (\E k \in Task : Enqueue(k, 0)) \/ UNCHANGED task
    BY <1>7 DEF ExecuteSchedule, RecordExecution
  <2>4. task' \in [Task -> TaskRow]
    <3>1. [status |-> "pending", prio |-> 0, count |-> 0] \in TaskRow
      BY DEF TaskRow
    <3> QED
      BY <2>3, <3>1 DEF Enqueue, TasksTyped
  <2>5. lastRun' \in [Schedule -> Never .. MaxNow]
    BY <2>1, <2>3 DEF TasksTyped, Never
  <2>6. hurried' \subseteq Schedule /\ doubled' \subseteq Schedule
    BY <2>1, <2>2, <2>3 DEF TasksTyped
  <2> QED
    BY <1>4, <2>1, <2>3, <2>4, <2>5, <2>6, AfterScheduleTyped
<1> QED
  BY <1>1, <1>2, <1>3, <1>5, <1>6, <1>7

LEMMA TaskStep == TasksTyped /\ [TaskNext]_aiVars => TasksTyped'
<1> SUFFICES ASSUME TasksTyped, [TaskNext]_aiVars PROVE TasksTyped'
  OBVIOUS
<1>1. CASE UNCHANGED aiVars
  BY <1>1 DEF aiVars, TasksTyped, taskHist, schedHist
<1>2. CASE TaskNext
  BY <1>2, WorkStepTyped, TaskRequestTyped, ScheduleStepTyped DEF TaskNext
<1> QED
  BY <1>1, <1>2

LEMMA TasksHold == TaskSpec => []TasksTyped
<1>1. TaskInit => TasksTyped
  BY TaskAssumption, RestingTyped
     DEF TaskAssumption, TaskInit, TasksTyped, TaskRow, SchedRow, Never
<1> QED
  BY <1>1, TaskStep, PTL DEF TaskSpec

(* Every variable of the task queue and of its scheduler has its type. *)
THEOREM TasksKeepType == TaskSpec => []TaskTypeOK
<1>1. TasksTyped => TaskTypeOK
  BY DEF TasksTyped, TaskTypeOK, TaskRow, WorkRow, SchedRow, TickRow
<1> QED
  BY <1>1, TasksHold, PTL

-----------------------------------------------------------------------------
(* A cancel that lands while nobody writes the task is final.              *)

(* Nobody is about to write a task that is cancelled. *)
CancelledAlone ==
    \A k \in Task : InStatus(k, {"cancelled"}) /\ k \notin overruled => Writers(k) = {}

LEMMA CancelStep ==
    CancelledAlone /\ TasksTyped /\ [TaskNext]_aiVars =>
        /\ CancelledAlone'
        /\ \A k \in Task : InStatus(k, {"cancelled"}) /\ k \notin overruled => task'[k].status = "cancelled"
<1> SUFFICES ASSUME CancelledAlone, TasksTyped, [TaskNext]_aiVars, NEW k \in Task
             PROVE  /\ task'[k].status = "cancelled" /\ k \notin overruled' => Writers(k)' = {}
                    /\ task[k].status = "cancelled" /\ k \notin overruled => task'[k].status = "cancelled"
  BY DEF CancelledAlone, InStatus
<1> DEFINE Keeps == /\ task'[k].status = "cancelled" /\ k \notin overruled' => Writers(k)' = {}
                    /\ task[k].status = "cancelled" /\ k \notin overruled => task'[k].status = "cancelled"
<1>0. task[k].status = "cancelled" /\ k \notin overruled => Writers(k) = {}
  BY DEF CancelledAlone, InStatus
<1>1. ASSUME task'[k] = task[k], overruled \subseteq overruled', Writers(k)' \subseteq Writers(k)
      PROVE  Keeps
  BY <1>0, <1>1
<1>2. ASSUME UNCHANGED <<overruled, work>>, task'[k] = task[k] PROVE Keeps
  BY <1>1, <1>2 DEF Writers
<1>3. ASSUME NEW r \in Runner, WorkStep(r) PROVE Keeps
  <2> DEFINE j == work[r].task
  <2>1. overruled' = overruled /\ \A q \in Runner : q # r => work'[q] = work[q]
    BY <1>3 DEF WorkStep, Pick, MarkQueued, ClaimTask, MarkRunning, AttemptFails, TasksTyped, taskHist
  <2>2. CASE Pick(r)
    <3>1. PICK i \in Highest : work' = [work EXCEPT ![r] = [Resting EXCEPT !.pc = "picked", !.task = i]]
      BY <2>2 DEF Pick
    <3>2. task' = task /\ task[i].status = "pending" /\ work'[r].task = i
      BY <2>2, <3>1 DEF Pick, Highest, Pending, InStatus, TasksTyped, Resting
    <3>3. task[k].status = "cancelled" => Writers(k)' \subseteq Writers(k)
      BY <2>1, <3>2 DEF Writers
    <3> QED
      BY <1>0, <2>1, <3>2, <3>3
  <2>3. CASE ClaimTask(r)
    <3>1. task' = task /\ work[r].pc = "queued"
      BY <2>3 DEF ClaimTask
    <3>2. \/ work'[r].task = j /\ task[j].status = "queued"
          \/ work'[r] = Resting
      BY <2>3 DEF ClaimTask, ClaimableTask, InStatus, TasksTyped, WorkRow
    <3>3. task[k].status = "cancelled" => Writers(k)' \subseteq Writers(k)
      BY <2>1, <3>2, RestingTyped DEF Writers
    <3> QED
      BY <1>0, <2>1, <3>1, <3>3
  <2>5. CASE MarkRunning(r) /\ work'[r] = Resting
    <3>1. task' = task
      BY <2>5 DEF MarkRunning, Resting, TasksTyped, WorkRow
    <3>2. Writers(k)' \subseteq Writers(k)
      BY <2>1, <2>5, RestingTyped DEF Writers
    <3> QED
      BY <1>1, <2>1, <3>1, <3>2
  <2>4. CASE MarkQueued(r) \/ (MarkRunning(r) /\ work'[r] # Resting) \/ AttemptFails(r)
    <3>1. r \in Writers(j) /\ j \in Task
      BY <2>4 DEF MarkQueued, MarkRunning, AttemptFails, Writers, TasksTyped
    <3>2. /\ \A i \in Task : i # j => task'[i] = task[i]
          /\ task'[j].status # "cancelled"
      <4>1. task[j] \in TaskRow /\ Retried(j, work[r].count).status \in {"failed", "pending"}
        BY <3>1 DEF TasksTyped, TaskRow, Retried
      <4>2. CASE MarkQueued(r) \/ (MarkRunning(r) /\ work'[r] # Resting)
        BY <3>1, <4>1, <4>2 DEF MarkQueued, MarkRunning, SetStatus, TasksTyped, TaskRow
      <4>3. CASE AttemptFails(r)
        BY <3>1, <4>1, <4>3 DEF AttemptFails, TasksTyped
      <4> QED
        BY <2>4, <4>2, <4>3
    <3>3. \/ work'[r].task = j
          \/ work'[r] = Resting
      BY <2>4 DEF MarkQueued, MarkRunning, AttemptFails, TasksTyped, WorkRow
    <3>4. k # j => Writers(k)' \subseteq Writers(k)
      BY <2>1, <3>3, RestingTyped DEF Writers
    <3> QED
      BY <1>0, <2>1, <3>1, <3>2, <3>4
  <2> QED
    BY <1>3, <2>2, <2>3, <2>4, <2>5 DEF WorkStep
<1>4. ASSUME NEW i \in Task, CancelWriteTask(i) PROVE Keeps
  <2>1. /\ UNCHANGED work /\ overruled \subseteq overruled'
        /\ task'[i].status = "cancelled" /\ \A h \in Task : h # i => task'[h] = task[h]
        /\ Writers(i) # {} => i \in overruled'
    BY <1>4 DEF CancelWriteTask, SetStatus, TasksTyped, TaskRow
  <2>2. Writers(k)' = Writers(k)
    BY <2>1 DEF Writers
  <2> QED
    BY <1>0, <2>1, <2>2
<1>5. ASSUME NEW i \in Task, CreateTask(i) PROVE Keeps
  <2>1. /\ UNCHANGED <<work, overruled>> /\ task[i].status = "none" /\ task'[i].status = "pending"
        /\ \A h \in Task : h # i => task'[h] = task[h]
    BY <1>5 DEF CreateTask, Enqueue, InStatus, taskHist, TasksTyped
  <2>2. Writers(k)' = Writers(k)
    BY <2>1 DEF Writers
  <2> QED
    BY <1>0, <2>1, <2>2
<1>6. ASSUME NEW r \in Runner, ExecuteSchedule(r) PROVE Keeps
  <2>1. UNCHANGED <<work, overruled>>
    BY <1>6 DEF ExecuteSchedule, taskHist
  <2>2. \/ task'[k] = task[k]
        \/ task[k].status = "none" /\ task'[k].status = "pending"
    BY <1>6 DEF ExecuteSchedule, RecordExecution, Enqueue, InStatus, TasksTyped
  <2>3. Writers(k)' = Writers(k)
    BY <2>1 DEF Writers
  <2> QED
    BY <1>0, <2>1, <2>2, <2>3
<1>7. ASSUME NEW r \in Runner, RunnerDies(r) PROVE Keeps
  <2>1. /\ UNCHANGED <<task, overruled>> /\ work'[r] = Resting
        /\ \A q \in Runner : q # r => work'[q] = work[q]
    BY <1>7 DEF RunnerDies, TasksTyped
  <2>2. Writers(k)' \subseteq Writers(k)
    BY <2>1, RestingTyped DEF Writers
  <2> QED
    BY <1>1, <2>1, <2>2
<1>8. CASE \/ UNCHANGED aiVars \/ PassTime
           \/ \E s \in Schedule : CreateSchedule(s) \/ SwitchSchedule(s)
           \/ \E r \in Runner : StartTick(r) \/ \E s \in Schedule : LookSchedule(r, s)
           \/ \E i \in Task : CancelReadTask(i)
  <2>1. UNCHANGED <<task, work, overruled>>
    BY <1>8 DEF aiVars, PassTime, CreateSchedule, SwitchSchedule, StartTick, LookSchedule, CancelReadTask, taskHist
  <2> QED
    BY <1>2, <2>1
<1> QED
  BY <1>3, <1>4, <1>5, <1>6, <1>7, <1>8 DEF TaskNext

(* A cancelled task stays cancelled, unless the cancel landed while a      *)
(* worker was between reading and writing it: workers only write what they *)
(* have picked, claimed or are running, and pick and claim only what is    *)
(* not cancelled.                                                          *)
THEOREM CancelIsKept == TaskSpec => CancelSticks
<1>1. TaskInit => CancelledAlone
  BY DEF TaskInit, CancelledAlone, InStatus
<1>2. CancelledAlone /\ TasksTyped /\ [TaskNext]_aiVars =>
         [\A k \in Task : InStatus(k, {"cancelled"}) /\ k \notin overruled =>
             task'[k].status = "cancelled"]_aiVars
  BY CancelStep
<1> QED
  BY <1>1, <1>2, CancelStep, TasksHold, PTL DEF TaskSpec, CancelSticks

-----------------------------------------------------------------------------
(* Executions are an interval apart.                                       *)

Lists(r, s) == s \in tick[r].todo

(* A schedule that only one process has listed is due when it is fired.    *)
FiredWhenDue ==
    /\ hurried \subseteq doubled
    /\ \A r \in Runner : tick[r].pc # "sleep" => tick[r].at <= now
    /\ \A r \in Runner : tick[r].pc = "fire" => Lists(r, tick[r].cur)
    /\ \A s \in Schedule : s \notin doubled =>
          /\ \A r, q \in Runner : Lists(r, s) /\ Lists(q, s) => r = q
          /\ \A r \in Runner : tick[r].pc = "fire" /\ tick[r].cur = s => DueSchedule(s, tick[r].at)

LEMMA IntervalStep == FiredWhenDue /\ TasksTyped /\ [TaskNext]_aiVars => FiredWhenDue'
<1> SUFFICES ASSUME FiredWhenDue, TasksTyped, [TaskNext]_aiVars PROVE FiredWhenDue'
  OBVIOUS
<1> USE TaskAssumption DEF TaskAssumption
<1>1. ASSUME UNCHANGED <<tick, sched, lastRun, hurried, doubled>>, now' >= now, now' \in Nat
      PROVE  FiredWhenDue'
  <2>1. \A r \in Runner : tick[r].at \in Nat
    BY DEF TasksTyped, TickRow
  <2>2. \A r \in Runner : tick'[r].pc # "sleep" => tick'[r].at <= now'
    BY <1>1, <2>1 DEF FiredWhenDue, TasksTyped
  <2> QED
    BY <1>1, <2>2 DEF FiredWhenDue, Lists, DueSchedule
<1>2. CASE \/ UNCHANGED aiVars
           \/ \E k \in Task : CreateTask(k) \/ CancelReadTask(k) \/ CancelWriteTask(k)
           \/ \E r \in Runner : WorkStep(r)
  <2>1. UNCHANGED <<tick, sched, lastRun, hurried, doubled, now>>
    BY <1>2 DEF aiVars, schedHist, CreateTask, CancelReadTask, CancelWriteTask, WorkStep, Pick,
                MarkQueued, ClaimTask, MarkRunning, AttemptFails
  <2> QED
    BY <1>1, <2>1 DEF TasksTyped
<1>3. CASE PassTime
  BY <1>1, <1>3 DEF PassTime, TasksTyped, schedHist
<1>4. ASSUME NEW s \in Schedule, CreateSchedule(s) \/ SwitchSchedule(s) PROVE FiredWhenDue'
  <2>1. UNCHANGED <<tick, lastRun, hurried, doubled, now>>
    BY <1>4 DEF CreateSchedule, SwitchSchedule, schedHist
  <2>2. CASE SwitchSchedule(s)
    <3>1. \A q \in Schedule : sched'[q].kind = sched[q].kind /\ sched'[q].runAt = sched[q].runAt
      BY <2>2 DEF SwitchSchedule, TasksTyped, SchedRow
    <3> QED
      BY <2>1, <3>1 DEF FiredWhenDue, Lists, DueSchedule, TasksTyped
  <2>3. CASE CreateSchedule(s)
    <3>1. sched[s].kind = "none" /\ \A q \in Schedule : q # s => sched'[q] = sched[q]
      BY <2>3 DEF CreateSchedule, TasksTyped
    <3>2. \A r \in Runner : s \notin doubled => ~(tick[r].pc = "fire" /\ tick[r].cur = s)
      BY <3>1 DEF FiredWhenDue, DueSchedule
    <3> QED
      BY <2>1, <3>1, <3>2 DEF FiredWhenDue, Lists, DueSchedule, TasksTyped
  <2> QED
    BY <1>4, <2>2, <2>3
<1>5. ASSUME NEW r \in Runner, StartTick(r) PROVE FiredWhenDue'
  <2> DEFINE listed == {s \in Schedule : sched[s].active}
             t == [Ticking0 EXCEPT !.pc = "list", !.at = now, !.todo = listed]
  <2>1. t.pc = "list" /\ t.at = now /\ t.todo = listed
    BY RestingTyped DEF TickRow
  <2>2. /\ tick' = [tick EXCEPT ![r] = t] /\ UNCHANGED <<sched, lastRun, now, hurried>>
        /\ doubled' = doubled \cup {s \in listed : \E q \in Runner \ {r} : s \in tick[q].todo}
    BY <1>5 DEF StartTick
  <2> HIDE DEF t
  <2>3. tick'[r] = t /\ \A q \in Runner : q # r => tick'[q] = tick[q]
    BY <2>2 DEF TasksTyped
  <2>4. \A q \in Runner : tick'[q].pc # "sleep" => tick'[q].at <= now'
    BY <2>1, <2>2, <2>3 DEF FiredWhenDue, TasksTyped
  <2>5. \A q \in Runner : tick'[q].pc = "fire" => Lists(q, tick[q].cur)'
    BY <2>1, <2>3 DEF FiredWhenDue, Lists
  <2>6. ASSUME NEW s \in Schedule, s \notin doubled'
        PROVE  /\ \A p, q \in Runner : Lists(p, s)' /\ Lists(q, s)' => p = q
               /\ \A q \in Runner : tick'[q].pc = "fire" /\ tick'[q].cur = s => DueSchedule(s, tick[q].at)'
    <3>1. s \notin doubled /\ (s \in listed => \A q \in Runner : q # r => s \notin tick[q].todo)
      BY <2>2, <2>6
    <3>2. \A p, q \in Runner : Lists(p, s)' /\ Lists(q, s)' => p = q
      BY <2>1, <2>3, <3>1 DEF FiredWhenDue, Lists
    <3>3. \A q \in Runner : tick'[q].pc = "fire" /\ tick'[q].cur = s => DueSchedule(s, tick[q].at)'
      BY <2>1, <2>2, <2>3, <3>1 DEF FiredWhenDue, DueSchedule
    <3> QED
      BY <3>2, <3>3
  <2>7. hurried' \subseteq doubled'
    BY <2>2 DEF FiredWhenDue
  <2> QED
    BY <2>4, <2>5, <2>6, <2>7 DEF FiredWhenDue
<1>6. ASSUME NEW r \in Runner, NEW t \in TickRow, tick' = [tick EXCEPT ![r] = t],
             t.todo \subseteq tick[r].todo, t.pc # "sleep" => t.at = tick[r].at /\ tick[r].pc # "sleep",
             t.pc = "fire" => t.cur \in t.todo /\ DueSchedule(t.cur, t.at),
             UNCHANGED <<sched, now, doubled>>, hurried' \subseteq doubled,
             \A s \in Schedule, q \in Runner :
                s \notin doubled /\ q # r /\ Lists(q, s) => lastRun'[s] = lastRun[s],
             t.pc = "fire" => lastRun' = lastRun
      PROVE  FiredWhenDue'
  <2>1. tick'[r] = t /\ \A q \in Runner : q # r => tick'[q] = tick[q]
    BY <1>6 DEF TasksTyped
  <2>2. \A q \in Runner : tick'[q].pc # "sleep" => tick'[q].at <= now'
    BY <1>6, <2>1 DEF FiredWhenDue
  <2>3. \A q \in Runner : tick'[q].pc = "fire" => Lists(q, tick[q].cur)'
    BY <1>6, <2>1 DEF FiredWhenDue, Lists
  <2>4. \A s \in Schedule, q \in Runner : Lists(q, s)' => Lists(q, s)
    BY <1>6, <2>1 DEF Lists
  <2>5. ASSUME NEW s \in Schedule, s \notin doubled', NEW q \in Runner,
               tick'[q].pc = "fire", tick'[q].cur = s
        PROVE  DueSchedule(s, tick[q].at)'
    <3>1. CASE q = r
      BY <1>6, <2>1, <2>5, <3>1 DEF DueSchedule
    <3>2. CASE q # r
      <4>1. tick'[q] = tick[q] /\ Lists(q, s) /\ DueSchedule(s, tick[q].at)
        BY <1>6, <2>1, <2>5, <3>2 DEF FiredWhenDue
      <4>2. lastRun'[s] = lastRun[s] /\ sched' = sched
        BY <1>6, <2>5, <3>2, <4>1
      <4> QED
        BY <4>1, <4>2 DEF DueSchedule
    <3> QED
      BY <3>1, <3>2
  <2> QED
    BY <1>6, <2>2, <2>3, <2>4, <2>5 DEF FiredWhenDue
<1>7. Ticking0 \in TickRow /\ Ticking0.pc = "sleep" /\ Ticking0.todo = {}
  BY RestingTyped
<1>8. ASSUME NEW r \in Runner, RunnerDies(r) PROVE FiredWhenDue'
  <2>1. tick' = [tick EXCEPT ![r] = Ticking0] /\ UNCHANGED <<sched, now, doubled, lastRun, hurried>>
    BY <1>8 DEF RunnerDies, schedHist
  <2> QED
    BY <1>6, <1>7, <2>1 DEF FiredWhenDue
<1>9. ASSUME NEW r \in Runner, NEW s \in Schedule, LookSchedule(r, s) PROVE FiredWhenDue'
  <2> DEFINE fire == [tick[r] EXCEPT !.pc = "fire", !.cur = s]
  <2>1. tick[r] \in TickRow /\ tick[r].pc = "list" /\ s \in tick[r].todo
    BY <1>9 DEF LookSchedule, TasksTyped
  <2>2. /\ fire \in TickRow /\ fire.pc = "fire" /\ fire.cur = s /\ fire.todo = tick[r].todo
        /\ fire.at = tick[r].at
    BY <2>1 DEF TickRow
  <2>4. UNCHANGED <<sched, now, doubled, lastRun, hurried>> /\ hurried \subseteq doubled
    BY <1>9 DEF LookSchedule, schedHist, FiredWhenDue
  <2>5. CASE DueSchedule(s, tick[r].at)
    <3>1. tick' = [tick EXCEPT ![r] = fire]
      BY <1>9, <2>5 DEF LookSchedule
    <3> HIDE DEF fire
    <3> QED
      BY <1>6, <2>1, <2>2, <2>4, <2>5, <3>1
  <2>6. CASE ~DueSchedule(s, tick[r].at)
    <3>1. tick' = [tick EXCEPT ![r] = AfterSchedule(r, s)]
      BY <1>9, <2>6 DEF LookSchedule
    <3> QED
      BY <1>6, <2>1, <2>4, <3>1, AfterScheduleTyped
  <2> QED
    BY <2>5, <2>6
<1>10. ASSUME NEW r \in Runner, ExecuteSchedule(r) PROVE FiredWhenDue'
  <2> DEFINE s == tick[r].cur
  <2>1. tick[r] \in TickRow /\ s \in Schedule /\ tick[r].pc = "fire" /\ Lists(r, s) /\ tick[r].at <= now
    BY <1>10 DEF ExecuteSchedule, TasksTyped, FiredWhenDue
  <2>2. tick' = [tick EXCEPT ![r] = AfterSchedule(r, s)]
    BY <1>10 DEF ExecuteSchedule
  <2>4. /\ UNCHANGED <<sched, now, doubled>>
        /\ lastRun' = [lastRun EXCEPT ![s] = now] \/ UNCHANGED lastRun
    BY <1>10 DEF ExecuteSchedule, RecordExecution
  <2>5. hurried' \subseteq doubled
    <3>1. CASE s \in doubled
      BY <1>10, <3>1 DEF ExecuteSchedule, RecordExecution, FiredWhenDue
    <3>2. CASE s \notin doubled
      <4>1. DueSchedule(s, tick[r].at)
        BY <2>1, <3>2 DEF FiredWhenDue
      <4>2. tick[r].at \in Nat /\ now \in Nat /\ lastRun[s] \in Int
        BY <2>1 DEF TasksTyped, TickRow, Never
      <4>3. ~(sched[s].kind = "interval" /\ lastRun[s] # Never /\ now - lastRun[s] < Interval)
        BY <2>1, <4>1, <4>2 DEF DueSchedule
      <4> QED
        BY <1>10, <4>3 DEF ExecuteSchedule, RecordExecution, FiredWhenDue
    <3> QED
      BY <3>1, <3>2
  <2>6. \A q \in Runner, z \in Schedule : z \notin doubled /\ q # r /\ Lists(q, z) => lastRun'[z] = lastRun[z]
    BY <2>1, <2>4 DEF FiredWhenDue, TasksTyped
  <2> QED
    BY <1>6, <2>1, <2>2, <2>4, <2>5, <2>6, AfterScheduleTyped
<1> QED
  BY <1>2, <1>3, <1>4, <1>5, <1>8, <1>9, <1>10 DEF TaskNext

(* Executions of a schedule are its interval apart, unless two processes   *)
(* had it listed at once: a schedule that is fired was due by what its     *)
(* only lister has read, and nobody else has recorded an execution since.  *)
THEOREM IntervalIsKept == TaskSpec => []IntervalKept
<1>1. TaskInit => FiredWhenDue
  BY DEF TaskInit, FiredWhenDue, Lists, Ticking0
<1>2. FiredWhenDue => IntervalKept
  BY DEF FiredWhenDue, IntervalKept
<1> QED
  BY <1>1, <1>2, IntervalStep, TasksHold, PTL DEF TaskSpec

-----------------------------------------------------------------------------
(* The join queue: types of what its properties speak of.                  *)

JStatus  == {"absent", "queued", "processing", "success", "failed", "flood_wait", "deleted"}
Results  == {"success", "failed", "flood_wait"}
BatchRow == [account : JoinAccount \cup {NoItem}, left : 0 .. DirectLimit,
             joined : {"no", "success", "failed"}]

RowsTyped == jstatus \in [Item -> JStatus] /\ until \in [Item -> {"none", "ahead", "past"}]

CountsTyped ==
    /\ jpaused \in [JoinAccount -> BOOLEAN]
    /\ today \in [JoinAccount -> 0 .. DailyLimit] /\ made \in [JoinAccount -> 0 .. DailyLimit + 1]
    /\ unlogged \in [JoinAccount -> BOOLEAN] /\ overlapped \in [JoinAccount -> BOOLEAN]
    /\ calls \in [Item -> 0 .. 2] /\ joinedPaused \in [JoinAccount -> 0 .. 2]

(* What a scheduler has in hand, by where it is. *)
SchedOK(s) ==
    /\ jpc[s] \in {"idle", "next"} => jacc[s] = NoItem /\ jitem[s] = NoItem /\ outcome[s] = "none"
    /\ jpc[s] \notin {"idle", "next"} => jacc[s] \in JoinAccount
    /\ jpc[s] \in {"claim", "connect", "join", "persist", "log"} =>
          jitem[s] \in Item /\ AccountOfItem[jitem[s]] = jacc[s]
    /\ jpc[s] \in {"persist", "log"} => outcome[s] \in Results
    /\ jpc[s] \notin {"persist", "log"} => outcome[s] = "none"

SchedsTyped ==
    /\ jpc \in [JoinSched -> JPC] /\ jtodo \in [JoinSched -> SUBSET JoinAccount]
    /\ jacc \in [JoinSched -> JoinAccount \cup {NoItem}]
    /\ jitem \in [JoinSched -> Item \cup {NoItem}]
    /\ outcome \in [JoinSched -> Results \cup {"none"}]
    /\ \A s \in JoinSched : SchedOK(s)

BatchesTyped ==
    /\ batch \in [Caller -> BatchRow]
    /\ \A c \in Caller : batch[c] = NoBatch \/ (batch[c].account \in JoinAccount /\ batch[c].left > 0)

JoinTyped == RowsTyped /\ CountsTyped /\ SchedsTyped /\ BatchesTyped

LEMMA LimitTyped ==
    /\ DailyLimit \in Nat /\ DailyLimit >= QueueLimit /\ DailyLimit >= DirectLimit
    /\ DirectLimit \in Nat \ {0} /\ QueueLimit \in Nat \ {0} /\ NoItem \notin JoinAccount
    /\ NoBatch \in BatchRow /\ NoBatch.account = NoItem /\ NoBatch.joined = "no" /\ NoBatch.left = 0
BY JoinAssumption DEF JoinAssumption, DailyLimit, NoBatch, BatchRow

LEMMA UpToTyped ==
    ASSUME NEW cap \in Nat, NEW n \in 0 .. cap
    PROVE  UpTo(n, cap) \in 0 .. cap /\ UpTo(n, cap) <= n + 1 /\ UpTo(n, cap) >= n
BY DEF UpTo

(* Leaving an account, or dying, empties the hands of a scheduler.         *)
LEMMA LeaveTyped ==
    ASSUME SchedsTyped, NEW s \in JoinSched, Leave(s)
    PROVE  /\ SchedsTyped' /\ jpc'[s] = "next" /\ jacc'[s] = NoItem
           /\ \A t \in JoinSched : t # s => /\ jpc'[t] = jpc[t] /\ jacc'[t] = jacc[t]
                                         /\ jitem'[t] = jitem[t] /\ outcome'[t] = outcome[t]
BY DEF Leave, SchedsTyped, SchedOK, JPC

LEMMA CrashTyped ==
    ASSUME SchedsTyped, NEW s \in JoinSched, JoinCrash(s)
    PROVE  /\ SchedsTyped' /\ jpc'[s] = "idle" /\ jacc'[s] = NoItem
           /\ \A t \in JoinSched : t # s => /\ jpc'[t] = jpc[t] /\ jacc'[t] = jacc[t]
                                         /\ jitem'[t] = jitem[t] /\ outcome'[t] = outcome[t]
BY DEF JoinCrash, SchedsTyped, SchedOK, JPC

LEMMA SchedulersTyped ==
    ASSUME SchedsTyped, NEW s \in JoinSched, JoinSchedStep(s) \/ TurnFails(s) \/ JoinCrash(s)
    PROVE  SchedsTyped'
<1>1. CASE JoinTick(s) \/ JoinTickDone(s)
  BY <1>1 DEF JoinTick, JoinTickDone, SchedsTyped, SchedOK, JPC
<1>2. CASE CheckAccount(s)
  <2>1. PICK a \in jtodo[s] :
           /\ jtodo' = [jtodo EXCEPT ![s] = @ \ {a}]
           /\ \/ jpc' = [jpc EXCEPT ![s] = "pick"] /\ jacc' = [jacc EXCEPT ![s] = a]
              \/ UNCHANGED <<jpc, jacc>>
    BY <1>2 DEF CheckAccount
  <2>2. a \in JoinAccount /\ jpc[s] = "next" /\ UNCHANGED <<jitem, outcome>>
    BY <1>2 DEF CheckAccount, SchedsTyped
  <2> QED
    BY <2>1, <2>2 DEF SchedsTyped, SchedOK, JPC
<1>3. CASE PickItem(s)
  <2>1. CASE Leave(s)
    BY <2>1, LeaveTyped
  <2>2. CASE ~Leave(s)
    <3>1. PICK i \in Waiting(jacc[s]) : jitem' = [jitem EXCEPT ![s] = i]
      BY <1>3, <2>2 DEF PickItem
    <3>2. /\ jpc' = [jpc EXCEPT ![s] = "claim"] /\ UNCHANGED <<jtodo, jacc, outcome>> /\ jpc[s] = "pick"
      BY <1>3, <2>2 DEF PickItem
    <3>3. i \in Item /\ AccountOfItem[i] = jacc[s]
      BY DEF Waiting, Queued, Items
    <3> QED
      BY <3>1, <3>2, <3>3 DEF SchedsTyped, SchedOK, JPC
  <2> QED
    BY <2>1, <2>2
<1>4. CASE ClaimItem(s) \/ Connect(s) \/ NotAuthorized(s) \/ PersistItem(s) \/ LogItem(s) \/ TurnFails(s)
  <2>1. CASE Leave(s)
    BY <2>1, LeaveTyped
  <2>2. CASE ~Leave(s)
    <3>1. /\ UNCHANGED <<jtodo, jacc, jitem, outcome>>
          /\ \/ jpc[s] = "claim" /\ jpc' = [jpc EXCEPT ![s] = "connect"]
             \/ jpc[s] = "connect" /\ jpc' = [jpc EXCEPT ![s] = "join"]
             \/ jpc[s] = "persist" /\ jpc' = [jpc EXCEPT ![s] = "log"]
      BY <1>4, <2>2 DEF ClaimItem, Connect, NotAuthorized, PersistItem, LogItem, TurnFails
    <3> QED
      BY <3>1 DEF SchedsTyped, SchedOK, JPC
  <2> QED
    BY <2>1, <2>2
<1>5. CASE Join(s)
  <2>1. /\ jpc[s] = "join" /\ jpc' = [jpc EXCEPT ![s] = "persist"] /\ UNCHANGED <<jtodo, jacc, jitem>>
        /\ \E o \in Results : outcome' = [outcome EXCEPT ![s] = o]
    BY <1>5 DEF Join, Results
  <2> QED
    BY <2>1 DEF SchedsTyped, SchedOK, JPC
<1> QED
  BY <1>1, <1>2, <1>3, <1>4, <1>5, CrashTyped DEF JoinSchedStep

LEMMA SchedulersRest ==
    ASSUME SchedsTyped, UNCHANGED schedJ
    PROVE  SchedsTyped'
BY DEF schedJ, SchedsTyped, SchedOK

LEMMA BatchStepTyped ==
    ASSUME BatchesTyped, CountsTyped,
           \/ \E c \in Caller, a \in JoinAccount : BeginBatch(c, a)
           \/ \E c \in Caller : BatchJoin(c) \/ BatchLog(c) \/ BatchFails(c)
    PROVE  BatchesTyped'
<1>1. ASSUME NEW c \in Caller, NEW b \in BatchRow, batch' = [batch EXCEPT ![c] = b],
             b = NoBatch \/ (b.account \in JoinAccount /\ b.left > 0)
      PROVE  BatchesTyped'
  BY <1>1 DEF BatchesTyped
<1>2. ASSUME NEW c \in Caller, NEW a \in JoinAccount, BeginBatch(c, a) PROVE BatchesTyped'
  <2>1. PICK n \in 1 .. MaxTargets :
           batch' = [batch EXCEPT ![c] = [account |-> a, joined |-> "no",
                                          left |-> IF n < Budget(a) THEN n ELSE Budget(a)]]
    BY <1>2 DEF BeginBatch
  <2> DEFINE m == IF n < Budget(a) THEN n ELSE Budget(a)
             b == [account |-> a, joined |-> "no", left |-> m]
  <2>2. Budget(a) \in 1 .. DirectLimit
    <3>1. today[a] \in Nat /\ Budget(a) > 0
      BY <1>2 DEF BeginBatch, CountsTyped
    <3> QED
      BY <3>1, LimitTyped DEF Budget
  <2>3. m \in 1 .. DirectLimit
    BY <2>2, LimitTyped
  <2>4. b \in BatchRow /\ b.account = a /\ b.left = m /\ m > 0
    BY <2>3, LimitTyped DEF BatchRow
  <2> QED
    BY <1>1, <2>1, <2>4
<1>3. ASSUME NEW c \in Caller, BatchJoin(c) PROVE BatchesTyped'
  <2>1. PICK v \in {"success", "failed"} : batch' = [batch EXCEPT ![c] = [batch[c] EXCEPT !.joined = v]]
    BY <1>3 DEF BatchJoin
  <2>2. batch[c] \in BatchRow /\ batch[c].left > 0 /\ (batch[c] = NoBatch \/ batch[c].account \in JoinAccount)
    BY <1>3 DEF BatchJoin, BatchesTyped
  <2> DEFINE b == [batch[c] EXCEPT !.joined = v]
  <2>3. b \in BatchRow /\ b.account = batch[c].account /\ b.left = batch[c].left
    BY <2>2 DEF BatchRow
  <2>4. batch[c] # NoBatch
    BY <2>2, LimitTyped
  <2> QED
    BY <1>1, <2>1, <2>2, <2>3, <2>4
<1>4. ASSUME NEW c \in Caller, BatchLog(c) PROVE BatchesTyped'
  <2>1. batch[c] \in BatchRow /\ batch[c].joined # "no" /\ batch[c] # NoBatch
    BY <1>4, LimitTyped DEF BatchLog, BatchesTyped
  <2>2. batch[c].account \in JoinAccount /\ batch[c].left \in 1 .. DirectLimit
    BY <2>1, LimitTyped DEF BatchesTyped, BatchRow
  <2> DEFINE b == [batch[c] EXCEPT !.left = batch[c].left - 1, !.joined = "no"]
  <2>3. batch[c].left # 1 => b \in BatchRow /\ b.account = batch[c].account /\ b.left > 0
    <3>1. batch[c].left # 1 => batch[c].left - 1 \in 0 .. DirectLimit /\ batch[c].left - 1 > 0
      BY <2>2, LimitTyped
    <3> QED
      BY <2>1, <3>1 DEF BatchRow
  <2>4. OneDone(batch[c]) = IF batch[c].left = 1 THEN NoBatch ELSE b
    BY DEF OneDone
  <2>5. batch' = [batch EXCEPT ![c] = OneDone(batch[c])]
    BY <1>4 DEF BatchLog
  <2> HIDE DEF b
  <2> QED
    BY <1>1, <2>2, <2>3, <2>4, <2>5, LimitTyped
<1>5. ASSUME NEW c \in Caller, BatchFails(c) PROVE BatchesTyped'
  BY <1>1, <1>5, LimitTyped DEF BatchFails
<1> QED
  BY <1>2, <1>3, <1>4, <1>5

(* What a step does to rows and counts. *)
LEMMA RowsStay ==
    ASSUME RowsTyped, SchedsTyped, [JoinNext]_joinVars
    PROVE  RowsTyped'
<1> USE DEF RowsTyped, JStatus, Results
<1>1. ASSUME NEW S, Delete(S) PROVE RowsTyped'
  BY <1>1 DEF Delete
<1>2. CASE JoinUser
  <2>1. ASSUME NEW i \in Item, AddToQueue(i) PROVE RowsTyped'
    BY <2>1 DEF AddToQueue
  <2>2. ASSUME NEW a \in JoinAccount, NEW v, SetPaused(a, v) PROVE RowsTyped'
    BY <2>2 DEF SetPaused, rowJ
  <2>3. ASSUME NEW c \in Caller, NEW a \in JoinAccount, BeginBatch(c, a) PROVE RowsTyped'
    BY <2>3 DEF BeginBatch, rowJ
  <2> QED
    BY <1>1, <1>2, <2>1, <2>2, <2>3 DEF JoinUser, RemoveFromQueue, ClearQueue
<1>3. ASSUME NEW s \in JoinSched, JoinSchedStep(s) \/ TurnFails(s) \/ JoinCrash(s) PROVE RowsTyped'
  <2>1. CASE PersistItem(s)
    BY <2>1 DEF PersistItem, Settle, SchedsTyped, SchedOK
  <2>2. CASE ClaimItem(s) \/ NotAuthorized(s)
    BY <2>2 DEF ClaimItem, NotAuthorized, Settle
  <2>3. CASE ~(PersistItem(s) \/ ClaimItem(s) \/ NotAuthorized(s))
    BY <1>3, <2>3 DEF JoinSchedStep, JoinTick, JoinTickDone, CheckAccount, PickItem, Connect, Join, LogItem,
                      TurnFails, JoinCrash, rowJ
  <2> QED
    BY <2>1, <2>2, <2>3
<1>4. ASSUME NEW i \in Item, FloodOver(i) PROVE RowsTyped'
  BY <1>4 DEF FloodOver
<1>5. CASE \/ UNCHANGED joinVars \/ Midnight
           \/ \E c \in Caller : BatchJoin(c) \/ BatchLog(c) \/ BatchFails(c)
           \/ \E a \in JoinAccount : HourPasses(a)
  BY <1>5 DEF joinVars, Midnight, BatchJoin, BatchLog, BatchFails, HourPasses, rowJ
<1> QED
  BY <1>2, <1>3, <1>4, <1>5 DEF JoinNext

LEMMA CountsStay ==
    ASSUME CountsTyped, SchedsTyped, BatchesTyped, [JoinNext]_joinVars
    PROVE  CountsTyped'
<1> USE DEF CountsTyped
<1>0. DailyLimit \in Nat
  BY LimitTyped
<1>1. ASSUME NEW a \in JoinAccount
      PROVE  /\ UpTo(made[a], DailyLimit + 1) \in 0 .. DailyLimit + 1
             /\ UpTo(today[a], DailyLimit) \in 0 .. DailyLimit
             /\ UpTo(joinedPaused[a], 2) \in 0 .. 2
  BY <1>0 DEF UpTo
<1>2. \A i \in Item : UpTo(calls[i], 2) \in 0 .. 2
  BY DEF UpTo
<1> HIDE DEF CountsTyped
<1>3. ASSUME NEW a, NoteJoiner(a), UNCHANGED <<jpaused, today, made, unlogged, calls, joinedPaused>>
      PROVE  CountsTyped'
  BY <1>3 DEF CountsTyped, NoteJoiner
<1>4. ASSUME NEW s \in JoinSched, DropOutcome(s), UNCHANGED <<jpaused, today, made, overlapped, calls, joinedPaused>>
      PROVE  CountsTyped'
  BY <1>4 DEF CountsTyped, DropOutcome
<1>5. ASSUME NEW a \in JoinAccount, CountLogged(a),
             UNCHANGED <<jpaused, made, unlogged, overlapped, calls, joinedPaused>>
      PROVE  CountsTyped'
  BY <1>1, <1>5 DEF CountsTyped, CountLogged
<1>6. ASSUME UNCHANGED <<jpaused, today, made, unlogged, overlapped, calls, joinedPaused>>
      PROVE  CountsTyped'
  BY <1>6 DEF CountsTyped
<1>7. ASSUME NEW a \in JoinAccount, NoteJoined(a) \/ UNCHANGED made,
             unlogged' = [unlogged EXCEPT ![a] = TRUE] \/ UNCHANGED unlogged,
             (\E i \in Item : calls' = [calls EXCEPT ![i] = UpTo(@, 2)]) \/ UNCHANGED calls,
             UNCHANGED <<jpaused, today, overlapped, joinedPaused>>
      PROVE  CountsTyped'
  <2>1. made' \in [JoinAccount -> 0 .. DailyLimit + 1]
    BY <1>1, <1>7 DEF CountsTyped, NoteJoined
  <2>2. calls' \in [Item -> 0 .. 2]
    BY <1>2, <1>7 DEF CountsTyped
  <2>3. unlogged' \in [JoinAccount -> BOOLEAN]
    BY <1>7 DEF CountsTyped
  <2> QED
    BY <1>7, <2>1, <2>2, <2>3 DEF CountsTyped
<1>8. CASE JoinUser
  <2>1. ASSUME NEW i \in Item, AddToQueue(i) PROVE CountsTyped'
    BY <1>6, <2>1 DEF AddToQueue, countJ, histJ
  <2>2. ASSUME NEW S, Delete(S) PROVE CountsTyped'
    BY <1>6, <2>2 DEF Delete, countJ, histJ
  <2>3. ASSUME NEW a \in JoinAccount, NEW v \in BOOLEAN, SetPaused(a, v) PROVE CountsTyped'
    BY <2>3 DEF SetPaused, countJ, CountsTyped
  <2>4. ASSUME NEW c \in Caller, NEW a \in JoinAccount, BeginBatch(c, a) PROVE CountsTyped'
    BY <1>3, <2>4 DEF BeginBatch, countJ
  <2> QED
    BY <1>8, <2>1, <2>2, <2>3, <2>4 DEF JoinUser, RemoveFromQueue, ClearQueue
<1>9. ASSUME NEW s \in JoinSched, JoinSchedStep(s) \/ TurnFails(s) \/ JoinCrash(s) PROVE CountsTyped'
  <2>1. CASE CheckAccount(s)
    <3>1. CASE overlapped' = overlapped
      BY <1>6, <2>1, <3>1 DEF CheckAccount, countJ
    <3>2. CASE overlapped' # overlapped
      BY <1>3, <2>1, <3>2 DEF CheckAccount, countJ
    <3> QED
      BY <3>1, <3>2
  <2>2. CASE Connect(s)
    <3>1. jacc[s] \in JoinAccount
      BY <2>2 DEF Connect, SchedsTyped, SchedOK
    <3> QED
      BY <1>1, <2>2, <3>1 DEF Connect, countJ, CountsTyped
  <2>3. CASE Join(s)
    <3>1. jacc[s] \in JoinAccount /\ jitem[s] \in Item
      BY <2>3 DEF Join, SchedsTyped, SchedOK
    <3> QED
      BY <1>7, <2>3, <3>1 DEF Join, countJ
  <2>4. CASE PersistItem(s)
    <3>1. CASE DropOutcome(s)
      BY <1>4, <2>4, <3>1 DEF PersistItem, countJ
    <3>2. CASE ~DropOutcome(s)
      BY <1>6, <2>4, <3>2 DEF PersistItem, countJ
    <3> QED
      BY <3>1, <3>2
  <2>5. CASE LogItem(s)
    <3>1. jacc[s] \in JoinAccount
      BY <2>5 DEF LogItem, SchedsTyped, SchedOK
    <3> QED
      BY <1>5, <1>6, <2>5, <3>1 DEF LogItem, countJ, histJ
  <2>6. CASE TurnFails(s) \/ JoinCrash(s)
    BY <1>4, <2>6 DEF TurnFails, JoinCrash, countJ
  <2>7. CASE JoinTick(s) \/ JoinTickDone(s) \/ PickItem(s) \/ ClaimItem(s) \/ NotAuthorized(s)
    BY <1>6, <2>7 DEF JoinTick, JoinTickDone, PickItem, ClaimItem, NotAuthorized, countJ, histJ
  <2> QED
    BY <1>9, <2>1, <2>2, <2>3, <2>4, <2>5, <2>6, <2>7 DEF JoinSchedStep
<1>10. ASSUME NEW c \in Caller, BatchJoin(c) \/ BatchLog(c) \/ BatchFails(c) PROVE CountsTyped'
  <2>1. BatchJoin(c) \/ BatchLog(c) => batch[c].account \in JoinAccount
    BY LimitTyped DEF BatchJoin, BatchLog, BatchesTyped
  <2>2. CASE BatchJoin(c)
    BY <1>7, <2>1, <2>2 DEF BatchJoin, countJ
  <2>3. CASE BatchLog(c)
    BY <1>5, <1>6, <2>1, <2>3 DEF BatchLog, countJ, histJ
  <2>4. CASE BatchFails(c)
    BY <2>4 DEF BatchFails, countJ, CountsTyped
  <2> QED
    BY <1>10, <2>2, <2>3, <2>4
<1>11. CASE Midnight
  BY <1>0, <1>11 DEF Midnight, CountsTyped
<1>12. CASE \/ UNCHANGED joinVars \/ \E a \in JoinAccount : HourPasses(a)
            \/ \E i \in Item : FloodOver(i)
  BY <1>6, <1>12 DEF joinVars, HourPasses, FloodOver, countJ, histJ
<1> QED
  BY <1>8, <1>9, <1>10, <1>11, <1>12 DEF JoinNext

LEMMA JoinStep == JoinTyped /\ [JoinNext]_joinVars => JoinTyped'
<1> SUFFICES ASSUME JoinTyped, [JoinNext]_joinVars PROVE JoinTyped'
  OBVIOUS
<1>1. RowsTyped' /\ CountsTyped'
  BY RowsStay, CountsStay DEF JoinTyped
<1>2. SchedsTyped'
  <2>1. CASE \E s \in JoinSched : JoinSchedStep(s) \/ TurnFails(s) \/ JoinCrash(s)
    BY <2>1, SchedulersTyped DEF JoinTyped
  <2>2. CASE ~\E s \in JoinSched : JoinSchedStep(s) \/ TurnFails(s) \/ JoinCrash(s)
    <3>1. UNCHANGED schedJ
      BY <2>2 DEF JoinNext, joinVars, JoinUser, AddToQueue, RemoveFromQueue, ClearQueue, Delete, SetPaused,
                  BeginBatch, BatchJoin, BatchLog, BatchFails, FloodOver, HourPasses, Midnight
    <3> QED
      BY <3>1, SchedulersRest DEF JoinTyped
  <2> QED
    BY <2>1, <2>2
<1>3. BatchesTyped'
  <2> DEFINE Batches == \/ \E c \in Caller, a \in JoinAccount : BeginBatch(c, a)
                        \/ \E c \in Caller : BatchJoin(c) \/ BatchLog(c) \/ BatchFails(c)
  <2>1. CASE Batches
    BY <2>1, BatchStepTyped DEF JoinTyped
  <2>2. CASE ~Batches
    <3>1. UNCHANGED batch
      BY <2>2 DEF JoinNext, joinVars, JoinUser, AddToQueue, RemoveFromQueue, ClearQueue, Delete, SetPaused,
                  FloodOver, HourPasses, Midnight, JoinSchedStep, JoinTick, JoinTickDone, CheckAccount,
                  PickItem, ClaimItem, Connect, NotAuthorized, Join, PersistItem, LogItem, TurnFails, JoinCrash
    <3> QED
      BY <3>1 DEF BatchesTyped, JoinTyped
  <2> QED
    BY <2>1, <2>2
<1> QED
  BY <1>1, <1>2, <1>3 DEF JoinTyped

LEMMA JoinHolds == JoinSpec => []JoinTyped
<1>1. JoinInit => JoinTyped
  <2> SUFFICES ASSUME JoinInit PROVE JoinTyped
    OBVIOUS
  <2>1. RowsTyped
    BY DEF JoinInit, RowsTyped, JStatus
  <2>2. CountsTyped
    BY LimitTyped DEF JoinInit, CountsTyped
  <2>3. SchedsTyped
    BY DEF JoinInit, SchedsTyped, SchedOK, JPC
  <2>4. BatchesTyped
    BY LimitTyped DEF JoinInit, BatchesTyped
  <2> QED
    BY <2>1, <2>2, <2>3, <2>4 DEF JoinTyped
<1> QED
  BY <1>1, JoinStep, PTL DEF JoinSpec

(* The rest of the types: places in the queue, the rows of the last hour,  *)
(* faults.                                                                 *)
PlacesTyped ==
    /\ position \in [Item -> Nat]
    /\ hour \in [JoinAccount -> 0 .. DailyLimit]
    /\ jfaults \in 0 .. JoinFaults

(* A place in the queue is one more than the last one, or the last one.    *)
LEMMA LastPlace ==
    ASSUME position \in [Item -> Nat], NEW i \in Item, AddToQueue(i)
    PROVE  position' \in [Item -> Nat]
<1> DEFINE rows  == Items(AccountOfItem[i]) \cap Present
           taken == {position[k] : k \in rows}
           last  == CHOOSE n \in taken \cup {0} : \A m \in taken : m <= n
<1>1. rows \in SUBSET Item /\ IsFiniteSet(Item)
  BY JoinAssumption DEF Items, JoinAssumption
<1>2. IsFiniteSet(rows) /\ \A k \in rows : position[k] \in Nat
  <2> HIDE DEF rows
  <2> QED
    BY <1>1, FS_Subset
<1>3. \E n \in taken \cup {0} : \A m \in taken : m <= n
  <2> HIDE DEF rows
  <2> QED
    BY <1>2, GreatestValue
<1>4. last \in taken \cup {0}
  <2> HIDE DEF taken
  <2> QED
    BY <1>3
<1>5. last \in Nat
  <2> HIDE DEF rows, last
  <2> QED
    BY <1>2, <1>4
<1>6. PICK next \in {last + 1} \cup (taken \cap {last}) : position' = [position EXCEPT ![i] = next]
  BY DEF AddToQueue
<1>7. next \in Nat
  <2> HIDE DEF last, taken
  <2> QED
    BY <1>5, <1>6
<1> QED
  BY <1>6, <1>7

LEMMA PlacesStep == PlacesTyped /\ JoinTyped /\ [JoinNext]_joinVars => PlacesTyped'
<1> SUFFICES ASSUME PlacesTyped, JoinTyped, [JoinNext]_joinVars PROVE PlacesTyped'
  OBVIOUS
<1>0. DailyLimit \in Nat /\ JoinFaults \in Nat
  BY LimitTyped, JoinAssumption DEF JoinAssumption
<1>1. position' \in [Item -> Nat]
  <2>1. ASSUME NEW i \in Item, AddToQueue(i) PROVE position' \in [Item -> Nat]
    BY <2>1, LastPlace DEF PlacesTyped
  <2>2. ASSUME NEW S, Delete(S) PROVE position' \in [Item -> Nat]
    BY <2>2 DEF Delete, PlacesTyped
  <2>3. CASE JoinUser
    <3>1. ASSUME NEW a \in JoinAccount, NEW v, SetPaused(a, v) PROVE UNCHANGED position
      BY <3>1 DEF SetPaused, rowJ
    <3>2. ASSUME NEW c \in Caller, NEW a \in JoinAccount, BeginBatch(c, a) PROVE UNCHANGED position
      BY <3>2 DEF BeginBatch, rowJ
    <3> QED
      BY <2>1, <2>2, <2>3, <3>1, <3>2 DEF JoinUser, RemoveFromQueue, ClearQueue, PlacesTyped
  <2>4. ASSUME NEW s \in JoinSched, JoinSchedStep(s) \/ TurnFails(s) \/ JoinCrash(s) PROVE UNCHANGED position
    BY <2>4 DEF JoinSchedStep, JoinTick, JoinTickDone, CheckAccount, PickItem, ClaimItem, Connect,
                NotAuthorized, Join, PersistItem, LogItem, TurnFails, JoinCrash, rowJ
  <2>5. CASE \/ UNCHANGED joinVars \/ Midnight
             \/ \E c \in Caller : BatchJoin(c) \/ BatchLog(c) \/ BatchFails(c)
             \/ (\E i \in Item : FloodOver(i)) \/ (\E a \in JoinAccount : HourPasses(a))
    BY <2>5 DEF joinVars, Midnight, BatchJoin, BatchLog, BatchFails, FloodOver, HourPasses, rowJ, PlacesTyped
  <2> QED
    BY <2>3, <2>4, <2>5 DEF PlacesTyped, JoinNext
<1>2. hour' \in [JoinAccount -> 0 .. DailyLimit]
  <2>1. ASSUME NEW a \in JoinAccount, CountLogged(a) PROVE hour' \in [JoinAccount -> 0 .. DailyLimit]
    <3>1. UpTo(hour[a], DailyLimit) \in 0 .. DailyLimit
      BY <1>0 DEF UpTo, PlacesTyped
    <3> QED
      BY <2>1, <3>1 DEF CountLogged, PlacesTyped
  <2>2. ASSUME NEW a \in JoinAccount, HourPasses(a) PROVE hour' \in [JoinAccount -> 0 .. DailyLimit]
    BY <1>0, <2>2 DEF HourPasses, PlacesTyped
  <2>3. ASSUME NEW s \in JoinSched, LogItem(s) PROVE UNCHANGED hour \/ CountLogged(jacc[s])
    BY <2>3 DEF LogItem, countJ
  <2>4. ASSUME NEW c \in Caller, BatchLog(c) PROVE UNCHANGED hour \/ CountLogged(batch[c].account)
    BY <2>4 DEF BatchLog, countJ
  <2>5. ASSUME NEW s \in JoinSched, LogItem(s) PROVE jacc[s] \in JoinAccount
    BY <2>5 DEF LogItem, JoinTyped, SchedsTyped, SchedOK
  <2>6. ASSUME NEW c \in Caller, BatchLog(c) PROVE batch[c].account \in JoinAccount
    BY <2>6, LimitTyped DEF BatchLog, JoinTyped, BatchesTyped
  <2>7. ASSUME NEW s \in JoinSched, JoinSchedStep(s) \/ TurnFails(s) \/ JoinCrash(s)
        PROVE  UNCHANGED hour \/ LogItem(s)
    BY <2>7 DEF JoinSchedStep, JoinTick, JoinTickDone, CheckAccount, PickItem, ClaimItem, Connect,
                NotAuthorized, Join, PersistItem, TurnFails, JoinCrash, countJ
  <2>8. ASSUME NEW c \in Caller, BatchJoin(c) \/ BatchFails(c) PROVE UNCHANGED hour
    BY <2>8 DEF BatchJoin, BatchFails, countJ
  <2>9. CASE JoinUser \/ UNCHANGED joinVars \/ Midnight \/ \E i \in Item : FloodOver(i)
    BY <2>9 DEF JoinUser, AddToQueue, RemoveFromQueue, ClearQueue, Delete, SetPaused, BeginBatch,
                joinVars, Midnight, FloodOver, countJ, PlacesTyped
  <2> QED
    BY <2>1, <2>2, <2>3, <2>4, <2>5, <2>6, <2>7, <2>8, <2>9 DEF PlacesTyped, JoinNext
<1>3. jfaults' \in 0 .. JoinFaults
  <2>1. ASSUME NEW s \in JoinSched, JoinSchedStep(s) \/ TurnFails(s) \/ JoinCrash(s)
        PROVE  UNCHANGED jfaults \/ (jfaults < JoinFaults /\ jfaults' = jfaults + 1)
    BY <2>1 DEF JoinSchedStep, JoinTick, JoinTickDone, CheckAccount, PickItem, ClaimItem, Connect,
                NotAuthorized, Join, PersistItem, LogItem, TurnFails, JoinCrash
  <2>2. CASE JoinUser
    BY <2>2 DEF JoinUser, AddToQueue, RemoveFromQueue, ClearQueue, Delete, SetPaused, BeginBatch, PlacesTyped
  <2>3. CASE \/ UNCHANGED joinVars \/ Midnight
             \/ \E c \in Caller : BatchJoin(c) \/ BatchLog(c) \/ BatchFails(c)
             \/ (\E i \in Item : FloodOver(i)) \/ (\E a \in JoinAccount : HourPasses(a))
    BY <2>3 DEF joinVars, Midnight, BatchJoin, BatchLog, BatchFails, FloodOver, HourPasses, PlacesTyped
  <2> QED
    BY <1>0, <2>1, <2>2, <2>3 DEF PlacesTyped, JoinNext
<1> QED
  BY <1>1, <1>2, <1>3 DEF PlacesTyped

(* Every variable of the join queue keeps its type: a place is a number    *)
(* whatever was deleted before it (get_next_position), and the counters of *)
(* an account stay within the limits that guard them.                      *)
THEOREM JoinsKeepType == JoinSpec => []JoinTypeOK
<1>1. JoinInit => PlacesTyped
  BY LimitTyped, JoinAssumption DEF JoinInit, PlacesTyped, JoinAssumption
<1>2. JoinTyped /\ PlacesTyped => JoinTypeOK
  BY DEF JoinTyped, PlacesTyped, JoinTypeOK, RowsTyped, CountsTyped, SchedsTyped, BatchesTyped,
         JStatus, Results, BatchRow
<1> QED
  BY <1>1, <1>2, PlacesStep, JoinHolds, PTL DEF JoinSpec

-----------------------------------------------------------------------------
(* With one scheduler.                                                     *)

OneJoinScheduler == \A s, t \in JoinSched : s = t

(* Rows of an account that come to wait, come to wait by its scheduler.    *)
LEMMA FloodedBy ==
    ASSUME JoinTyped, [JoinNext]_joinVars, NEW a \in JoinAccount, ~Flooded(a), Flooded(a)'
    PROVE  \E s \in JoinSched : PersistItem(s) /\ jacc[s] = a /\ Leave(s)
<1>1. PICK i \in Items(a) : (jstatus[i] = "flood_wait" /\ until[i] = "ahead")'
  BY DEF Flooded, Items
<1>2. i \in Item /\ AccountOfItem[i] = a /\ ~(jstatus[i] = "flood_wait" /\ until[i] = "ahead")
  BY <1>1 DEF Flooded, Items
<1>3. \E s \in JoinSched : PersistItem(s)
  <2>1. ASSUME NEW S, Delete(S) PROVE FALSE
    BY <1>1, <1>2, <2>1 DEF Delete
  <2>2. ASSUME NEW k \in Item, AddToQueue(k) PROVE FALSE
    BY <1>1, <1>2, <2>2 DEF AddToQueue, JoinTyped, RowsTyped
  <2>3. ASSUME NEW s \in JoinSched, ClaimItem(s) \/ NotAuthorized(s) PROVE FALSE
    BY <1>1, <1>2, <2>3 DEF ClaimItem, NotAuthorized, Settle, JoinTyped, RowsTyped
  <2>4. ASSUME NEW k \in Item, FloodOver(k) PROVE FALSE
    BY <1>1, <1>2, <2>4 DEF FloodOver, JoinTyped, RowsTyped
  <2>5. ASSUME UNCHANGED rowJ PROVE FALSE
    BY <1>1, <1>2, <2>5 DEF rowJ
  <2> QED
    BY <2>1, <2>2, <2>3, <2>4, <2>5
       DEF JoinNext, joinVars, JoinUser, RemoveFromQueue, ClearQueue, SetPaused, BeginBatch, BatchJoin,
           BatchLog, BatchFails, HourPasses, Midnight, JoinSchedStep, JoinTick, JoinTickDone, CheckAccount,
           PickItem, Connect, Join, LogItem, TurnFails, JoinCrash
<1>4. PICK s \in JoinSched : PersistItem(s)
  BY <1>3
<1>5. outcome[s] = "flood_wait" /\ i = jitem[s] /\ jitem[s] \in Item /\ AccountOfItem[i] = jacc[s]
  BY <1>1, <1>2, <1>4 DEF PersistItem, Settle, JoinTyped, RowsTyped, SchedsTyped, SchedOK
<1> QED
  BY <1>2, <1>4, <1>5 DEF PersistItem

(* The queue does not join with an account that Telegram told to wait: the *)
(* only scheduler has left the account when one of its links comes to wait *)
(* and does not enter it as long as one does.                              *)
THEOREM FloodIsRespected == ASSUME OneJoinScheduler PROVE JoinSpec => []FloodRespected
<1>1. JoinInit => FloodRespected
  BY DEF JoinInit, FloodRespected
<1>2. FloodRespected /\ JoinTyped /\ [JoinNext]_joinVars => FloodRespected'
  <2> SUFFICES ASSUME FloodRespected, JoinTyped, [JoinNext]_joinVars, NEW s \in JoinSched,
                      jpc'[s] \in {"pick", "claim", "connect", "join"}
               PROVE  ~Flooded(jacc[s])'
    BY DEF FloodRespected
  <2> DEFINE a == jacc'[s]
  <2>1. jacc'[s] \in JoinAccount
    BY JoinStep DEF JoinTyped, SchedsTyped, SchedOK
  <2>2. ~Flooded(a)
    <3>1. CASE CheckAccount(s)
      <4>1. PICK b \in jtodo[s] : \/ MayJoin(b) /\ jpc' = [jpc EXCEPT ![s] = "pick"] /\ jacc' = [jacc EXCEPT ![s] = b]
                                  \/ UNCHANGED <<jpc, jacc>>
        BY <3>1 DEF CheckAccount
      <4>2. jpc[s] = "next"
        BY <3>1 DEF CheckAccount
      <4>3. MayJoin(b) /\ jacc'[s] = b
        BY <4>1, <4>2 DEF JoinTyped, SchedsTyped
      <4> QED
        BY <4>3 DEF MayJoin
    <3>2. CASE ~CheckAccount(s)
      <4>1. jacc'[s] = jacc[s] /\ jpc[s] \in {"pick", "claim", "connect", "join"}
        <5>1. ASSUME NEW t \in JoinSched, JoinSchedStep(t) \/ TurnFails(t) \/ JoinCrash(t)
              PROVE  jacc'[s] = jacc[s] /\ jpc[s] \in {"pick", "claim", "connect", "join"}
          <6>1. t = s
            BY DEF OneJoinScheduler
          <6>2. ~Leave(s) /\ ~JoinCrash(s)
            BY LeaveTyped, CrashTyped DEF JoinTyped
          <6> QED
            BY <3>2, <5>1, <6>1, <6>2
               DEF JoinSchedStep, JoinTick, JoinTickDone, PickItem, ClaimItem, Connect, NotAuthorized, Join,
                   PersistItem, LogItem, TurnFails, JoinTyped, SchedsTyped
        <5>2. CASE UNCHANGED schedJ
          BY <5>2 DEF schedJ
        <5> QED
          BY <5>1, <5>2 DEF JoinNext, joinVars, JoinUser, AddToQueue, RemoveFromQueue, ClearQueue, Delete, SetPaused,
                  BeginBatch, BatchJoin, BatchLog, BatchFails, FloodOver, HourPasses, Midnight
      <4> QED
        BY <4>1 DEF FloodRespected
    <3> QED
      BY <3>1, <3>2
  <2>3. ~\E t \in JoinSched : PersistItem(t) /\ jacc[t] = a /\ Leave(t)
    <3>1. \A t \in JoinSched : t = s
      BY DEF OneJoinScheduler
    <3> QED
      BY <3>1, LeaveTyped DEF JoinTyped
  <2>4. ~Flooded(a) => ~(\E i \in Items(a) : jstatus'[i] = "flood_wait" /\ until'[i] = "ahead")
    BY <2>1, <2>3, FloodedBy DEF Flooded, Items
  <2> QED
    BY <2>2, <2>4 DEF Flooded, Items
<1> QED
  BY <1>1, <1>2, JoinHolds, PTL DEF JoinSpec

(* An item in hand is not queued, unless it is about to be claimed, and    *)
(* has not been joined until the scheduler is past the join.               *)
Untouched(i) == calls[i] = 0 /\ jstatus[i] \notin {"absent"}

JoinedInv ==
    /\ \A i \in Item : calls[i] <= 1
    /\ \A i \in Item : jstatus[i] \in {"absent", "queued"} => calls[i] = 0
    /\ \A s \in JoinSched : jpc[s] \in {"claim", "connect", "join"} => Untouched(jitem[s])
    /\ \A s \in JoinSched : jpc[s] \in {"connect", "join", "persist", "log"} =>
          jstatus[jitem[s]] \notin {"absent", "queued"}

LEMMA JoinedStep ==
    ASSUME OneJoinScheduler
    PROVE  JoinedInv /\ JoinTyped /\ [JoinNext]_joinVars => JoinedInv'
<1> SUFFICES ASSUME JoinedInv, JoinTyped, [JoinNext]_joinVars PROVE JoinedInv'
  OBVIOUS
<1> USE DEF Untouched
<1>1. CASE UNCHANGED <<jstatus, calls, jpc, jitem>>
  BY <1>1 DEF JoinedInv
<1>2. ASSUME NEW S, Delete(S) PROVE JoinedInv'
  <2>1. /\ \A i \in Item : jstatus'[i] = jstatus[i] \/ jstatus'[i] = "deleted"
        /\ UNCHANGED <<calls, jpc, jitem>>
    BY <1>2 DEF Delete, histJ, schedJ
  <2>2. \A s \in JoinSched : jpc[s] \in {"claim", "connect", "join", "persist", "log"} => jitem[s] \in Item
    BY DEF JoinTyped, SchedsTyped, SchedOK
  <2> QED
    BY <2>1, <2>2 DEF JoinedInv
<1>3. ASSUME NEW k \in Item, AddToQueue(k) PROVE JoinedInv'
  <2>1. /\ jstatus[k] = "absent" /\ jstatus'[k] = "queued" /\ \A i \in Item : i # k => jstatus'[i] = jstatus[i]
        /\ UNCHANGED <<calls, jpc, jitem>>
    BY <1>3 DEF AddToQueue, histJ, schedJ, JoinTyped, RowsTyped
  <2>2. \A s \in JoinSched : jpc[s] \in {"claim", "connect", "join", "persist", "log"} =>
           jitem[s] \in Item /\ jitem[s] # k
    BY <2>1 DEF JoinTyped, SchedsTyped, SchedOK, JoinedInv
  <2> QED
    BY <2>1, <2>2 DEF JoinedInv
<1>4. ASSUME NEW s \in JoinSched, JoinSchedStep(s) \/ TurnFails(s) \/ JoinCrash(s) PROVE JoinedInv'
  <2>0. /\ \A t \in JoinSched : t = s
        /\ jpc[s] \in {"claim", "connect", "join", "persist", "log"} => jitem[s] \in Item
    BY DEF OneJoinScheduler, JoinTyped, SchedsTyped, SchedOK
  <2>1. ASSUME UNCHANGED calls, jpc'[s] \notin {"claim", "connect", "join", "persist", "log"},
               \A i \in Item : jstatus'[i] \in {"absent", "queued"} => jstatus'[i] = jstatus[i]
        PROVE  JoinedInv'
    BY <2>0, <2>1 DEF JoinedInv
  <2>2. CASE JoinTick(s) \/ JoinTickDone(s) \/ CheckAccount(s)
    BY <2>1, <2>2 DEF JoinTick, JoinTickDone, CheckAccount, rowJ, histJ, JoinTyped, SchedsTyped
  <2>3. CASE LogItem(s) \/ TurnFails(s) \/ JoinCrash(s)
    <3>1. jpc'[s] \in {"next", "idle"}
      BY <2>3, LeaveTyped, CrashTyped DEF LogItem, TurnFails, JoinTyped
    <3> QED
      BY <2>1, <2>3, <3>1 DEF LogItem, TurnFails, JoinCrash, rowJ, histJ
  <2>4. CASE NotAuthorized(s)
    <3>1. jpc'[s] = "next"
      BY <2>4, LeaveTyped DEF NotAuthorized, JoinTyped
    <3> QED
      BY <2>0, <2>1, <2>4, <3>1 DEF NotAuthorized, Settle, histJ, JoinTyped, RowsTyped
  <2>5. CASE PickItem(s)
    <3>1. CASE Leave(s)
      <4>1. jpc'[s] = "next"
        BY <3>1, LeaveTyped DEF JoinTyped
      <4> QED
        BY <2>1, <2>5, <4>1 DEF PickItem, rowJ, histJ
    <3>2. CASE ~Leave(s)
      <4>1. PICK i \in Waiting(jacc[s]) : jitem' = [jitem EXCEPT ![s] = i]
        BY <2>5, <3>2 DEF PickItem
      <4>2. jpc' = [jpc EXCEPT ![s] = "claim"] /\ UNCHANGED <<jstatus, calls>>
        BY <2>5, <3>2 DEF PickItem, rowJ, histJ
      <4>3. i \in Item /\ jstatus[i] = "queued" /\ jitem'[s] = i /\ jpc'[s] = "claim"
        BY <4>1, <4>2 DEF Waiting, Queued, Items, JoinTyped, SchedsTyped
      <4> QED
        BY <2>0, <4>2, <4>3 DEF JoinedInv
    <3> QED
      BY <3>1, <3>2
  <2>6. CASE ClaimItem(s)
    <3>1. CASE jstatus[jitem[s]] = "deleted"
      <4>1. jpc'[s] = "next"
        BY <2>6, <3>1, LeaveTyped DEF ClaimItem, JoinTyped
      <4> QED
        BY <2>1, <2>6, <3>1, <4>1 DEF ClaimItem, histJ
    <3>2. CASE jstatus[jitem[s]] # "deleted"
      <4>1. /\ jstatus' = [jstatus EXCEPT ![jitem[s]] = "processing"] /\ jpc' = [jpc EXCEPT ![s] = "connect"]
            /\ UNCHANGED <<jitem, calls>> /\ jpc[s] = "claim"
        BY <2>6, <3>2 DEF ClaimItem, histJ
      <4> QED
        BY <2>0, <4>1 DEF JoinedInv, JoinTyped, RowsTyped, SchedsTyped
    <3> QED
      BY <3>1, <3>2
  <2>7. CASE Connect(s)
    BY <2>0, <2>7 DEF Connect, rowJ, JoinedInv, JoinTyped, SchedsTyped
  <2>8. CASE Join(s)
    <3>1. /\ jpc[s] = "join" /\ jpc' = [jpc EXCEPT ![s] = "persist"] /\ UNCHANGED <<jstatus, jitem>>
          /\ calls' = [calls EXCEPT ![jitem[s]] = UpTo(calls[jitem[s]], 2)]
      BY <2>8 DEF Join, rowJ
    <3>2. jitem[s] \in Item /\ calls[jitem[s]] = 0 /\ jstatus[jitem[s]] \notin {"absent", "queued"}
      BY <2>0, <3>1 DEF JoinedInv
    <3>3. UpTo(0, 2) = 1
      BY DEF UpTo
    <3>4. calls'[jitem[s]] = 1 /\ \A i \in Item : i # jitem[s] => calls'[i] = calls[i]
      BY <3>1, <3>2, <3>3 DEF JoinTyped, CountsTyped
    <3>5. jpc'[s] = "persist"
      BY <3>1 DEF JoinTyped, SchedsTyped
    <3> QED
      BY <2>0, <3>1, <3>2, <3>4, <3>5 DEF JoinedInv
  <2>9. CASE PersistItem(s)
    <3>1. jpc[s] = "persist" /\ outcome[s] \in Results /\ jitem[s] \in Item
      BY <2>0, <2>9 DEF PersistItem, JoinTyped, SchedsTyped, SchedOK
    <3>2. /\ \A i \in Item : jstatus'[i] = jstatus[i] \/ (i = jitem[s] /\ jstatus'[i] = outcome[s])
          /\ UNCHANGED calls
      BY <2>9, <3>1 DEF PersistItem, Settle, JoinTyped, RowsTyped
    <3>3. jstatus'[jitem[s]] \notin {"absent", "queued"}
      BY <3>1, <3>2 DEF JoinedInv, Results
    <3>4. jpc'[s] = "next" \/ (jpc'[s] = "log" /\ jitem'[s] = jitem[s])
      BY <2>9, LeaveTyped DEF PersistItem, JoinTyped, SchedsTyped
    <3> QED
      BY <2>0, <3>1, <3>2, <3>3, <3>4 DEF JoinedInv, Results
  <2> QED
    BY <1>4, <2>2, <2>3, <2>4, <2>5, <2>6, <2>7, <2>8, <2>9 DEF JoinSchedStep
<1> QED
  BY <1>1, <1>2, <1>3, <1>4
     DEF JoinNext, joinVars, rowJ, schedJ, histJ, JoinUser, RemoveFromQueue, ClearQueue, SetPaused, BeginBatch,
         BatchJoin, BatchLog, BatchFails, FloodOver, HourPasses, Midnight

(* No link is joined twice, whatever fails in between: a link that was     *)
(* joined is not queued again, and only what is queued is picked.          *)
THEOREM LinkJoinedOnce == ASSUME OneJoinScheduler PROVE JoinSpec => []JoinedOnce
<1>1. JoinInit => JoinedInv
  BY DEF JoinInit, JoinedInv
<1>2. JoinedInv => JoinedOnce
  BY DEF JoinedInv, JoinedOnce
<1> QED
  BY <1>1, <1>2, JoinedStep, JoinHolds, PTL DEF JoinSpec

(* While an account is paused, at most one join begins, and then its       *)
(* scheduler is past the check of the pause for good.                      *)
PauseInv ==
    /\ \A a \in JoinAccount : joinedPaused[a] <= 1
    /\ \A a \in JoinAccount : ~jpaused[a] => joinedPaused[a] = 0
    /\ \A s \in JoinSched : jpc[s] \in {"pick", "claim", "connect"} => joinedPaused[jacc[s]] = 0

LEMMA PauseStep ==
    ASSUME OneJoinScheduler
    PROVE  PauseInv /\ JoinTyped /\ [JoinNext]_joinVars => PauseInv'
<1> SUFFICES ASSUME PauseInv, JoinTyped, [JoinNext]_joinVars PROVE PauseInv'
  OBVIOUS
<1>1. CASE UNCHANGED <<jpaused, joinedPaused, jpc, jacc>>
  BY <1>1 DEF PauseInv
<1>2. ASSUME NEW a \in JoinAccount, NEW v \in BOOLEAN, SetPaused(a, v) PROVE PauseInv'
  <2>1. joinedPaused' = [joinedPaused EXCEPT ![a] = 0] /\ jpaused' = [jpaused EXCEPT ![a] = v]
        /\ UNCHANGED <<jpc, jacc>>
    BY <1>2 DEF SetPaused, schedJ
  <2>2. \A s \in JoinSched : jpc[s] \in {"pick", "claim", "connect"} => jacc[s] \in JoinAccount
    BY DEF JoinTyped, SchedsTyped, SchedOK
  <2> QED
    BY <2>1, <2>2 DEF PauseInv, JoinTyped, CountsTyped
<1>3. ASSUME NEW s \in JoinSched, JoinSchedStep(s) \/ TurnFails(s) \/ JoinCrash(s) PROVE PauseInv'
  <2>0. /\ \A t \in JoinSched : t = s
        /\ jpc[s] \in {"pick", "claim", "connect"} => jacc[s] \in JoinAccount
    BY DEF OneJoinScheduler, JoinTyped, SchedsTyped, SchedOK
  <2>1. ASSUME UNCHANGED <<jpaused, joinedPaused>>,
               jpc'[s] \in {"pick", "claim", "connect"} =>
                  jpc[s] \in {"pick", "claim", "connect"} /\ jacc'[s] = jacc[s]
        PROVE  PauseInv'
    BY <2>0, <2>1 DEF PauseInv
  <2>2. CASE CheckAccount(s)
    <3>1. PICK b \in jtodo[s] : \/ MayJoin(b) /\ jpc' = [jpc EXCEPT ![s] = "pick"] /\ jacc' = [jacc EXCEPT ![s] = b]
                                \/ UNCHANGED <<jpc, jacc>>
      BY <2>2 DEF CheckAccount
    <3>2. jpc[s] = "next" /\ UNCHANGED <<jpaused, joinedPaused>> /\ b \in JoinAccount
      BY <2>2 DEF CheckAccount, JoinTyped, SchedsTyped
    <3>3. CASE UNCHANGED <<jpc, jacc>>
      BY <2>1, <3>2, <3>3
    <3>4. CASE MayJoin(b) /\ jpc' = [jpc EXCEPT ![s] = "pick"] /\ jacc' = [jacc EXCEPT ![s] = b]
      <4>1. jacc'[s] = b /\ joinedPaused[b] = 0
        BY <3>2, <3>4 DEF MayJoin, PauseInv, JoinTyped, SchedsTyped
      <4> QED
        BY <2>0, <3>2, <4>1 DEF PauseInv
    <3> QED
      BY <3>1, <3>3, <3>4
  <2>3. CASE Connect(s)
    <3>1. jpc[s] = "connect" /\ jpc' = [jpc EXCEPT ![s] = "join"] /\ UNCHANGED <<jpaused, jacc>>
      BY <2>3 DEF Connect
    <3>2. joinedPaused[jacc[s]] = 0 /\ jacc[s] \in JoinAccount
      BY <2>0, <3>1 DEF PauseInv
    <3>3. \/ joinedPaused' = [joinedPaused EXCEPT ![jacc[s]] = 1] /\ jpaused[jacc[s]]
          \/ UNCHANGED joinedPaused
      BY <2>3, <3>2 DEF Connect, UpTo
    <3>4. jpc'[s] = "join"
      BY <3>1 DEF JoinTyped, SchedsTyped
    <3> QED
      BY <2>0, <3>1, <3>2, <3>3, <3>4 DEF PauseInv, JoinTyped, CountsTyped
  <2>4. CASE ~CheckAccount(s) /\ ~Connect(s)
    <3>1. UNCHANGED <<jpaused, joinedPaused>>
      BY <1>3, <2>4 DEF JoinSchedStep, JoinTick, JoinTickDone, PickItem, ClaimItem, NotAuthorized, Join,
                        PersistItem, LogItem, TurnFails, JoinCrash, histJ
    <3>2. Leave(s) \/ JoinCrash(s) => jpc'[s] \in {"next", "idle"}
      BY LeaveTyped, CrashTyped DEF JoinTyped
    <3>3. CASE ~Leave(s) /\ ~JoinCrash(s)
      BY <1>3, <2>1, <2>4, <3>1, <3>3
         DEF JoinSchedStep, JoinTick, JoinTickDone, PickItem, ClaimItem, NotAuthorized, Join,
             PersistItem, LogItem, TurnFails, JoinTyped, SchedsTyped
    <3> QED
      BY <2>1, <3>1, <3>2, <3>3
  <2> QED
    BY <2>2, <2>3, <2>4
<1> QED
  BY <1>1, <1>2, <1>3
     DEF JoinNext, joinVars, schedJ, histJ, JoinUser, AddToQueue, RemoveFromQueue, ClearQueue, Delete, BeginBatch,
         BatchJoin, BatchLog, BatchFails, FloodOver, HourPasses, Midnight

(* After a pause at most the item already under way is joined.             *)
THEOREM PauseStopsJoins == ASSUME OneJoinScheduler PROVE JoinSpec => []PauseStopsQueue
<1>1. JoinInit => PauseInv
  BY DEF JoinInit, PauseInv
<1>2. PauseInv => PauseStopsQueue
  BY DEF PauseInv, PauseStopsQueue
<1> QED
  BY <1>1, <1>2, PauseStep, JoinHolds, PTL DEF JoinSpec

-----------------------------------------------------------------------------
(* The daily limit, with any number of schedulers and requests.            *)

QueueHas(s, a) == jacc[s] = a
BatchHas(c, a) == batch[c].account = a

(* A join that was made and not logged yet. *)
Pending1(a) == \/ \E s \in JoinSched : QueueHas(s, a) /\ outcome[s] = "success"
               \/ \E c \in Caller : BatchHas(c, a) /\ batch[c].joined = "success"

Sole(a) ==
    /\ \A s, t \in JoinSched : QueueHas(s, a) /\ QueueHas(t, a) => s = t
    /\ \A c, d \in Caller : BatchHas(c, a) /\ BatchHas(d, a) => c = d
    /\ \A s \in JoinSched, c \in Caller : ~(QueueHas(s, a) /\ BatchHas(c, a))

(* As long as nobody has joined beside another and every join was logged,  *)
(* the log is at most one join behind, and who joins has read it.          *)
Counted(a) ==
    /\ Sole(a)
    /\ made[a] <= today[a] + 1 /\ made[a] <= DailyLimit
    /\ Pending1(a) \/ made[a] <= today[a]
    /\ \A s \in JoinSched : QueueHas(s, a) /\ jpc[s] \in {"pick", "claim", "connect", "join"} =>
          today[a] < DailyLimit
    /\ \A c \in Caller : BatchHas(c, a) => today[a] + batch[c].left <= DirectLimit

BudgetInv == \A a \in JoinAccount : unlogged[a] \/ overlapped[a] \/ Counted(a)

(* What is not about an account does not disturb its count. *)
LEMMA CountFrame ==
    ASSUME JoinTyped, NEW a \in JoinAccount, Counted(a), made'[a] = made[a], today'[a] = today[a],
           \A s \in JoinSched : QueueHas(s, a)' => QueueHas(s, a),
           \A c \in Caller : BatchHas(c, a)' => BatchHas(c, a),
           \A s \in JoinSched : QueueHas(s, a)' /\ jpc'[s] \in {"pick", "claim", "connect", "join"} =>
              jpc[s] \in {"pick", "claim", "connect", "join"},
           \A c \in Caller : BatchHas(c, a)' => batch'[c].left <= batch[c].left /\ batch'[c].left \in Nat,
           Pending1(a) => Pending1(a)'
    PROVE  Counted(a)'
<1>1. made[a] \in Nat /\ today[a] \in Nat /\ DailyLimit \in Nat /\ DirectLimit \in Nat
  BY LimitTyped DEF JoinTyped, CountsTyped
<1>2. \A c \in Caller : batch[c].left \in Nat
  BY LimitTyped DEF JoinTyped, BatchesTyped, BatchRow
<1>3. Sole(a)'
  BY DEF Counted, Sole
<1>4. \A c \in Caller : BatchHas(c, a)' => today'[a] + batch'[c].left <= DirectLimit
  BY <1>1, <1>2 DEF Counted
<1> QED
  BY <1>1, <1>3, <1>4 DEF Counted

(* A scheduler moves on with what it has, or lets go of what it need not   *)
(* log.                                                                    *)
LEMMA SchedulerFrame ==
    ASSUME JoinTyped, NEW a \in JoinAccount, Counted(a), NEW s \in JoinSched,
           UNCHANGED <<made, today, batch>>,
           \A t \in JoinSched : t # s => jpc'[t] = jpc[t] /\ jacc'[t] = jacc[t] /\ outcome'[t] = outcome[t],
           \/ jacc'[s] = NoItem /\ ~(QueueHas(s, a) /\ outcome[s] = "success")
           \/ /\ jacc'[s] = jacc[s] /\ outcome'[s] = outcome[s]
              /\ jpc'[s] \in {"pick", "claim", "connect", "join"} => jpc[s] \in {"pick", "claim", "connect", "join"}
    PROVE  Counted(a)'
<1>1. \A t \in JoinSched : QueueHas(t, a)' => QueueHas(t, a)
  BY LimitTyped DEF QueueHas
<1>2. \A c \in Caller : BatchHas(c, a)' <=> BatchHas(c, a)
  BY DEF BatchHas
<1>3. \A c \in Caller : batch'[c].left <= batch[c].left /\ batch'[c].left \in Nat
  BY LimitTyped DEF JoinTyped, BatchesTyped, BatchRow
<1>4. \A t \in JoinSched : QueueHas(t, a)' /\ jpc'[t] \in {"pick", "claim", "connect", "join"} =>
                         jpc[t] \in {"pick", "claim", "connect", "join"}
  BY LimitTyped DEF QueueHas
<1>5. Pending1(a) => Pending1(a)'
  BY DEF Pending1, QueueHas, BatchHas
<1> QED
  BY <1>1, <1>2, <1>3, <1>4, <1>5, CountFrame

(* A joiner that finds no other begins. *)
LEMMA NobodyElse ==
    ASSUME NEW a \in JoinAccount, JoinTyped, NoteJoiner(a), ~overlapped'[a]
    PROVE  /\ ~overlapped[a] /\ \A s \in JoinSched : ~QueueHas(s, a)
           /\ \A c \in Caller : ~BatchHas(c, a)
BY DEF NoteJoiner, Joiners, QueueHas, BatchHas, JoinTyped, CountsTyped

(* A join is made by who may still make one. *)
LEMMA OneMoreMade ==
    ASSUME JoinTyped, NEW a \in JoinAccount, Counted(a), ~Pending1(a), today[a] < DailyLimit,
           NoteJoined(a) \/ UNCHANGED made
    PROVE  /\ made'[a] <= today[a] + 1 /\ made'[a] <= DailyLimit
           /\ UNCHANGED made => made'[a] <= today[a]
<1>1. made[a] \in Nat /\ today[a] \in Nat /\ DailyLimit \in Nat /\ made[a] <= today[a]
  BY LimitTyped DEF JoinTyped, CountsTyped, Counted
<1>2. NoteJoined(a) => made'[a] = made[a] + 1
  BY <1>1 DEF NoteJoined, UpTo, JoinTyped, CountsTyped
<1> QED
  BY <1>1, <1>2

LEMMA QueueCounts ==
    ASSUME JoinTyped, NEW a \in JoinAccount, NEW s \in JoinSched,
           JoinSchedStep(s) \/ TurnFails(s) \/ JoinCrash(s),
           unlogged[a] \/ overlapped[a] \/ Counted(a), ~unlogged'[a], ~overlapped'[a]
    PROVE  Counted(a)'
<1> USE DEF QueueHas
<1>1. \A b \in JoinAccount : unlogged[b] \in BOOLEAN /\ overlapped[b] \in BOOLEAN
  BY DEF JoinTyped, CountsTyped
<1>2. \A c \in Caller : BatchHas(c, a)' => batch'[c].left \in Nat
  BY JoinStep, LimitTyped DEF JoinTyped, BatchesTyped, BatchRow, JoinNext
<1>3. CASE JoinTick(s) \/ JoinTickDone(s) \/ PickItem(s) \/ ClaimItem(s) \/ Connect(s) \/ NotAuthorized(s)
  <2>1. UNCHANGED <<made, today, batch, unlogged, overlapped>>
    BY <1>3 DEF JoinTick, JoinTickDone, PickItem, ClaimItem, Connect, NotAuthorized, countJ, histJ
  <2>2. outcome[s] = "none"
    BY <1>3 DEF JoinTick, JoinTickDone, PickItem, ClaimItem, Connect, NotAuthorized, JoinTyped, SchedsTyped, SchedOK
  <2>3. CASE Leave(s)
    <3>1. jacc'[s] = NoItem /\ \A t \in JoinSched : t # s =>
             jpc'[t] = jpc[t] /\ jacc'[t] = jacc[t] /\ outcome'[t] = outcome[t]
      BY <2>3, LeaveTyped DEF JoinTyped
    <3> QED
      BY <2>1, <2>2, <3>1, SchedulerFrame
  <2>4. CASE ~Leave(s)
    <3>1. /\ UNCHANGED <<jacc, outcome>>
          /\ \A t \in JoinSched : t # s => jpc'[t] = jpc[t]
          /\ jpc'[s] \in {"pick", "claim", "connect", "join"} => jpc[s] \in {"pick", "claim", "connect", "join"}
      BY <1>3, <2>4 DEF JoinTick, JoinTickDone, PickItem, ClaimItem, Connect, NotAuthorized, JoinTyped, SchedsTyped
    <3> QED
      BY <2>1, <3>1, SchedulerFrame
  <2> QED
    BY <2>3, <2>4
<1>4. CASE CheckAccount(s)
  <2>1. PICK b \in jtodo[s] :
           \/ /\ MayJoin(b) /\ jpc' = [jpc EXCEPT ![s] = "pick"] /\ jacc' = [jacc EXCEPT ![s] = b]
              /\ NoteJoiner(b)
           \/ UNCHANGED <<jpc, jacc, overlapped>>
    BY <1>4 DEF CheckAccount
  <2>2. /\ UNCHANGED <<made, today, batch, unlogged, outcome>> /\ jpc[s] = "next" /\ b \in JoinAccount
        /\ outcome[s] = "none" /\ jacc[s] = NoItem
    BY <1>4 DEF CheckAccount, countJ, JoinTyped, SchedsTyped, SchedOK
  <2>3. CASE UNCHANGED <<jpc, jacc, overlapped>>
    BY <2>2, <2>3, SchedulerFrame
  <2>4. CASE MayJoin(b) /\ jpc' = [jpc EXCEPT ![s] = "pick"] /\ jacc' = [jacc EXCEPT ![s] = b] /\ NoteJoiner(b)
    <3>1. /\ jacc'[s] = b /\ jpc'[s] = "pick"
          /\ \A t \in JoinSched : t # s => jpc'[t] = jpc[t] /\ jacc'[t] = jacc[t]
      BY <2>4 DEF JoinTyped, SchedsTyped
    <3>2. CASE b # a
      <4>1. overlapped'[a] = overlapped[a]
        BY <2>4, <3>2 DEF NoteJoiner, JoinTyped, CountsTyped
      <4>2. Counted(a)
        BY <2>2, <4>1
      <4>3. \A t \in JoinSched : QueueHas(t, a)' => QueueHas(t, a) /\ jpc'[t] = jpc[t]
        BY <3>1, <3>2
      <4>4. Pending1(a) => Pending1(a)'
        BY <2>2, <3>1, LimitTyped DEF Pending1, BatchHas
      <4>5. \A c \in Caller : batch'[c].left <= batch[c].left /\ batch'[c].left \in Nat
        BY <2>2, LimitTyped DEF JoinTyped, BatchesTyped, BatchRow
      <4> QED
        BY <2>2, <4>2, <4>3, <4>4, <4>5, CountFrame DEF BatchHas
    <3>3. CASE b = a
      <4>1. ~overlapped[a] /\ (\A t \in JoinSched : ~QueueHas(t, a)) /\ \A c \in Caller : ~BatchHas(c, a)
        BY <2>4, <3>3, NobodyElse
      <4>2. Counted(a) /\ ~Pending1(a)
        BY <2>2, <4>1 DEF Pending1
      <4>3. today[a] < DailyLimit
        BY <2>4, <3>3, LimitTyped DEF MayJoin, JoinTyped, CountsTyped
      <4>4. \A c \in Caller : ~BatchHas(c, a)'
        BY <2>2, <4>1 DEF BatchHas
      <4>5. \A t \in JoinSched : QueueHas(t, a)' => t = s
        BY <3>1, <4>1
      <4>6. Sole(a)'
        BY <4>4, <4>5 DEF Sole
      <4> QED
        BY <2>2, <4>2, <4>3, <4>4, <4>6 DEF Counted
    <3> QED
      BY <3>2, <3>3
  <2> QED
    BY <2>1, <2>3, <2>4
<1>5. CASE Join(s)
  <2>1. /\ jpc[s] = "join" /\ jpc' = [jpc EXCEPT ![s] = "persist"]
        /\ UNCHANGED <<today, batch, jacc, overlapped>> /\ jacc[s] \in JoinAccount
        /\ NoteJoined(jacc[s]) \/ UNCHANGED made
    BY <1>5 DEF Join, countJ, JoinTyped, SchedsTyped, SchedOK
  <2>2. /\ \/ outcome' = [outcome EXCEPT ![s] = "success"] /\ UNCHANGED unlogged
           \/ unlogged' = [unlogged EXCEPT ![jacc[s]] = TRUE]
           \/ UNCHANGED <<made, unlogged>>
        /\ \E o \in Results : outcome' = [outcome EXCEPT ![s] = o]
    BY <1>5 DEF Join, Results
  <2>3. ~unlogged[a]
    BY <1>1, <2>1, <2>2 DEF JoinTyped, CountsTyped
  <2>4. Counted(a)
    BY <2>1, <2>3
  <2>5. /\ jpc'[s] = "persist"
        /\ \A t \in JoinSched : t # s => jpc'[t] = jpc[t] /\ outcome'[t] = outcome[t]
    BY <2>1, <2>2 DEF JoinTyped, SchedsTyped
  <2>6. outcome[s] = "none"
    BY <2>1 DEF JoinTyped, SchedsTyped, SchedOK
  <2>7. CASE jacc[s] # a
    <3>1. made'[a] = made[a]
      BY <2>1, <2>7 DEF NoteJoined, JoinTyped, CountsTyped
    <3>2. Pending1(a) => Pending1(a)'
      BY <2>1, <2>5, <2>7 DEF Pending1, BatchHas
    <3>3. \A c \in Caller : batch'[c].left <= batch[c].left /\ batch'[c].left \in Nat
      BY <2>1, LimitTyped DEF JoinTyped, BatchesTyped, BatchRow
    <3> QED
      BY <2>1, <2>4, <2>5, <3>1, <3>2, <3>3, CountFrame DEF BatchHas
  <2>8. CASE jacc[s] = a
    <3>1. ~Pending1(a)
      BY <2>4, <2>6, <2>8 DEF Pending1, Counted, Sole
    <3>2. today[a] < DailyLimit
      BY <2>1, <2>4, <2>8 DEF Counted
    <3>3. /\ made'[a] <= today[a] + 1 /\ made'[a] <= DailyLimit
          /\ UNCHANGED made => made'[a] <= today[a]
      BY <2>1, <2>4, <2>8, <3>1, <3>2, OneMoreMade
    <3>4. \/ UNCHANGED made
          \/ outcome'[s] = "success"
      BY <1>1, <2>1, <2>2, <2>8 DEF JoinTyped, CountsTyped, SchedsTyped
    <3>5. Pending1(a)' \/ made'[a] <= today[a]
      BY <2>1, <2>8, <3>3, <3>4 DEF Pending1
    <3>6. Sole(a)' /\ \A c \in Caller : ~BatchHas(c, a)'
      BY <2>1, <2>4, <2>8 DEF Counted, Sole, BatchHas
    <3>7. \A t \in JoinSched : QueueHas(t, a)' => t = s
      BY <2>1, <2>4, <2>8 DEF Counted, Sole
    <3> QED
      BY <2>1, <2>5, <3>3, <3>5, <3>6, <3>7 DEF Counted
  <2> QED
    BY <2>7, <2>8
<1>6. CASE PersistItem(s) \/ TurnFails(s) \/ JoinCrash(s)
  <2>1. UNCHANGED <<made, today, batch, overlapped>>
    BY <1>6 DEF PersistItem, TurnFails, JoinCrash, countJ
  <2>2. CASE DropOutcome(s) /\ (Leave(s) \/ JoinCrash(s))
    <3>1. jacc'[s] = NoItem /\ \A t \in JoinSched : t # s =>
             jpc'[t] = jpc[t] /\ jacc'[t] = jacc[t] /\ outcome'[t] = outcome[t]
      BY <2>2, LeaveTyped, CrashTyped DEF JoinTyped
    <3>2. ~unlogged[a] /\ ~(QueueHas(s, a) /\ outcome[s] = "success")
      BY <2>2 DEF DropOutcome
    <3>3. Counted(a)
      BY <2>1, <3>2
    <3> QED
      BY <2>1, <3>1, <3>2, <3>3, SchedulerFrame
  <2>3. CASE /\ jpc[s] = "persist" /\ jpc' = [jpc EXCEPT ![s] = "log"]
             /\ UNCHANGED <<jacc, outcome, unlogged>>
    <3>1. jpc'[s] = "log" /\ \A t \in JoinSched : t # s => jpc'[t] = jpc[t]
      BY <2>3 DEF JoinTyped, SchedsTyped
    <3>2. Counted(a)
      BY <2>1, <2>3
    <3> QED
      BY <2>1, <2>3, <3>1, <3>2, SchedulerFrame
  <2> QED
    BY <1>6, <2>2, <2>3 DEF PersistItem, TurnFails, JoinCrash
<1>7. CASE LogItem(s)
  <2>1. UNCHANGED <<made, batch, unlogged, overlapped>> /\ jpc[s] = "log" /\ Leave(s)
    BY <1>7 DEF LogItem, histJ
  <2>2. Counted(a)
    BY <2>1
  <2>3. jacc'[s] = NoItem /\ \A t \in JoinSched : t # s =>
             jpc'[t] = jpc[t] /\ jacc'[t] = jacc[t] /\ outcome'[t] = outcome[t]
    BY <2>1, LeaveTyped DEF JoinTyped
  <2>4. CASE outcome[s] # "success" \/ jacc[s] # a
    <3>1. today'[a] = today[a]
      BY <1>7, <2>4 DEF LogItem, CountLogged, countJ, JoinTyped, CountsTyped
    <3>2. \A t \in JoinSched : QueueHas(t, a)' => QueueHas(t, a) /\ jpc'[t] = jpc[t]
      BY <2>3, LimitTyped
    <3>3. Pending1(a) => Pending1(a)'
      BY <2>1, <2>3, <2>4 DEF Pending1, BatchHas
    <3>4. \A c \in Caller : batch'[c].left <= batch[c].left /\ batch'[c].left \in Nat
      BY <2>1, LimitTyped DEF JoinTyped, BatchesTyped, BatchRow
    <3> QED
      BY <2>1, <2>2, <3>1, <3>2, <3>3, <3>4, CountFrame DEF BatchHas
  <2>5. CASE outcome[s] = "success" /\ jacc[s] = a
    <3>1. today' = [today EXCEPT ![a] = UpTo(today[a], DailyLimit)]
      BY <1>7, <2>5 DEF LogItem, CountLogged
    <3>2. made[a] \in Nat /\ today[a] \in 0 .. DailyLimit /\ DailyLimit \in Nat
      BY LimitTyped DEF JoinTyped, CountsTyped
    <3>3. made'[a] <= today'[a] /\ made'[a] <= DailyLimit /\ today'[a] \in Nat
      BY <2>1, <2>2, <3>1, <3>2 DEF Counted, UpTo, JoinTyped, CountsTyped
    <3>4. \A t \in JoinSched : ~QueueHas(t, a)'
      BY <2>2, <2>3, <2>5, LimitTyped DEF Counted, Sole
    <3>5. \A c \in Caller : ~BatchHas(c, a)'
      BY <2>1, <2>2, <2>5 DEF Counted, Sole, BatchHas
    <3> QED
      BY <3>2, <3>3, <3>4, <3>5, <2>1 DEF Counted, Sole
  <2> QED
    BY <2>4, <2>5
<1> QED
  BY <1>3, <1>4, <1>5, <1>6, <1>7 DEF JoinSchedStep

(* A request works for another account. *)
LEMMA CallerElsewhere ==
    ASSUME JoinTyped, NEW a \in JoinAccount, Counted(a), NEW c \in Caller,
           made'[a] = made[a], today'[a] = today[a], UNCHANGED <<jpc, jacc, outcome>>,
           \A d \in Caller : d # c => batch'[d] = batch[d],
           ~BatchHas(c, a), batch'[c].account # a
    PROVE  Counted(a)'
<1>1. \A d \in Caller : BatchHas(d, a)' => BatchHas(d, a) /\ batch'[d] = batch[d]
  BY DEF BatchHas
<1>2. \A d \in Caller : BatchHas(d, a)' => batch'[d].left <= batch[d].left /\ batch'[d].left \in Nat
  BY <1>1, LimitTyped DEF JoinTyped, BatchesTyped, BatchRow
<1>3. Pending1(a) => Pending1(a)'
  BY DEF Pending1, QueueHas, BatchHas
<1>4. \A s \in JoinSched : (QueueHas(s, a)' <=> QueueHas(s, a)) /\ jpc'[s] = jpc[s]
  BY DEF QueueHas
<1> QED
  BY <1>1, <1>2, <1>3, <1>4, CountFrame

LEMMA CallerCounts ==
    ASSUME JoinTyped, NEW a \in JoinAccount, NEW c \in Caller,
           (\E b \in JoinAccount : BeginBatch(c, b)) \/ BatchJoin(c) \/ BatchLog(c) \/ BatchFails(c),
           unlogged[a] \/ overlapped[a] \/ Counted(a), ~unlogged'[a], ~overlapped'[a]
    PROVE  Counted(a)'
<1>1. /\ made \in [JoinAccount -> 0 .. DailyLimit + 1] /\ today \in [JoinAccount -> 0 .. DailyLimit]
      /\ unlogged \in [JoinAccount -> BOOLEAN] /\ overlapped \in [JoinAccount -> BOOLEAN]
      /\ batch \in [Caller -> BatchRow]
  BY DEF JoinTyped, CountsTyped, BatchesTyped
<1>2. /\ UNCHANGED <<jpc, jacc, outcome>>
      /\ \A d \in Caller : d # c => batch'[d] = batch[d]
  BY <1>1 DEF BeginBatch, BatchJoin, BatchLog, BatchFails, schedJ
<1>3. ASSUME NEW b \in JoinAccount, BeginBatch(c, b) PROVE Counted(a)'
  <2>1. PICK m \in 1 .. DirectLimit :
           /\ batch' = [batch EXCEPT ![c] = [account |-> b, joined |-> "no", left |-> m]]
           /\ m <= Budget(b)
    <3>1. PICK n \in 1 .. MaxTargets :
             batch' = [batch EXCEPT ![c] = [account |-> b, joined |-> "no",
                                            left |-> IF n < Budget(b) THEN n ELSE Budget(b)]]
      BY <1>3 DEF BeginBatch
    <3>2. Budget(b) \in 1 .. DirectLimit
      <4>1. today[b] \in Nat /\ Budget(b) > 0
        BY <1>1, <1>3 DEF BeginBatch
      <4> QED
        BY <4>1, LimitTyped DEF Budget
    <3> DEFINE m == IF n < Budget(b) THEN n ELSE Budget(b)
    <3>3. m \in 1 .. DirectLimit /\ m <= Budget(b)
      BY <3>2, LimitTyped
    <3> QED
      BY <3>1, <3>3
  <2>2. /\ UNCHANGED <<made, today, unlogged>> /\ NoteJoiner(b) /\ batch[c] = NoBatch
        /\ batch'[c].account = b /\ batch'[c].left = m /\ batch'[c].joined = "no"
    BY <1>1, <1>3, <2>1 DEF BeginBatch, countJ
  <2>3. CASE b # a
    <3>1. overlapped'[a] = overlapped[a]
      BY <1>1, <2>2, <2>3 DEF NoteJoiner
    <3>2. Counted(a) /\ ~BatchHas(c, a)
      BY <2>2, <3>1, LimitTyped DEF BatchHas
    <3> QED
      BY <1>2, <2>2, <2>3, <3>2, CallerElsewhere
  <2>4. CASE b = a
    <3>1. ~overlapped[a] /\ (\A s \in JoinSched : ~QueueHas(s, a)) /\ \A d \in Caller : ~BatchHas(d, a)
      BY <2>2, <2>4, NobodyElse
    <3>2. Counted(a) /\ ~Pending1(a)
      BY <2>2, <3>1 DEF Pending1
    <3>3. (\A s \in JoinSched : ~QueueHas(s, a)') /\ \A d \in Caller : BatchHas(d, a)' => d = c
      BY <1>2, <3>1 DEF QueueHas, BatchHas
    <3>4. today'[a] + batch'[c].left <= DirectLimit
      BY <1>1, <2>1, <2>2, <2>4, LimitTyped DEF Budget
    <3> QED
      BY <2>2, <3>2, <3>3, <3>4 DEF Counted, Sole
  <2> QED
    BY <2>3, <2>4
<1>4. CASE BatchJoin(c)
  <2>1. /\ batch[c].left > 0 /\ batch[c].joined = "no" /\ UNCHANGED <<today, overlapped>>
        /\ NoteJoined(batch[c].account) \/ UNCHANGED made
        /\ \/ batch' = [batch EXCEPT ![c].joined = "success"] /\ UNCHANGED unlogged
           \/ UNCHANGED <<made, unlogged>>
           \/ unlogged' = [unlogged EXCEPT ![batch[c].account] = TRUE]
        /\ \E v \in {"success", "failed"} : batch' = [batch EXCEPT ![c].joined = v]
    BY <1>4 DEF BatchJoin, countJ
  <2>2. ~unlogged[a] /\ Counted(a)
    BY <1>1, <2>1
  <2>3. /\ batch'[c].account = batch[c].account /\ batch'[c].left = batch[c].left
        /\ batch'[c].joined \in {"success", "failed"}
    BY <1>1, <2>1 DEF BatchRow
  <2>4. CASE ~BatchHas(c, a)
    <3>1. made'[a] = made[a]
      BY <1>1, <2>1, <2>4 DEF NoteJoined, BatchHas
    <3> QED
      BY <1>2, <2>1, <2>2, <2>3, <2>4, <3>1, CallerElsewhere DEF BatchHas
  <2>5. CASE BatchHas(c, a)
    <3>1. ~Pending1(a)
      BY <2>1, <2>2, <2>5 DEF Pending1, Counted, Sole
    <3>2. today[a] < DailyLimit
      BY <1>1, <2>1, <2>2, <2>5, LimitTyped DEF Counted, BatchRow
    <3>3. /\ made'[a] <= today[a] + 1 /\ made'[a] <= DailyLimit
          /\ UNCHANGED made => made'[a] <= today[a]
      BY <2>1, <2>2, <2>5, <3>1, <3>2, OneMoreMade DEF BatchHas
    <3>4. UNCHANGED made \/ batch'[c].joined = "success"
      BY <1>1, <2>1, <2>5 DEF BatchHas, BatchRow
    <3>5. /\ \A s \in JoinSched : ~QueueHas(s, a)'
          /\ \A d \in Caller : BatchHas(d, a)' => d = c
          /\ BatchHas(c, a)'
      BY <1>2, <2>2, <2>3, <2>5 DEF Counted, Sole, QueueHas, BatchHas
    <3>6. Pending1(a)' \/ made'[a] <= today[a]
      BY <3>3, <3>4, <3>5 DEF Pending1
    <3>7. today'[a] + batch'[c].left <= DirectLimit
      BY <2>1, <2>2, <2>3, <2>5 DEF Counted
    <3> QED
      BY <2>1, <3>3, <3>5, <3>6, <3>7 DEF Counted, Sole
  <2> QED
    BY <2>4, <2>5
<1>5. CASE BatchLog(c)
  <2>1. /\ UNCHANGED <<made, unlogged, overlapped>> /\ batch[c].joined # "no"
        /\ batch' = [batch EXCEPT ![c] = OneDone(batch[c])]
    BY <1>5 DEF BatchLog, histJ
  <2>2. Counted(a) /\ batch'[c] = OneDone(batch[c])
    BY <1>1, <2>1
  <2>3. batch[c] \in BatchRow /\ batch[c].account \in JoinAccount /\ batch[c].left > 0
    BY <2>1, LimitTyped DEF JoinTyped, BatchesTyped
  <2>4. CASE ~BatchHas(c, a)
    <3>1. today'[a] = today[a]
      BY <1>1, <1>5, <2>3, <2>4 DEF BatchLog, CountLogged, countJ, BatchHas
    <3>2. batch'[c].account \in {batch[c].account, NoItem}
      BY <2>2, <2>3, LimitTyped DEF OneDone, BatchRow
    <3> QED
      BY <1>2, <2>1, <2>2, <2>4, <3>1, <3>2, CallerElsewhere, LimitTyped DEF BatchHas
  <2>5. CASE BatchHas(c, a)
    <3>1. \A s \in JoinSched : ~QueueHas(s, a)'
      BY <1>2, <2>2, <2>5 DEF Counted, Sole, QueueHas
    <3>2. \A d \in Caller : BatchHas(d, a)' => d = c /\ batch'[c].left = batch[c].left - 1
      BY <1>2, <2>2, <2>3, <2>5, LimitTyped DEF Counted, Sole, BatchHas, OneDone, BatchRow
    <3>3. today[a] + batch[c].left <= DirectLimit /\ today[a] < DailyLimit
      BY <1>1, <2>2, <2>3, <2>5, LimitTyped DEF Counted, BatchRow
    <3>4. CASE batch[c].joined = "success"
      <4>1. today' = [today EXCEPT ![a] = UpTo(today[a], DailyLimit)]
        BY <1>5, <2>5, <3>4 DEF BatchLog, CountLogged, BatchHas
      <4>2. today'[a] = today[a] + 1 /\ today[a] \in Nat /\ made[a] \in Nat /\ batch[c].left \in Nat
        BY <1>1, <2>3, <3>3, <4>1 DEF UpTo, BatchRow
      <4>3. made'[a] <= today'[a] /\ made'[a] <= today'[a] + 1 /\ made'[a] <= DailyLimit
        BY <2>1, <2>2, <4>2 DEF Counted
      <4>4. \A d \in Caller : BatchHas(d, a)' => today'[a] + batch'[d].left <= DirectLimit
        BY <3>2, <3>3, <4>2, LimitTyped
      <4> QED
        BY <3>1, <3>2, <4>3, <4>4 DEF Counted, Sole
    <3>5. CASE batch[c].joined # "success"
      <4>1. today'[a] = today[a] /\ today[a] \in Nat /\ made[a] \in Nat /\ batch[c].left \in Nat
        BY <1>1, <1>5, <2>3, <3>5 DEF BatchLog, countJ, BatchRow
      <4>2. ~Pending1(a)
        BY <2>2, <2>5, <3>5 DEF Pending1, Counted, Sole
      <4>3. made'[a] <= today'[a] /\ made'[a] <= today'[a] + 1 /\ made'[a] <= DailyLimit
        BY <2>1, <2>2, <4>1, <4>2 DEF Counted
      <4>4. \A d \in Caller : BatchHas(d, a)' => today'[a] + batch'[d].left <= DirectLimit
        BY <3>2, <3>3, <4>1, LimitTyped
      <4> QED
        BY <3>1, <3>2, <4>3, <4>4 DEF Counted, Sole
    <3> QED
      BY <3>4, <3>5
  <2> QED
    BY <2>4, <2>5
<1>6. CASE BatchFails(c)
  <2>1. /\ UNCHANGED <<made, today, overlapped>> /\ batch' = [batch EXCEPT ![c] = NoBatch]
        /\ ~unlogged[a] /\ ~(BatchHas(c, a) /\ batch[c].joined = "success")
    BY <1>1, <1>6 DEF BatchFails, countJ, BatchHas
  <2>2. Counted(a) /\ batch'[c] = NoBatch
    BY <1>1, <2>1
  <2>3. \A d \in Caller : BatchHas(d, a)' => BatchHas(d, a) /\ batch'[d] = batch[d]
    BY <1>2, <2>2, LimitTyped DEF BatchHas
  <2>4. Pending1(a) => Pending1(a)'
    BY <1>2, <2>1 DEF Pending1, QueueHas, BatchHas
  <2>5. \A d \in Caller : BatchHas(d, a)' => batch'[d].left <= batch[d].left /\ batch'[d].left \in Nat
    BY <1>1, <2>3, LimitTyped DEF BatchRow
  <2>6. \A s \in JoinSched : (QueueHas(s, a)' <=> QueueHas(s, a)) /\ jpc'[s] = jpc[s]
    BY <1>2 DEF QueueHas
  <2> QED
    BY <2>1, <2>2, <2>3, <2>4, <2>5, <2>6, CountFrame
<1> QED
  BY <1>3, <1>4, <1>5, <1>6

LEMMA BudgetStep == BudgetInv /\ JoinTyped /\ [JoinNext]_joinVars => BudgetInv'
<1> SUFFICES ASSUME BudgetInv, JoinTyped, [JoinNext]_joinVars, NEW a \in JoinAccount,
                    ~unlogged'[a], ~overlapped'[a]
             PROVE  Counted(a)'
  BY DEF BudgetInv
<1>1. unlogged[a] \/ overlapped[a] \/ Counted(a)
  BY DEF BudgetInv
<1>2. ASSUME NEW s \in JoinSched, JoinSchedStep(s) \/ TurnFails(s) \/ JoinCrash(s) PROVE Counted(a)'
  BY <1>1, <1>2, QueueCounts
<1>3. ASSUME NEW c \in Caller,
             (\E b \in JoinAccount : BeginBatch(c, b)) \/ BatchJoin(c) \/ BatchLog(c) \/ BatchFails(c)
      PROVE  Counted(a)'
  BY <1>1, <1>3, CallerCounts
<1>4. CASE Midnight
  <2>1. UNCHANGED <<jpc, jacc, outcome, batch, unlogged, overlapped>> /\ today'[a] = 0 /\ made'[a] = 0
    BY <1>4 DEF Midnight, schedJ
  <2>2. Sole(a)'
    BY <1>1, <2>1 DEF Counted, Sole, QueueHas, BatchHas
  <2>3. \A c \in Caller : 0 + batch'[c].left <= DirectLimit
    BY <2>1, LimitTyped DEF JoinTyped, BatchesTyped, BatchRow
  <2> QED
    BY <2>1, <2>2, <2>3, LimitTyped DEF Counted
<1>5. CASE UNCHANGED <<today, made, unlogged, overlapped, schedJ, batch>>
  BY <1>1, <1>5 DEF Counted, Sole, Pending1, QueueHas, BatchHas, schedJ
<1> QED
  BY <1>2, <1>3, <1>4, <1>5
     DEF JoinNext, joinVars, countJ, histJ, JoinUser, AddToQueue, RemoveFromQueue, ClearQueue, Delete,
         SetPaused, FloodOver, HourPasses

(* An account joins within its daily limit, whoever joins and whatever     *)
(* fails, until two join with it at once or a join goes unlogged.          *)
THEOREM LimitKept == JoinSpec => []DailyBudget
<1>1. JoinInit => BudgetInv
  BY LimitTyped DEF JoinInit, BudgetInv, Counted, Sole, Pending1, QueueHas, BatchHas
<1>2. BudgetInv /\ JoinTyped => DailyBudget
  <2> SUFFICES ASSUME BudgetInv, JoinTyped, NEW a \in JoinAccount, made[a] > DailyLimit
               PROVE  unlogged[a] \/ overlapped[a]
    BY DEF DailyBudget
  <2>1. ~Counted(a)
    BY LimitTyped DEF Counted, JoinTyped, CountsTyped
  <2> QED
    BY <2>1 DEF BudgetInv
<1> QED
  BY <1>1, <1>2, BudgetStep, JoinHolds, PTL DEF JoinSpec
=============================================================================
