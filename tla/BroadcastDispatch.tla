-------------------------- MODULE BroadcastDispatch --------------------------
(***************************************************************************)
(* The broadcast pipeline of app/scheduler/scheduler.py,                   *)
(* app/services/broadcast_processor.py, app/crud/broadcast.py and the      *)
(* handlers of app/api/broadcast.py, as run by several uvicorn workers     *)
(* against one database.                                                   *)
(*                                                                         *)
(* A database transaction is one step.  Whatever a coroutine read before   *)
(* an await and uses after it is kept in a local variable of its run, so   *)
(* other processes interleave between the read and the write.  A row is    *)
(* written the way SQLAlchemy writes it: only the columns whose value      *)
(* differs from the one that was loaded.                                   *)
(*                                                                         *)
(* Time is abstract.  "age" is the time since coalesce(sent_at,            *)
(* created_at) in whole rate intervals (60 s), counted no further than a   *)
(* guard can tell.  A scheduled time is "none", "future" or "due".         *)
(***************************************************************************)
EXTENDS Integers, FiniteSets, DeliveryContract

CONSTANTS
    Proc,           \* uvicorn worker processes
    SchedProc,      \* the processes whose scheduler is running
    OneTime,        \* ids of user-created broadcasts without a recurrence
    Parent,         \* ids of recurring broadcasts (the series)
    Child,          \* ids available to occurrences of a series (a bound)
    ParentOf,       \* parent_broadcast_id of each child
    Account,        \* account_id of each broadcast
    Immediate,      \* ids whose creation may ask for an immediate send
    MaxRetries,     \* settings.broadcast_max_retries
    RateAge,        \* BROADCAST_MIN_INTERVAL_SECONDS, in units of age
    StaleAge,       \* RECURRING_STALE_TIMEOUT_SECONDS, in units of age
    MaxCrash,       \* bound on the number of process crashes
    None            \* Python's None

Sendable == OneTime \cup Child
Bcast    == Sendable \cup Parent

ASSUME DispatchAssumption ==
    /\ SchedProc \subseteq Proc
    /\ OneTime \cap Parent = {} /\ OneTime \cap Child = {} /\ Parent \cap Child = {}
    /\ None \notin Bcast
    /\ ParentOf \in [Child -> Parent]
    /\ DOMAIN Account = Bcast
    /\ Immediate \subseteq OneTime \cup Parent
    /\ \A c \in Child : Account[c] = Account[ParentOf[c]]
    /\ MaxRetries \in Nat /\ MaxCrash \in Nat
    /\ RateAge \in Nat \ {0} /\ StaleAge \in Nat /\ RateAge <= StaleAge

Status == {"absent", "pending", "sending", "retrying", "sent", "failed", "cancelled"}

VARIABLES
    \* columns of the broadcasts table (due is scheduled_at of a sendable
    \* broadcast, next_scheduled_at of a series)
    status, due, age, retries, paused,
    \* which recipients of a broadcast have a successful message_logs row
    logged,
    \* process_broadcast, one run per process and broadcast
    pc, seen, skip, verdict,
    \* dispatch_due_broadcasts, per process
    spc, toClaim, running, todo, cur, found, kid,
    \* cancel / pause / unpause request in flight, per process
    api,
    crashes,
    \* history: delivery of the current opening has begun; occurrences
    \* delivered since the series last advanced; occurrences created since
    \* it was paused
    begun, firedInSlot, firedPaused

rowVars   == <<status, due, age, retries, paused>>
runVars   == <<pc, seen, skip, verdict>>
schedVars == <<spc, toClaim, running, todo, cur, found, kid>>
histVars  == <<begun, firedInSlot, firedPaused>>
vars == <<rowVars, logged, runVars, schedVars, api, crashes, histVars>>

NoRequest == [op |-> "none", b |-> None, due |-> "none"]

Init ==
    /\ status = [b \in Bcast |-> "absent"]
    /\ due = [b \in Bcast |-> "none"]
    /\ age = [b \in Bcast |-> 0]
    /\ retries = [b \in Bcast |-> 0]
    /\ paused = [b \in Parent |-> FALSE]
    /\ logged = [b \in Bcast |-> "none"]
    /\ pc = [p \in Proc |-> [b \in Bcast |-> "idle"]]
    /\ seen = [p \in Proc |-> [b \in Bcast |-> "absent"]]
    /\ skip = [p \in Proc |-> [b \in Bcast |-> FALSE]]
    /\ verdict = [p \in Proc |-> [b \in Bcast |-> "failed"]]
    /\ spc = [p \in Proc |-> "idle"]
    /\ toClaim = [p \in Proc |-> {}]
    /\ running = [p \in Proc |-> {}]
    /\ todo = [p \in Proc |-> {}]
    /\ cur = [p \in Proc |-> None]
    /\ found = [p \in Proc |-> "absent"]
    /\ kid = [p \in Proc |-> None]
    /\ api = [p \in Proc |-> NoRequest]
    /\ crashes = 0
    /\ begun = [b \in Bcast |-> FALSE]
    /\ firedInSlot = [b \in Parent |-> 0]
    /\ firedPaused = [b \in Parent |-> 0]

-----------------------------------------------------------------------------
(* Shared reads.                                                           *)

(* seconds_until_next_allowed_broadcast(...) > 0: another one-time         *)
(* broadcast or occurrence of the account was sent, or failing that        *)
(* created, less than one interval ago.                                    *)
RateLimited(b) ==
    \E c \in Sendable \ {b} :
        /\ Account[c] = Account[b]
        /\ status[c] # "absent"
        /\ due[c] # "future"
        /\ age[c] < RateAge

(* Mutant: the pause is not looked at. *)
HaltedOnCancel(b) == status[b] = "cancelled"

(* A series the scheduler must leave alone. *)
Halted(b) == status[b] = "cancelled" \/ paused[b]

(* The value a column has after a flush: an attribute set to the value it *)
(* was loaded with is not written.                                         *)
Flushed(b, loadedStatus, new) == IF loadedStatus = new THEN status[b] ELSE new

AddOne(n, cap) == IF n < cap THEN n + 1 ELSE cap

(* The largest age a guard can tell from a smaller one. *)
AgeCap(b) == IF b \in Parent THEN StaleAge ELSE RateAge

-----------------------------------------------------------------------------
(* Creating broadcasts: POST /api/broadcast.                               *)

(* An immediate broadcast passes the rate check first ... *)
AdmitImmediate(p, b) ==
    /\ b \in Immediate
    /\ status[b] = "absent"
    /\ \A q \in Proc : pc[q][b] = "idle"
    /\ ~RateLimited(b)
    /\ pc' = [pc EXCEPT ![p][b] = "admitted"]
    /\ UNCHANGED <<rowVars, logged, seen, skip, verdict, schedVars, api, crashes, histVars>>

(* ... and is inserted and handed to a background task by a later          *)
(* statement.  A series is due at once and is handed over just the same.   *)
CreateImmediate(p, b) ==
    /\ pc[p][b] = "admitted"
    /\ pc' = [pc EXCEPT ![p][b] = "load"]
    /\ skip' = [skip EXCEPT ![p][b] = FALSE]
    /\ status' = [status EXCEPT ![b] = "pending"]
    /\ due' = [due EXCEPT ![b] = IF b \in Parent THEN "due" ELSE "none"]
    /\ UNCHANGED <<age, retries, paused, logged, seen, verdict,
                   schedVars, api, crashes, histVars>>

CreateScheduled(b) ==
    /\ status[b] = "absent"
    /\ \A q \in Proc : pc[q][b] = "idle"
    /\ status' = [status EXCEPT ![b] = "pending"]
    /\ due' = [due EXCEPT ![b] = "future"]
    /\ UNCHANGED <<age, retries, paused, logged, runVars, schedVars,
                   api, crashes, histVars>>

-----------------------------------------------------------------------------
(* Retrying: POST /retry, /dispatch and /batch-retry.                      *)

(* Mutants: a retry of a delivery under way; a retry of what was sent.     *)
RetryableWhileSending(b) == status[b] \in {"failed", "sending"} /\ retries[b] < MaxRetries
RetryableWhenSent(b) == status[b] \in {"failed", "sent"} /\ retries[b] < MaxRetries

Retryable(b) == status[b] = "failed" /\ retries[b] < MaxRetries

(* The single UPDATE of crud.retry_broadcast.  It clears sent_at, so the    *)
(* age falls back to that of created_at, which is no smaller.              *)
RetryRow(b) ==
    /\ Retryable(b)
    /\ status' = [status EXCEPT ![b] = "retrying"]
    /\ \E a \in age[b] .. AgeCap(b) : age' = [age EXCEPT ![b] = a]
    /\ retries' = [retries EXCEPT ![b] = @ + 1]
    /\ begun' = [begun EXCEPT ![b] = FALSE]
    /\ UNCHANGED <<due, paused>>

(* /retry runs process_broadcast without the rate limit, /dispatch with.   *)
Retry(p, b, noLimit) ==
    /\ b \in Sendable
    /\ pc[p][b] = "idle"
    /\ RetryRow(b)
    /\ pc' = [pc EXCEPT ![p][b] = "load"]
    /\ skip' = [skip EXCEPT ![p][b] = noLimit]
    /\ UNCHANGED <<logged, seen, verdict, schedVars, api, crashes,
                   firedInSlot, firedPaused>>

(* /batch-retry changes the row and starts nothing. *)
BatchRetry(b) ==
    /\ RetryRow(b)
    /\ UNCHANGED <<logged, runVars, schedVars, api, crashes, firedInSlot, firedPaused>>

-----------------------------------------------------------------------------
(* Cancelling, pausing and unpausing a series.  The handler reads the row, *)
(* checks it and, after more queries, writes it.                           *)

ReadSeries(p, b, op) ==
    /\ api[p] = NoRequest
    /\ status[b] \notin {"absent", "cancelled"}
    /\ (op = "pause") => ~paused[b]
    /\ (op = "unpause") => paused[b]
    /\ api' = [api EXCEPT ![p] = [op |-> op, b |-> b,
                                      due |-> IF op = "unpause" THEN due[b] ELSE "none"]]
    /\ UNCHANGED <<rowVars, logged, runVars, schedVars, crashes, histVars>>

WriteCancel(p) ==
    /\ api[p].op = "cancel"
    /\ LET b == api[p].b IN
       /\ status' = [status EXCEPT ![b] = "cancelled"]
       /\ due' = [due EXCEPT ![b] = "none"]
    /\ api' = [api EXCEPT ![p] = NoRequest]
    /\ UNCHANGED <<age, retries, paused, logged, runVars, schedVars,
                   crashes, histVars>>

WritePause(p) ==
    /\ api[p].op = "pause"
    /\ LET b == api[p].b IN
       /\ paused' = [paused EXCEPT ![b] = TRUE]
       /\ firedPaused' = [firedPaused EXCEPT ![b] = 0]
    /\ api' = [api EXCEPT ![p] = NoRequest]
    /\ UNCHANGED <<status, due, age, retries, logged, runVars, schedVars,
                   crashes, begun, firedInSlot>>

(* A next run that is not in the future is moved to now. *)
WriteUnpause(p) ==
    /\ api[p].op = "unpause"
    /\ LET b == api[p].b IN
       /\ paused' = [paused EXCEPT ![b] = FALSE]
       /\ due' = [due EXCEPT ![b] = IF api[p].due = "future" THEN @ ELSE "due"]
       /\ firedPaused' = [firedPaused EXCEPT ![b] = 0]
    /\ api' = [api EXCEPT ![p] = NoRequest]
    /\ UNCHANGED <<status, age, retries, logged, runVars, schedVars,
                   crashes, begun, firedInSlot>>

WriteSeries(p) == WriteCancel(p) \/ WritePause(p) \/ WriteUnpause(p)

-----------------------------------------------------------------------------
(* process_broadcast(b) in process p.                                      *)

(* The run ends; the scheduler task or the series loop that awaits it goes *)
(* on.  After an exception the series is not advanced.                     *)
EndRun(p, b, raises) ==
    /\ pc' = [pc EXCEPT ![p][b] = "idle"]
    /\ seen' = [seen EXCEPT ![p][b] = "absent"]
    /\ skip' = [skip EXCEPT ![p][b] = FALSE]
    /\ verdict' = [verdict EXCEPT ![p][b] = "failed"]
    /\ running' = [running EXCEPT ![p] = @ \ {b}]
    /\ IF kid[p] = b
       THEN /\ spc' = [spc EXCEPT ![p] = IF raises THEN "tick" ELSE "reschedule"]
            /\ cur' = [cur EXCEPT ![p] = IF raises THEN None ELSE @]
            /\ kid' = [kid EXCEPT ![p] = None]
       ELSE UNCHANGED <<spc, cur, kid>>
    /\ UNCHANGED <<toClaim, todo, found>>

(* Load the row, check the account and the rate limit, resolve the groups. *)
(* The account may be missing or suspended and the groups unreadable at    *)
(* any time, so a refusal is always possible.                              *)
Load(p, b) ==
    /\ pc[p][b] = "load"
    /\ seen' = [seen EXCEPT ![p][b] = status[b]]
    /\ \/ /\ pc' = [pc EXCEPT ![p][b] = "early"]
          /\ verdict' = [verdict EXCEPT ![p][b] = "failed"]
       \/ /\ skip[p][b] \/ ~RateLimited(b)
          /\ pc' = [pc EXCEPT ![p][b] = IF logged[b] = "all" THEN "early" ELSE "mark"]
          /\ verdict' = [verdict EXCEPT ![p][b] = "sent"]
    /\ UNCHANGED <<rowVars, logged, skip, schedVars, api, crashes, histVars>>

(* Refused, or every recipient had been served before. *)
EarlyExit(p, b) ==
    /\ pc[p][b] = "early"
    /\ status' = [status EXCEPT ![b] = Flushed(b, seen[p][b], verdict[p][b])]
    /\ EndRun(p, b, FALSE)
    /\ UNCHANGED <<due, age, retries, paused, logged, api, crashes, histVars>>

(* status := "sending", sent_at := now; from here recipients are reached.  *)
Mark(p, b) ==
    /\ pc[p][b] = "mark"
    /\ status' = [status EXCEPT ![b] = Flushed(b, seen[p][b], "sending")]
    /\ age' = [age EXCEPT ![b] = 0]
    /\ pc' = [pc EXCEPT ![p][b] = "wait"]
    /\ begun' = [begun EXCEPT ![b] = TRUE]
    /\ UNCHANGED <<due, retries, paused, logged, seen, skip, verdict,
                   schedVars, api, crashes, firedInSlot, firedPaused>>

(* The send lock of the account, an asyncio.Lock of this process only.     *)
AcquireSendLock(p, b) ==
    /\ pc[p][b] = "wait"
    /\ \A c \in Bcast : Account[c] = Account[b] => pc[p][c] # "deliver"
    /\ pc' = [pc EXCEPT ![p][b] = "deliver"]
    /\ UNCHANGED <<rowVars, logged, seen, skip, verdict, schedVars, api, crashes, histVars>>

(* History: an occurrence, not a retry of one, has reached recipients. *)
CountDelivery(b) ==
    /\ firedInSlot' = IF b \in Child /\ retries[b] = 0
                      THEN [firedInSlot EXCEPT ![ParentOf[b]] = AddOne(@, 2)]
                      ELSE firedInSlot
    /\ UNCHANGED <<begun, firedPaused>>

(* deliver_message returns: the message log is flushed, then the results   *)
(* decide.                                                                 *)
Delivered(p, b) ==
    /\ pc[p][b] = "deliver"
    /\ \E l \in LogState, v \in {"sent", "failed"} :
          /\ MayReturn(logged[b], l, v)
          /\ logged' = [logged EXCEPT ![b] = l]
          /\ verdict' = [verdict EXCEPT ![p][b] = v]
    /\ pc' = [pc EXCEPT ![p][b] = "finish"]
    /\ CountDelivery(b)
    /\ UNCHANGED <<rowVars, seen, skip, schedVars, api, crashes>>

(* wait_for cancels the delivery.  The unflushed message log is lost, or   *)
(* the flush had just committed.                                           *)
TimedOut(p, b) ==
    /\ pc[p][b] = "deliver"
    /\ \E l \in LogState :
          /\ LogGrows(logged[b], l)
          /\ logged' = [logged EXCEPT ![b] = l]
    /\ pc' = [pc EXCEPT ![p][b] = "timeout"]
    /\ CountDelivery(b)
    /\ UNCHANGED <<rowVars, seen, skip, verdict, schedVars, api, crashes>>

(* An error before the delivery (reply targets, or the refresh of a        *)
(* detached row in cycle mode) or outside its per-recipient handling       *)
(* (upload, client, database) leaves the status as it is:                  *)
(* record_broadcast_error stores the message only.                         *)
DeliveryRaises(p, b) ==
    /\ pc[p][b] \in {"wait", "deliver"}
    /\ EndRun(p, b, TRUE)
    /\ UNCHANGED <<rowVars, logged, api, crashes, histVars>>

(* The final session reads the row again before it writes. *)
Finish(p, b) ==
    /\ pc[p][b] = "finish"
    /\ status' = [status EXCEPT ![b] = verdict[p][b]]
    /\ EndRun(p, b, FALSE)
    /\ UNCHANGED <<due, age, retries, paused, logged, api, crashes, histVars>>

(* After a timeout the message log decides, and the error propagates. *)
FinishTimedOut(p, b) ==
    /\ pc[p][b] = "timeout"
    /\ status' = [status EXCEPT ![b] = LogVerdict(logged[b])]
    /\ EndRun(p, b, TRUE)
    /\ UNCHANGED <<due, age, retries, paused, logged, api, crashes, histVars>>

RunStep(p, b) ==
    \/ Load(p, b) \/ EarlyExit(p, b) \/ Mark(p, b) \/ AcquireSendLock(p, b)
    \/ Delivered(p, b) \/ TimedOut(p, b) \/ DeliveryRaises(p, b)
    \/ Finish(p, b) \/ FinishTimedOut(p, b)

-----------------------------------------------------------------------------
(* dispatch_due_broadcasts: one tick of the scheduler of process s.  Ticks *)
(* of one process do not overlap.                                          *)

(* APScheduler skips a tick while the last one runs (max_instances is 1).  *)
(* Mutant: ticks overlap.                                                  *)
MayTickAnyway(s) == spc[s] \in {"idle", "child"}
MayTick(s) == spc[s] = "idle"

(* Mutant: the recovery looks for the wrong status. *)
StaleRetry(b) == b \in Parent /\ status[b] = "retrying" /\ age[b] >= StaleAge /\ ~paused[b]

Stale(b) ==
    /\ b \in Parent
    /\ status[b] = "sending"
    /\ age[b] >= StaleAge
    /\ ~paused[b]

Orphans(b) == {c \in Child : ParentOf[c] = b /\ status[c] = "pending"}

(* recover_stale_recurring_parents, one transaction: of each stale series  *)
(* one occurrence still pending is failed, and the series is released.     *)
RecoverStale(s) ==
    /\ MayTick(s)
    /\ \E lost \in SUBSET UNION {Orphans(b) : b \in {x \in Parent : Stale(x)}} :
          /\ \A b \in Parent :
                Stale(b) => Cardinality(lost \cap Orphans(b)) = IF Orphans(b) = {} THEN 0 ELSE 1
          /\ status' = [b \in Bcast |-> IF b \in lost THEN "failed"
                                        ELSE IF Stale(b) THEN "pending"
                                        ELSE status[b]]
    /\ spc' = [spc EXCEPT ![s] = "list"]
    /\ UNCHANGED <<due, age, retries, paused, logged, runVars,
                   toClaim, running, todo, cur, found, kid, api, crashes, histVars>>

(* list_due_scheduled_broadcasts, minus what runs here and what the rate   *)
(* limit defers to a later tick.                                           *)
DueOneTime(s) ==
    {b \in Sendable : /\ status[b] = "pending" /\ due[b] = "due"
                      /\ b \notin running[s]
                      /\ ~RateLimited(b)}

DueSeries == {b \in Parent : status[b] # "absent" /\ due[b] = "due" /\ ~Halted(b)}

(* The early return of an empty tick.  Mutant: one-time ids are forgotten. *)
NoSeriesDue(s) == DueSeries = {}
NothingDue(s) == DueOneTime(s) = {} /\ DueSeries = {}

ListDue(s) ==
    /\ spc[s] = "list"
    /\ toClaim' = [toClaim EXCEPT ![s] = DueOneTime(s)]
    /\ todo' = [todo EXCEPT ![s] = DueSeries]
    /\ spc' = [spc EXCEPT ![s] = IF NothingDue(s) THEN "idle" ELSE "tick"]
    /\ UNCHANGED <<rowVars, logged, runVars, running, cur, found, kid, api, crashes, histVars>>

(* Mutant: a row that was claimed before is claimed again. *)
ClaimableTwice(b) == status[b] \in {"pending", "sending"}

(* claim_broadcast_dispatch: SELECT ... FOR UPDATE of a pending row. *)
Claimable(b) == status[b] = "pending"

ClaimRow(b) ==
    /\ status' = [status EXCEPT ![b] = "sending"]
    /\ age' = [age EXCEPT ![b] = 0]
    /\ UNCHANGED <<due, retries, paused>>

(* One task of the gather: claim, then process_broadcast. *)
ClaimOneTime(s, b) ==
    /\ spc[s] = "tick"
    /\ b \in toClaim[s]
    /\ toClaim' = [toClaim EXCEPT ![s] = @ \ {b}]
    /\ \/ /\ Claimable(b) /\ pc[s][b] = "idle"
          /\ ClaimRow(b)
          /\ running' = [running EXCEPT ![s] = @ \cup {b}]
          /\ pc' = [pc EXCEPT ![s][b] = "load"]
          /\ skip' = [skip EXCEPT ![s][b] = FALSE]
       \/ /\ ~Claimable(b)
          /\ UNCHANGED <<rowVars, running, pc, skip>>
    /\ UNCHANGED <<logged, seen, verdict, spc, todo, cur, found, kid, api, crashes, histVars>>

(* All one-time tasks have ended: turn to the series, one after another.   *)
Gathered(s) == spc[s] = "tick" /\ toClaim[s] = {} /\ running[s] = {}

TickDone(s) ==
    /\ Gathered(s)
    /\ todo[s] = {}
    /\ spc' = [spc EXCEPT ![s] = "idle"]
    /\ UNCHANGED <<rowVars, logged, runVars, toClaim, running, todo, cur, found, kid,
                   api, crashes, histVars>>

ClaimSeries(s, b) ==
    /\ Gathered(s)
    /\ b \in todo[s]
    /\ todo' = [todo EXCEPT ![s] = @ \ {b}]
    /\ \/ /\ Claimable(b)
          /\ ClaimRow(b)
          /\ cur' = [cur EXCEPT ![s] = b]
          /\ spc' = [spc EXCEPT ![s] = "parent"]
       \/ /\ ~Claimable(b)
          /\ UNCHANGED <<rowVars, cur, spc>>
    /\ UNCHANGED <<logged, runVars, toClaim, running, found, kid, api, crashes, histVars>>

(* process_recurring_parent reads the series again.  It may also find the  *)
(* account suspended; either way it leaves the claim behind.  A series is  *)
(* entered only while Child has an id left for its occurrence.             *)
SkipSeries(s) ==
    /\ spc[s] = "parent"
    /\ spc' = [spc EXCEPT ![s] = "tick"]
    /\ cur' = [cur EXCEPT ![s] = None]
    /\ UNCHANGED <<rowVars, logged, runVars, toClaim, running, todo, found, kid,
                   api, crashes, histVars>>

EnterSeries(s) ==
    /\ spc[s] = "parent"
    /\ ~Halted(cur[s])
    /\ \E c \in Child : ParentOf[c] = cur[s] /\ status[c] = "absent"
    /\ spc' = [spc EXCEPT ![s] = "create"]
    /\ UNCHANGED <<rowVars, logged, runVars, toClaim, running, todo, cur, found, kid,
                   api, crashes, histVars>>

(* create_recurring_child_broadcast, then process_broadcast(child) without *)
(* a claim.                                                                *)
CreateChild(s, c) ==
    /\ spc[s] = "create"
    /\ ParentOf[c] = cur[s] /\ status[c] = "absent"
    /\ status' = [status EXCEPT ![c] = "pending"]
    /\ due' = [due EXCEPT ![c] = "due"]
    /\ pc' = [pc EXCEPT ![s][c] = "load"]
    /\ skip' = [skip EXCEPT ![s][c] = TRUE]
    /\ kid' = [kid EXCEPT ![s] = c]
    /\ spc' = [spc EXCEPT ![s] = "child"]
    /\ firedPaused' = IF paused[cur[s]]
                      THEN [firedPaused EXCEPT ![cur[s]] = AddOne(@, 2)]
                      ELSE firedPaused
    /\ UNCHANGED <<age, retries, paused, logged, seen, verdict,
                   toClaim, running, todo, cur, found, api, crashes, begun, firedInSlot>>

(* reschedule_recurring_broadcast reads the row with a plain get ...       *)
ReadForReschedule(s) ==
    /\ spc[s] = "reschedule"
    /\ IF Halted(cur[s])
       THEN /\ spc' = [spc EXCEPT ![s] = "tick"]
            /\ cur' = [cur EXCEPT ![s] = None]
            /\ UNCHANGED found
       ELSE /\ spc' = [spc EXCEPT ![s] = "advance"]
            /\ found' = [found EXCEPT ![s] = status[cur[s]]]
            /\ UNCHANGED cur
    /\ UNCHANGED <<rowVars, logged, runVars, toClaim, running, todo, kid,
                   api, crashes, histVars>>

(* ... and writes it back in a later statement. *)
Advance(s) ==
    /\ spc[s] = "advance"
    /\ LET b == cur[s] IN
       /\ due' = [due EXCEPT ![b] = "future"]
       /\ status' = [status EXCEPT ![b] = Flushed(b, found[s], "pending")]
       /\ firedInSlot' = [firedInSlot EXCEPT ![b] = 0]
    /\ spc' = [spc EXCEPT ![s] = "tick"]
    /\ cur' = [cur EXCEPT ![s] = None]
    /\ found' = [found EXCEPT ![s] = "absent"]
    /\ UNCHANGED <<age, retries, paused, logged, runVars, toClaim, running,
                   todo, kid, api, crashes, begun, firedPaused>>

SchedStep(s) ==
    \/ RecoverStale(s) \/ ListDue(s)
    \/ \E b \in Sendable : ClaimOneTime(s, b)
    \/ TickDone(s)
    \/ \E b \in Parent : ClaimSeries(s, b)
    \/ SkipSeries(s) \/ EnterSeries(s)
    \/ \E c \in Child : CreateChild(s, c)
    \/ ReadForReschedule(s) \/ Advance(s)

-----------------------------------------------------------------------------
(* Time and failure.                                                       *)

TimePasses ==
    /\ \E b \in Bcast : status[b] # "absent" /\ age[b] < AgeCap(b)
    /\ age' = [b \in Bcast |-> IF status[b] = "absent" THEN 0 ELSE AddOne(age[b], AgeCap(b))]
    /\ UNCHANGED <<status, due, retries, paused, logged, runVars, schedVars, api, crashes,
                   histVars>>

ComesDue(b) ==
    /\ due[b] = "future"
    /\ due' = [due EXCEPT ![b] = "due"]
    /\ UNCHANGED <<status, age, retries, paused, logged, runVars, schedVars,
                   api, crashes, histVars>>

(* A worker dies with everything it keeps in memory and is started again.  *)
Crash(p) ==
    /\ crashes < MaxCrash
    /\ crashes' = crashes + 1
    /\ pc' = [pc EXCEPT ![p] = [b \in Bcast |-> "idle"]]
    /\ seen' = [seen EXCEPT ![p] = [b \in Bcast |-> "absent"]]
    /\ skip' = [skip EXCEPT ![p] = [b \in Bcast |-> FALSE]]
    /\ verdict' = [verdict EXCEPT ![p] = [b \in Bcast |-> "failed"]]
    /\ spc' = [spc EXCEPT ![p] = "idle"]
    /\ toClaim' = [toClaim EXCEPT ![p] = {}]
    /\ running' = [running EXCEPT ![p] = {}]
    /\ todo' = [todo EXCEPT ![p] = {}]
    /\ cur' = [cur EXCEPT ![p] = None]
    /\ kid' = [kid EXCEPT ![p] = None]
    /\ found' = [found EXCEPT ![p] = "absent"]
    /\ api' = [api EXCEPT ![p] = NoRequest]
    /\ UNCHANGED <<rowVars, logged, histVars>>

UserStep ==
    \/ \E p \in Proc, b \in Immediate : AdmitImmediate(p, b)
    \/ \E b \in OneTime \cup Parent : CreateScheduled(b)
    \/ \E p \in Proc, b \in Sendable, noLimit \in BOOLEAN : Retry(p, b, noLimit)
    \/ \E b \in Bcast : BatchRetry(b)
    \/ \E p \in Proc, b \in Parent, op \in {"cancel", "pause", "unpause"} : ReadSeries(p, b, op)

Next ==
    \/ UserStep
    \/ \E p \in Proc, b \in Immediate : CreateImmediate(p, b)
    \/ \E p \in Proc : WriteSeries(p)
    \/ \E p \in Proc, b \in Bcast : RunStep(p, b)
    \/ \E s \in SchedProc : SchedStep(s)
    \/ TimePasses
    \/ \E b \in Bcast : ComesDue(b)
    \/ \E p \in Proc : Crash(p)

(* Every coroutine that can run is run, ticks keep coming and time passes; *)
(* nothing is assumed of users or of crashes.                              *)
Fairness ==
    /\ \A p \in Proc : WF_vars(\E b \in Immediate : CreateImmediate(p, b))
    /\ \A p \in Proc : WF_vars(WriteSeries(p))
    /\ \A p \in Proc, b \in Bcast : WF_vars(RunStep(p, b))
    /\ \A s \in SchedProc : WF_vars(SchedStep(s))
    /\ WF_vars(TimePasses)
    /\ \A b \in Bcast : WF_vars(ComesDue(b))

Spec == Init /\ [][Next]_vars

FairSpec == Spec /\ Fairness

-----------------------------------------------------------------------------
(* Correctness.                                                            *)

PC  == {"idle", "admitted", "load", "early", "mark", "wait", "deliver", "finish", "timeout"}
SPC == {"idle", "list", "tick", "parent", "create", "child", "reschedule", "advance"}
InSeries == {"parent", "create", "child", "reschedule", "advance"}
Requests == [op : {"none", "cancel", "pause", "unpause"}, b : Parent \cup {None},
             due : {"none", "future", "due"}]

(* Every variable has its type. *)
RowTypes ==
    /\ status \in [Bcast -> Status]
    /\ due \in [Bcast -> {"none", "future", "due"}]
    /\ age \in [Bcast -> Nat]
    /\ retries \in [Bcast -> 0..MaxRetries]
    /\ paused \in [Parent -> BOOLEAN]
    /\ logged \in [Bcast -> LogState]

RunTypes ==
    /\ pc \in [Proc -> [Bcast -> PC]]
    /\ seen \in [Proc -> [Bcast -> Status]]
    /\ skip \in [Proc -> [Bcast -> BOOLEAN]]
    /\ verdict \in [Proc -> [Bcast -> {"sent", "failed"}]]

SchedFields ==
    /\ spc \in [Proc -> SPC]
    /\ toClaim \in [Proc -> SUBSET Sendable] /\ running \in [Proc -> SUBSET Sendable]
    /\ todo \in [Proc -> SUBSET Parent]
    /\ cur \in [Proc -> Parent \cup {None}] /\ kid \in [Proc -> Child \cup {None}]
    /\ found \in [Proc -> Status]

(* A tick that has turned to a series has one in hand. *)
SeriesInHand ==
    /\ \A s \in Proc : spc[s] \in InSeries => cur[s] \in Parent
    /\ \A s \in Proc : kid[s] # None => spc[s] = "child"

SchedTypes == SchedFields /\ SeriesInHand

OtherTypes ==
    /\ api \in [Proc -> Requests]
    /\ crashes \in 0..MaxCrash
    /\ begun \in [Bcast -> BOOLEAN]
    /\ firedInSlot \in [Parent -> 0..2] /\ firedPaused \in [Parent -> 0..2]

TypeOK == RowTypes /\ RunTypes /\ SchedTypes /\ OtherTypes

(* At most one process works on a sendable broadcast: creation, claim,     *)
(* retry and the unclaimed start of an occurrence never overlap.           *)
SoleRunner ==
    \A b \in Sendable : \A p, q \in Proc :
        pc[p][b] # "idle" /\ pc[q][b] # "idle" => p = q

(* A settled broadcast has no run left that could still reach a recipient  *)
(* or overwrite the reported result; a retry never races the old run.      *)
TerminalIsQuiet ==
    \A b \in Sendable :
        status[b] \in {"sent", "failed"} => \A p \in Proc : pc[p][b] = "idle"

(* What a run may rely on, step by step, and what keeps a second run away: *)
(* a run sees the status it owns, and a row that is still pending is run   *)
(* only by its creator or by the scheduler that created the occurrence.    *)
Reaching == {"wait", "deliver", "finish", "timeout"}

RunOK(p, b) ==
    /\ pc[p][b] = "admitted" => b \in Immediate
    /\ pc[p][b] # "idle" => (pc[p][b] = "admitted" <=> status[b] = "absent")
    /\ pc[p][b] # "idle" /\ status[b] = "pending" =>
          \/ b \notin Child /\ due[b] = "none"
          \/ p \in SchedProc /\ spc[p] = "child" /\ kid[p] = b
    /\ pc[p][b] \in {"early", "mark"} => seen[p][b] = status[b]
    /\ pc[p][b] \in {"load", "early", "mark"} => ~begun[b]
    /\ pc[p][b] \in Reaching => begun[b] /\ status[b] = "sending"

(* Once there are successes on record no run is before or in a delivery,   *)
(* and one that still has to report says "sent".                           *)
LogOK(p, b) ==
    /\ pc[p][b] = "early" => verdict[p][b] = "failed"
    /\ logged[b] # "none" =>
          /\ pc[p][b] \in {"idle", "finish", "timeout"}
          /\ pc[p][b] = "finish" => verdict[p][b] = "sent"

(* A tick claims one-time rows before it turns to a series.                *)
TickOK(s) ==
    /\ toClaim[s] # {} => s \in SchedProc /\ spc[s] = "tick"
    /\ \A b \in toClaim[s] : status[b] # "absent" /\ due[b] = "due"
    /\ kid[s] # None => s \in SchedProc

(* Deliveries begin at most once between two openings of a broadcast, and  *)
(* every run, log and tick is in order.                                    *)
RunDiscipline ==
    /\ \A b \in Sendable :
          /\ status[b] # "cancelled"
          /\ status[b] \in {"absent", "pending", "retrying"} => ~begun[b]
          /\ logged[b] # "none" => status[b] \in {"sending", "sent"}
    /\ \A p \in Proc, b \in Sendable : RunOK(p, b) /\ LogOK(p, b)
    /\ \A s \in Proc : TickOK(s)

(* A broadcast reported as failed has no recipient on record as served, so *)
(* a retry of it never has anything to skip.                               *)
FailedMeansUnlogged ==
    \A b \in Sendable : status[b] = "failed" => logged[b] = "none"

(* Pausing lets at most the occurrence already under way through.          *)
PauseStopsSeries == \A b \in Parent : firedPaused[b] <= 1

(* The series of a sendable broadcast's life are those of the abstract     *)
(* specification: one delivery per opening, settled once, retried within   *)
(* the limit.                                                              *)
Phase(b) == IF status[b] \in {"pending", "sending", "retrying"} THEN "open" ELSE status[b]

Lifecycle == INSTANCE BroadcastLifecycle WITH
    Job <- Sendable,
    RetryLimit <- MaxRetries,
    phase <- [b \in Sendable |-> Phase(b)],
    left <- [b \in Sendable |-> MaxRetries - retries[b]],
    started <- [b \in Sendable |-> begun[b]]

ImplementsLifecycle == Lifecycle!LifecycleSpec

(* A due broadcast or occurrence does not stay pending: the scheduler      *)
(* dispatches it, at once or after the rate limit has let go.              *)
DueIsDispatched ==
    \A b \in Sendable : (status[b] = "pending" /\ due[b] = "due") ~> (status[b] # "pending")

(* A claim on a series is given back, by the process that took it or by    *)
(* the recovery, unless the series is paused meanwhile.                    *)
SeriesReleased ==
    \A b \in Parent : (status[b] = "sending") ~> (status[b] # "sending" \/ paused[b])

(* "The scheduler will never dispatch this broadcast again": a cancelled   *)
(* series stays cancelled.                                                 *)
CancelIsFinal ==
    [][\A b \in Parent : status[b] = "cancelled" => status'[b] = "cancelled"]_vars

(* A series serves its recipients once per scheduled run. *)
OneOccurrencePerSlot == \A b \in Parent : firedInSlot[b] <= 1
=============================================================================
