------------------------------- MODULE JoinQueue -------------------------------
(***************************************************************************)
(* Joining Telegram groups: the queue that the scheduler works off, one    *)
(* item per account and tick (app/services/join_queue_service.py,          *)
(* app/crud/join_queue.py, app/api/join_queue.py), and the two requests    *)
(* that join a selection at once (join_selected_groups,                    *)
(* join_selected_links).  All of them draw on the daily counter of         *)
(* successful group_join_logs rows.                                        *)
(*                                                                         *)
(* recover_stale_flood_wait_items is imported by the scheduler but never   *)
(* scheduled, so it is not a step.  Only how many rows of the last hour    *)
(* and of today a guard can see is kept of the log.                        *)
(***************************************************************************)
EXTENDS Integers, FiniteSets, Database

CONSTANTS
    Item,           \* ids of join_queue_items (a bound)
    JoinAccount,    \* accounts
    AccountOfItem,  \* account_id of each item
    JoinSched,      \* processes whose scheduler runs the queue
    Caller,         \* requests that join a selection at once
    HourlyLimit,    \* config.joins_per_hour
    QueueLimit,     \* config.max_daily_joins
    DirectLimit,    \* MAX_DAILY_JOINS
    MaxTargets,     \* bound on a selection
    JoinFaults,     \* bound on crashes and errors
    NoItem

DailyLimit == IF QueueLimit > DirectLimit THEN QueueLimit ELSE DirectLimit

ASSUME JoinAssumption ==
    /\ NoItem \notin Item \cup JoinAccount
    /\ AccountOfItem \in [Item -> JoinAccount]
    /\ IsFiniteSet(Item)
    /\ HourlyLimit \in Nat \ {0} /\ QueueLimit \in Nat \ {0} /\ DirectLimit \in Nat \ {0}
    /\ MaxTargets \in Nat /\ JoinFaults \in Nat

VARIABLES
    jstatus, position, until,   \* join_queue_items
    jpaused,                    \* join_queue_configs.is_paused
    hour, today,                \* successful group_join_logs rows of an account
    \* process_all_accounts, per process
    jpc, jtodo, jacc, jitem, outcome,
    \* a selection in progress, per request
    batch,
    jfaults,
    \* history: join calls per item; joins made today; joins that were made
    \* and never logged; two joiners at work at once; joins begun while paused
    calls, made, unlogged, overlapped, joinedPaused

rowJ   == <<jstatus, position, until>>
countJ == <<hour, today>>
schedJ == <<jpc, jtodo, jacc, jitem, outcome>>
histJ  == <<calls, made, unlogged, overlapped, joinedPaused>>
joinVars == <<rowJ, jpaused, countJ, schedJ, batch, jfaults, histJ>>

Items(a) == {i \in Item : AccountOfItem[i] = a}
Present  == {i \in Item : jstatus[i] \notin {"absent", "deleted"}}
Queued(a) == {i \in Items(a) : jstatus[i] = "queued"}
NoBatch == [account |-> NoItem, left |-> 0, joined |-> "no"]

JoinInit ==
    /\ jstatus = [i \in Item |-> "absent"]
    /\ position = [i \in Item |-> 0]
    /\ until = [i \in Item |-> "none"]
    /\ jpaused = [a \in JoinAccount |-> FALSE]
    /\ hour = [a \in JoinAccount |-> 0] /\ today = [a \in JoinAccount |-> 0]
    /\ jpc = [s \in JoinSched |-> "idle"]
    /\ jtodo = [s \in JoinSched |-> {}]
    /\ jacc = [s \in JoinSched |-> NoItem]
    /\ jitem = [s \in JoinSched |-> NoItem]
    /\ outcome = [s \in JoinSched |-> "none"]
    /\ batch = [c \in Caller |-> NoBatch]
    /\ jfaults = 0
    /\ calls = [i \in Item |-> 0]
    /\ made = [a \in JoinAccount |-> 0]
    /\ unlogged = [a \in JoinAccount |-> FALSE]
    /\ overlapped = [a \in JoinAccount |-> FALSE]
    /\ joinedPaused = [a \in JoinAccount |-> 0]

UpTo(n, cap) == IF n < cap THEN n + 1 ELSE cap

(* Processes and requests that may be about to join with an account. *)
Joiners(a) == {s \in JoinSched : jacc[s] = a} \cup {c \in Caller : batch[c].account = a}

(* History: a joiner starts beside another one. *)
NoteJoiner(a) == overlapped' = [overlapped EXCEPT ![a] = @ \/ Joiners(a) # {}]

(* History: Telegram has let the account join. *)
NoteJoined(a) == made' = [made EXCEPT ![a] = UpTo(@, DailyLimit + 1)]

-----------------------------------------------------------------------------
(* Requests: adding, removing, clearing, pausing.                          *)

(* The positions of the account's rows are read before the row is          *)
(* inserted; a concurrent insertion may take the same one.                 *)
AddToQueue(i) ==
    /\ jstatus[i] = "absent"
    /\ LET taken == {position[k] : k \in Items(AccountOfItem[i]) \cap Present}
           last  == CHOOSE n \in taken \cup {0} : \A m \in taken : m <= n
       IN \E next \in {last + 1} \cup (taken \cap {last}) :
             position' = [position EXCEPT ![i] = next]
    /\ jstatus' = [jstatus EXCEPT ![i] = "queued"]
    /\ UNCHANGED <<until, jpaused, countJ, schedJ, batch, jfaults, histJ>>

(* A row is deleted whatever its status is. *)
Delete(S) ==
    /\ S # {}
    /\ jstatus' = [i \in Item |-> IF i \in S THEN "deleted" ELSE jstatus[i]]
    /\ position' = [i \in Item |-> IF i \in S THEN 0 ELSE position[i]]
    /\ until' = [i \in Item |-> IF i \in S THEN "none" ELSE until[i]]
    /\ UNCHANGED <<jpaused, countJ, schedJ, batch, jfaults, histJ>>

RemoveFromQueue(i) == Delete({i} \cap Present)

ClearQueue(a, wanted) == Delete({i \in Items(a) \cap Present : jstatus[i] \in wanted})

SetPaused(a, value) ==
    /\ jpaused[a] # value
    /\ jpaused' = [jpaused EXCEPT ![a] = value]
    /\ joinedPaused' = [joinedPaused EXCEPT ![a] = 0]
    /\ UNCHANGED <<rowJ, countJ, schedJ, batch, jfaults, calls, made, unlogged, overlapped>>

-----------------------------------------------------------------------------
(* A tick of the queue: process_all_accounts.                              *)

JoinTick(s) ==
    /\ jpc[s] = "idle"
    /\ \E a \in JoinAccount : Queued(a) # {}
    /\ jtodo' = [jtodo EXCEPT ![s] = {a \in JoinAccount : Queued(a) # {}}]
    /\ jpc' = [jpc EXCEPT ![s] = "next"]
    /\ UNCHANGED <<rowJ, jpaused, countJ, jacc, jitem, outcome, batch, jfaults, histJ>>

JoinTickDone(s) ==
    /\ jpc[s] = "next" /\ jtodo[s] = {}
    /\ jpc' = [jpc EXCEPT ![s] = "idle"]
    /\ UNCHANGED <<rowJ, jpaused, countJ, jtodo, jacc, jitem, outcome, batch, jfaults, histJ>>

Flooded(a) == \E i \in Items(a) : jstatus[i] = "flood_wait" /\ until[i] = "ahead"

(* The first part of process_next_queue_item: pause, daily limit, hourly   *)
(* limit, flood wait.  Mutants: the flood wait is not looked at; the pause *)
(* is not.                                                                 *)
MayJoinInFlood(a) == ~jpaused[a] /\ today[a] < QueueLimit /\ hour[a] < HourlyLimit
MayJoinPaused(a) == today[a] < QueueLimit /\ hour[a] < HourlyLimit /\ ~Flooded(a)

MayJoin(a) ==
    /\ ~jpaused[a]
    /\ today[a] < QueueLimit
    /\ hour[a] < HourlyLimit
    /\ ~Flooded(a)

(* The query of the hourly limit compares created_at, which has no zone,   *)
(* with a time that has one: where that is refused it raises, and the      *)
(* turn of the account is over as if it were not allowed to join.          *)
CheckAccount(s) ==
    /\ jpc[s] = "next"
    /\ \E a \in jtodo[s] :
          /\ jtodo' = [jtodo EXCEPT ![s] = @ \ {a}]
          /\ \/ /\ ZoneTaken /\ MayJoin(a)
                /\ jpc' = [jpc EXCEPT ![s] = "pick"]
                /\ jacc' = [jacc EXCEPT ![s] = a]
                /\ NoteJoiner(a)
             \/ /\ ZoneRefused \/ ~MayJoin(a)
                /\ UNCHANGED <<jpc, jacc, overlapped>>
    /\ UNCHANGED <<rowJ, jpaused, countJ, jitem, outcome, batch, jfaults,
                   calls, made, unlogged, joinedPaused>>

(* On to the next account. *)
Leave(s) ==
    /\ jpc' = [jpc EXCEPT ![s] = "next"]
    /\ jacc' = [jacc EXCEPT ![s] = NoItem]
    /\ jitem' = [jitem EXCEPT ![s] = NoItem]
    /\ outcome' = [outcome EXCEPT ![s] = "none"]
    /\ UNCHANGED jtodo

(* Mutant: an item that was left in processing is taken up again. *)
WaitingOrLeft(a) == {i \in Items(a) : jstatus[i] \in {"queued", "processing"}}
Waiting(a) == Queued(a)

(* claim_next_queued selects the first queued item ... *)
PickItem(s) ==
    /\ jpc[s] = "pick"
    /\ LET a == jacc[s] IN
       IF Waiting(a) = {}
       THEN Leave(s)
       ELSE /\ \E i \in Waiting(a) :
                  /\ \A k \in Waiting(a) : position[i] <= position[k]
                  /\ jitem' = [jitem EXCEPT ![s] = i]
            /\ jpc' = [jpc EXCEPT ![s] = "claim"]
            /\ UNCHANGED <<jtodo, jacc, outcome>>
    /\ UNCHANGED <<rowJ, jpaused, countJ, batch, jfaults, histJ>>

(* ... and writes it later; the write fails if the row is gone.            *)
ClaimItem(s) ==
    /\ jpc[s] = "claim"
    /\ LET i == jitem[s] IN
       IF jstatus[i] = "deleted"
       THEN Leave(s) /\ UNCHANGED jstatus
       ELSE /\ jstatus' = [jstatus EXCEPT ![i] = "processing"]
            /\ jpc' = [jpc EXCEPT ![s] = "connect"]
            /\ UNCHANGED <<jtodo, jacc, jitem, outcome>>
    /\ UNCHANGED <<position, until, jpaused, countJ, batch, jfaults, histJ>>

Settle(i, value) ==
    jstatus' = IF jstatus[i] = "deleted" THEN jstatus ELSE [jstatus EXCEPT ![i] = value]

Connect(s) ==
    /\ jpc[s] = "connect"
    /\ jpc' = [jpc EXCEPT ![s] = "join"]
    /\ joinedPaused' = IF jpaused[jacc[s]]
                       THEN [joinedPaused EXCEPT ![jacc[s]] = UpTo(@, 2)]
                       ELSE joinedPaused
    /\ UNCHANGED <<rowJ, jpaused, countJ, jtodo, jacc, jitem, outcome, batch, jfaults,
                   calls, made, unlogged, overlapped>>

NotAuthorized(s) ==
    /\ jpc[s] = "connect"
    /\ Settle(jitem[s], "failed")
    /\ Leave(s)
    /\ UNCHANGED <<position, until, jpaused, countJ, batch, jfaults, histJ>>

(* The join itself.  An exception after Telegram has let the account in is *)
(* a failure all the same.                                                 *)
Join(s) ==
    /\ jpc[s] = "join"
    /\ LET a == jacc[s] IN
       \/ /\ outcome' = [outcome EXCEPT ![s] = "success"]
          /\ NoteJoined(a)
          /\ UNCHANGED unlogged
       \/ /\ outcome' = [outcome EXCEPT ![s] = "failed"]
          /\ NoteJoined(a)
          /\ unlogged' = [unlogged EXCEPT ![a] = TRUE]
       \/ /\ \E o \in {"failed", "flood_wait"} : outcome' = [outcome EXCEPT ![s] = o]
          /\ UNCHANGED <<made, unlogged>>
    /\ calls' = [calls EXCEPT ![jitem[s]] = UpTo(@, 2)]
    /\ jpc' = [jpc EXCEPT ![s] = "persist"]
    /\ UNCHANGED <<rowJ, jpaused, countJ, jtodo, jacc, jitem, batch, jfaults,
                   overlapped, joinedPaused>>

(* History: an outcome is dropped before it was logged. *)
DropOutcome(s) ==
    unlogged' = [a \in JoinAccount |-> unlogged[a] \/ (a = jacc[s] /\ outcome[s] = "success")]

(* The result is written to the row; a row that is gone ends the matter.   *)
PersistItem(s) ==
    /\ jpc[s] = "persist"
    /\ LET i == jitem[s] IN
       /\ Settle(i, outcome[s])
       /\ until' = IF outcome[s] = "flood_wait" /\ jstatus[i] # "deleted"
                   THEN [until EXCEPT ![i] = "ahead"] ELSE until
       /\ IF jstatus[i] = "deleted" \/ outcome[s] = "flood_wait"
          THEN Leave(s) /\ DropOutcome(s)
          ELSE /\ jpc' = [jpc EXCEPT ![s] = "log"]
               /\ UNCHANGED <<jtodo, jacc, jitem, outcome, unlogged>>
    /\ UNCHANGED <<position, jpaused, countJ, batch, jfaults,
                   calls, made, overlapped, joinedPaused>>

(* create_join_log, in a transaction of its own. *)
CountLogged(a) ==
    /\ hour' = [hour EXCEPT ![a] = UpTo(@, DailyLimit)]
    /\ today' = [today EXCEPT ![a] = UpTo(@, DailyLimit)]

LogItem(s) ==
    /\ jpc[s] = "log"
    /\ IF outcome[s] = "success" THEN CountLogged(jacc[s]) ELSE UNCHANGED countJ
    /\ Leave(s)
    /\ UNCHANGED <<rowJ, jpaused, batch, jfaults, histJ>>

(* Any other error ends the account's turn and leaves the row as it is.    *)
TurnFails(s) ==
    /\ jpc[s] \in {"pick", "claim", "connect", "persist", "log"} /\ jfaults < JoinFaults
    /\ jfaults' = jfaults + 1
    /\ Leave(s)
    /\ DropOutcome(s)
    /\ UNCHANGED <<rowJ, jpaused, countJ, batch, calls, made, overlapped, joinedPaused>>

JoinCrash(s) ==
    /\ jpc[s] # "idle" /\ jfaults < JoinFaults
    /\ jfaults' = jfaults + 1
    /\ jpc' = [jpc EXCEPT ![s] = "idle"]
    /\ jtodo' = [jtodo EXCEPT ![s] = {}]
    /\ jacc' = [jacc EXCEPT ![s] = NoItem]
    /\ jitem' = [jitem EXCEPT ![s] = NoItem]
    /\ outcome' = [outcome EXCEPT ![s] = "none"]
    /\ DropOutcome(s)
    /\ UNCHANGED <<rowJ, jpaused, countJ, batch, calls, made, overlapped, joinedPaused>>

-----------------------------------------------------------------------------
(* A selection is joined at once: the budget is read before the first join *)
(* and every join is logged by itself.                                     *)

(* Mutants: the budget is the whole of the limit; it is one too large.      *)
FreshBudget(a) == DirectLimit
OverBudget(a) == DirectLimit + 1 - today[a]
Budget(a) == DirectLimit - today[a]

BeginBatch(c, a) ==
    /\ batch[c] = NoBatch
    /\ Budget(a) > 0
    /\ \E n \in 1 .. MaxTargets :
          batch' = [batch EXCEPT ![c] = [account |-> a, joined |-> "no",
                                         left |-> IF n < Budget(a) THEN n ELSE Budget(a)]]
    /\ NoteJoiner(a)
    /\ UNCHANGED <<rowJ, jpaused, countJ, schedJ, jfaults, calls, made, unlogged, joinedPaused>>

BatchJoin(c) ==
    /\ batch[c].left > 0 /\ batch[c].joined = "no"
    /\ LET a == batch[c].account IN
       \/ batch' = [batch EXCEPT ![c].joined = "success"] /\ NoteJoined(a) /\ UNCHANGED unlogged
       \/ batch' = [batch EXCEPT ![c].joined = "failed"] /\ UNCHANGED <<made, unlogged>>
       \/ batch' = [batch EXCEPT ![c].joined = "failed"] /\ NoteJoined(a)
          /\ unlogged' = [unlogged EXCEPT ![a] = TRUE]
    /\ UNCHANGED <<rowJ, jpaused, countJ, schedJ, jfaults, calls, overlapped, joinedPaused>>

OneDone(b) == IF b.left = 1 THEN NoBatch ELSE [b EXCEPT !.left = b.left - 1, !.joined = "no"]

BatchLog(c) ==
    /\ batch[c].joined # "no"
    /\ IF batch[c].joined = "success" THEN CountLogged(batch[c].account) ELSE UNCHANGED countJ
    /\ batch' = [batch EXCEPT ![c] = OneDone(batch[c])]
    /\ UNCHANGED <<rowJ, jpaused, schedJ, jfaults, histJ>>

(* The request fails or its process dies. *)
BatchFails(c) ==
    /\ batch[c] # NoBatch
    /\ batch' = [batch EXCEPT ![c] = NoBatch]
    /\ unlogged' = [a \in JoinAccount |->
                       unlogged[a] \/ (a = batch[c].account /\ batch[c].joined = "success")]
    /\ UNCHANGED <<rowJ, jpaused, countJ, schedJ, jfaults, calls, made, overlapped, joinedPaused>>

-----------------------------------------------------------------------------
(* Time.                                                                   *)

FloodOver(i) ==
    /\ until[i] = "ahead"
    /\ until' = [until EXCEPT ![i] = "past"]
    /\ UNCHANGED <<jstatus, position, jpaused, countJ, schedJ, batch, jfaults, histJ>>

(* Rows leave the window of the last hour. *)
HourPasses(a) ==
    /\ hour[a] > 0
    /\ hour' = [hour EXCEPT ![a] = @ - 1]
    /\ UNCHANGED <<rowJ, jpaused, today, schedJ, batch, jfaults, histJ>>

Midnight ==
    /\ \E a \in JoinAccount : today[a] + made[a] > 0
    /\ today' = [a \in JoinAccount |-> 0]
    /\ made' = [a \in JoinAccount |-> 0]
    /\ UNCHANGED <<rowJ, jpaused, hour, schedJ, batch, jfaults,
                   calls, unlogged, overlapped, joinedPaused>>

JoinUser ==
    \/ \E i \in Item : AddToQueue(i) \/ RemoveFromQueue(i)
    \/ \E a \in JoinAccount, st \in {"queued", "processing", "success", "failed", "flood_wait"} :
          ClearQueue(a, {st})
    \/ \E a \in JoinAccount, value \in BOOLEAN : SetPaused(a, value)
    \/ \E c \in Caller, a \in JoinAccount : BeginBatch(c, a)

JoinSchedStep(s) ==
    \/ JoinTick(s) \/ JoinTickDone(s) \/ CheckAccount(s) \/ PickItem(s) \/ ClaimItem(s)
    \/ Connect(s) \/ NotAuthorized(s) \/ Join(s) \/ PersistItem(s) \/ LogItem(s)

JoinNext ==
    \/ JoinUser
    \/ \E s \in JoinSched : JoinSchedStep(s) \/ TurnFails(s) \/ JoinCrash(s)
    \/ \E c \in Caller : BatchJoin(c) \/ BatchLog(c) \/ BatchFails(c)
    \/ \E i \in Item : FloodOver(i)
    \/ \E a \in JoinAccount : HourPasses(a)
    \/ Midnight

JoinSpec == JoinInit /\ [][JoinNext]_joinVars

(* APScheduler starts a tick at every interval, and a tick goes on.  *)
JoinFairSpec == JoinSpec /\ \A s \in JoinSched : WF_joinVars(JoinSchedStep(s))

-----------------------------------------------------------------------------
(* Correctness.                                                            *)

JPC == {"idle", "next", "pick", "claim", "connect", "join", "persist", "log"}

(* Every variable has its type. *)
JoinTypeOK ==
    /\ jstatus \in [Item -> {"absent", "queued", "processing", "success", "failed",
                             "flood_wait", "deleted"}]
    /\ position \in [Item -> Nat]
    /\ until \in [Item -> {"none", "ahead", "past"}]
    /\ jpaused \in [JoinAccount -> BOOLEAN]
    /\ hour \in [JoinAccount -> 0 .. DailyLimit] /\ today \in [JoinAccount -> 0 .. DailyLimit]
    /\ jpc \in [JoinSched -> JPC]
    /\ jtodo \in [JoinSched -> SUBSET JoinAccount]
    /\ jacc \in [JoinSched -> JoinAccount \cup {NoItem}]
    /\ jitem \in [JoinSched -> Item \cup {NoItem}]
    /\ outcome \in [JoinSched -> {"none", "success", "failed", "flood_wait"}]
    /\ batch \in [Caller -> [account : JoinAccount \cup {NoItem}, left : 0 .. DirectLimit,
                             joined : {"no", "success", "failed"}]]
    /\ jfaults \in 0 .. JoinFaults
    /\ calls \in [Item -> 0 .. 2] /\ joinedPaused \in [JoinAccount -> 0 .. 2]
    /\ made \in [JoinAccount -> 0 .. DailyLimit + 1]
    /\ unlogged \in [JoinAccount -> BOOLEAN] /\ overlapped \in [JoinAccount -> BOOLEAN]

(* With one scheduler no link is joined twice, whatever fails in between.  *)
JoinedOnce == \A i \in Item : calls[i] <= 1

(* An account joins within its daily limit, unless two joiners worked at   *)
(* once or a join went unlogged: each of them reads the counter before it  *)
(* joins.                                                                  *)
DailyBudget ==
    \A a \in JoinAccount : made[a] > DailyLimit => unlogged[a] \/ overlapped[a]

(* The queue does not join with an account that Telegram told to wait.     *)
FloodRespected == \A s \in JoinSched : jpc[s] \in {"pick", "claim", "connect", "join"} => ~Flooded(jacc[s])

(* After a pause at most the item already under way is joined.             *)
PauseStopsQueue == \A a \in JoinAccount : joinedPaused[a] <= 1

(* "The scheduler processes them one at a time": an item does not wait for *)
(* ever while nothing forbids joining it                                   *)
(* (app/services/join_queue_service.py, process_next_queue_item).          *)
QueueServed ==
    \A i \in Item :
        jstatus[i] = "queued" ~> (jstatus[i] # "queued" \/ ~MayJoin(AccountOfItem[i]))
=============================================================================
