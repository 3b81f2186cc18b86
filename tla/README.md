# A verification of the Telegram dashboard backend

This directory holds TLA+ models of the Telegram dashboard backend (`src/app`), the TLC runs
that check them on small instances, and TLAPS proofs of the results that matter most. The models
cover the parts of the backend that keep state across requests, processes and outside services:
broadcasts, the jobs of the scheduler, payments and wallets, credits, sign-in and sessions, the
connections to Telegram, live updates and automatic replies.

Contents: [1 The system](#1-the-system), [2 Modules](#2-modules-and-how-they-correspond-to-the-code),
[3 Runs](#3-runs), [4 Bounds](#4-bounds), [5 Fairness](#5-fairness), [6 Proofs](#6-proofs),
[7 Disagreements](#7-disagreements-between-code-and-documentation),
[8 Not modelled](#8-what-is-not-modelled), [9 Plan](#9-plan).

To repeat: `tlc -workers 2 -config MCBroadcasts.cfg MCBroadcasts`, and likewise for every
line of the tables in section 3; `tlapm BroadcastDispatch_proofs.tla`, and likewise for every
module whose name ends in `_proofs`.

## 1 The system

A FastAPI application, started as several uvicorn workers (and, while a deployment rolls, in
two containers) against one PostgreSQL database and one Redis. Each worker is one process with one
event loop; handlers, background tasks and scheduler jobs are coroutines of that loop.
Workers share only the database and Redis; locks of `asyncio` reach no further than a worker.

### Components

| Component | State it keeps | Operations | Talks to |
|---|---|---|---|
| **Broadcast dispatch** `scheduler/scheduler.py`, `services/broadcast_processor.py`, `crud/broadcast.py`, `api/broadcast.py` | rows of `broadcasts` (status, scheduled_at, next_scheduled_at, sent_at, retry_count, is_paused); `_running_broadcasts` and the send locks of each process | create (immediate, scheduled, recurring), retry, dispatch, batch retry, cancel, pause, unpause; tick: recover, list, claim, run, spawn occurrence, reschedule | delivery (call), database, singleton lock |
| **Broadcast delivery** `services/delivery.py` | rows of `message_logs` (buffered in `_BatchPersister`), account status, forbidden bursts | deliver in batches, retry a recipient, persist a ban, pause for protection, flush | Telegram, database |
| **Singleton lock** `cache.py`, `main.py` | one Redis key with a TTL, one renewal task | acquire, renew, expire, restart, outage | Redis |
| **Join queue** `services/join_queue_service.py`, `crud/join_queue.py`, `api/join_queue.py` | `join_queue_items`, `join_queue_configs`, the counters of `group_join_logs` | add, remove, clear, pause; tick: limits, pick, claim, join, settle; joins of a selection | scheduler, Telegram |
| **USDT payments** `services/usdt_watcher.py`, `api/usdt_payment.py`, `services/purchase_service.py` | tenants, `payment_records` and the watermark they imply, API keys | ask for a reference, watch the chain, confirm by hand, claim the key, cancel, expire | chain API, billing |
| **NowPayments, Cryptomus** `services/nowpayments.py`, `services/cryptomus.py` | `nowpayments_transactions` | create an invoice, webhook, reconcile, fulfil | provider, billing, referral |
| **Stars** `services/billing.py`, `services/usage_tracker.py`, `services/telegram_bot_service.py` | `stars_balance`, `stars_payment_records` | top up, spend, buy a template, check in, buy calls and plans | Telegram payments |
| **Referral** `services/referral.py`, `api/referral.py` | commissions, payouts, the minimum payout | commission, pay out, approve, cancel | payments |
| **AI credits and chat** `services/ai_credit_service.py`, `services/ai_chat_v2_service.py` | the balance, pool and refill time of a tenant; messages of a chat session | refill, estimate, charge, reset, packs, upgrade; a turn of a chat | language model |
| **AI tasks and schedules** `ai/task_queue/`, `ai/scheduler/` | `ai_tasks`, schedules and their executions | enqueue, claim, attempt, retry, cancel; tick, execute | database |
| **Login sessions** `crud/session.py`, `api/auth.py`, `api/deps.py` | `user_sessions` | sign in, touch, expire | every request |
| **Proofs of a sign-up** `crud/user.py`, `crud/telegram_verification.py`, `api/telegram_verify.py`, `api/free_api_key.py` | codes of phones, tokens of channel membership | send and check a code; create, link, verify, consume a token | SMS, Telegram bot |
| **Telegram connections** `services/connection_service.py`, `state_machine.py`, `session_manager.py`, `telethon_pool.py` | connection state and pooled client of an account, per process | connect, reconnect, disconnect, monitor | Telegram |
| **Telegram sign-in** `api/telegram_auth.py` | saved session of an account, pending hash in memory and Redis | send-code, verify-code, verify-2fa, status | Telegram, delivery |
| **Live updates** `realtime/dispatcher.py`, `realtime/broadcast.py`, `routes/ws.py`, `api/chats.py` | the queue of updates, the set of chat sockets of an account, the list of pushed events, per process | publish, take, send to all, register and drop sockets, pass on notices, pump events | Telegram, browsers |
| **Automatic replies** `services/auto_reply_service.py`, `crud/auto_reply.py`, `api/auto_reply.py` | the switch of an account, rules and their log; `_handlers` and `_recent_messages` of each process | switch on and off, attach, verify; handle a message: limits, send, log | Telegram clients, delivery |
| Escrow, webhooks, bots, AI chat and content, search, analytics and CRUD | little, or single rows | see section 8 and `PROJECT.json` | |

### What is hard about it

* **Several processes.** What is due may be seen by every scheduler that runs. The scheduler is
  meant to be a singleton, through a Redis lock that is granted to everybody when Redis is not
  there; only some of its jobs (the claim of a broadcast, `SELECT ... FOR UPDATE`; the claim of an
  invoice, a conditional `UPDATE`) are safe without it.
* **Read, await, write.** Reschedule, cancel and pause of a broadcast, every operation on a wallet
  and on credits, the approval of a payout, the cancellation of a task, codes and links of a sign-up, and the
  recovery of a session read a row in one statement and write it in a later one; SQLAlchemy writes
  only columns that changed. What others did in between is silently overwritten or silently kept.
* **Several commits.** Activating a plan commits before the record of the payment, the key and
  the commission are written; a crash or an exception in between leaves a part.
* **No commit.** `get_db` does not commit, so that what a handler only flushes is gone.
* **Two drivers.** The program runs on PostgreSQL (asyncpg), its tests on SQLite (aiosqlite). Many columns are declared `DateTime`
  without a zone; asyncpg refuses a time with one for them, aiosqlite takes it. Most of the code strips the zone; three places do not.
* **Partial effects.** Messages leave one by one, but their records are written once, at the
  end. A timeout, an exception or a crash leaves messages without records. A join or a send that
  timed out may have been accepted.
* **Unreliable partners.** Webhooks and payment updates are lost, repeated, delayed and reordered; the chain is read in pages, newest
  first; Telegram revokes sessions and imposes flood waits at any time.
* **Sets that change under an iterator.** A broadcast to the sockets of an account waits in every send, and sockets
  come and go meanwhile.
* **State per process.** Pooled Telegram clients, connection states and pending hashes live in one worker; the
  next request may reach another.
* **Unwinding.** An exception below `process_broadcast` leaves the row in whatever status it
  had, and above it leaves the series claimed. A recovery by age has to tell a lost claim
  from one at work.

### What makes the components correct

* *Dispatch*: at most one run per broadcast; one delivery per opening (creation or retry);
  a settled broadcast is left alone until a retry; retries stay within the limit; a pause or
  a cancel stops a series; a claim is not lost for ever; what is due is dispatched.
* *Delivery*: records are true; the number of copies a recipient can get is bounded; the
  reported result agrees with the records; a ban is not undone.
* *Lock*: one scheduler at a time, and, after a death, one again.
* *Join queue*: a link is joined once, within the limits, and is joined in the end if nothing forbids it.
* *Payments*: a payment buys one thing, a key is handed out once, no payment is missed.
* *Wallets, credits, commissions*: a balance is what was put in and taken out.
* *AI tasks*: a task does not go round for ever, a cancelled one stays cancelled, a schedule keeps its interval.
* *Live updates, replies*: an update reaches every open socket; an account replies within its limits.
* *Accounts*: one session per user; a proof admits one request; a sign-in that was begun can be
  completed; an account that is said to be connecting is being connected.

`PROJECT.json` lists every hazard with its line, and the property that covers it or the
reason why none does.

## 2 Modules, and how they correspond to the code

| Module | Role |
|---|---|
| `BroadcastLifecycle` | Abstract: what the pipeline promises for one sendable broadcast |
| `BroadcastDispatch` | Detailed: dispatch by several processes; implements `BroadcastLifecycle` |
| `DeliveryContract` | What dispatch assumes of a delivery |
| `BroadcastDelivery` | Detailed: one broadcast, recipient by recipient; keeps `DeliveryContract` |
| `SingletonLock` | The Redis lock in front of the scheduler |
| `Database` | The drivers of the database, where they differ; extended by the next two |
| `JoinQueue` | The queue of joins, and the requests that join a selection |
| `AiTasks` | The AI platform's queue, worker and scheduler |
| `UsdtDeposits` | Transfers, references, the watcher, confirmation by hand, the key |
| `CryptoInvoices` | Invoices and payments of NOWPayments |
| `StarsWallet` | Stars payments and wallets |
| `ReferralLedger` | Commissions and payouts |
| `ChatCredits` | Credits, and the turns of a chat that spend them |
| `UserSessions` | Login sessions |
| `ChannelProofs` | Codes and tokens a sign-up is admitted on |
| `AccountConnections` | The connection of an account in one process |
| `AccountSignIn` | Signing an account in, next to deliveries and restarts |
| `Realtime` | Updates on their way to the chat sockets of one process |
| `AutoReply` | Automatic replies of one account, with its listeners |
| `BroadcastDispatch_proofs`, `BroadcastDelivery_proofs` | Theorems of the module named |
| `Jobs_proofs` | Theorems of `SingletonLock`, `JoinQueue` and `AiTasks` |
| `Live_proofs` | Theorems of `Realtime` and `AutoReply`, and of all that `MCJobs` composes |
| `Payments_proofs` | Theorems of `UsdtDeposits` and `CryptoInvoices`, and of all that `MCProgress` composes |
| `Wallets_proofs` | Theorems of `StarsWallet`, `ChatCredits` and `ReferralLedger` |
| `Accounts_proofs` | Theorems of `UserSessions`, `ChannelProofs`, `AccountConnections` and `AccountSignIn`, and of all that `MCServices` composes |
| `FiniteSums_proofs` | Lemmas on sums and greatest values over finite sets, and the induction they need |
| `MCDispatch`, `MCDelivery`, `MCQueue` | Instances of the broadcast modules and of the join queue |
| `MCBroadcasts` | Two instances of `BroadcastDispatch` in one state space |
| `MCJobs`, `MCProgress`, `MCServices` | Instances of several modules at once |

The conventions are the same in all of them. A database transaction is one step. What a coroutine
has read and still uses after an `await` is kept in a variable of that coroutine, so that other
processes act between the read and the write. A variable named *history* in its comment is read by
properties only, never by a guard. A definition whose comment begins with *Mutant* is a plausible bug,
under which a property fails; nothing else uses it. Telegram, the chain, the payment provider and
the language model are external: they answer in every way the code distinguishes.

The two broadcast modules meet at `deliver_message`. `BroadcastDispatch` knows only whether
*none*, *some* or *all* recipients have a successful record and lets a delivery do whatever
`DeliveryContract` permits; `BroadcastDelivery` models `deliver_message` itself and is
checked and proved to permit no more. So many broadcasts can be modelled without
recipients, and many recipients without other broadcasts. `SingletonLock` justifies the
instances of `BroadcastDispatch`, `JoinQueue` and `UsdtDeposits` with one scheduler.

### BroadcastDispatch

`Flushed` models how SQLAlchemy flushes: an attribute that is set to the value it was loaded with
is not written, even if the row has changed since.

| Variable | In the code |
|---|---|
| `status`, `retries`, `paused` | columns of `broadcasts` |
| `due` | `scheduled_at` of a broadcast, `next_scheduled_at` of a series: none, future or due |
| `age` | time since `coalesce(sent_at, created_at)`, in rate intervals, counted up to the largest age a guard can tell |
| `logged` | whether none, some or all recipients have a successful `message_logs` row |
| `pc`, `seen`, `skip`, `verdict` | a run of `process_broadcast`: where it is, the status it loaded, `skip_rate_limit`, what it will write |
| `spc`, `toClaim`, `running`, `todo`, `cur`, `kid`, `found` | a tick of `dispatch_due_broadcasts`: its lists, `_running_broadcasts`, the series in hand, the occurrence it awaits, the status its reschedule has read |
| `api` | a cancel, pause or unpause request between its read and its write |
| `begun`, `firedInSlot`, `firedPaused` | history |

| Actions | In the code |
|---|---|
| `AdmitImmediate`, `CreateImmediate`, `CreateScheduled` | `POST /api/broadcast` |
| `Retry`, `BatchRetry` | `/retry`, `/dispatch`, `/batch-retry` through `crud.retry_broadcast` |
| `ReadSeries`, `WriteCancel`, `WritePause`, `WriteUnpause` | `/cancel`, `/pause`, `/unpause` |
| `Load`, `EarlyExit`, `Mark`, `AcquireSendLock`, `Delivered`, `TimedOut`, `DeliveryRaises`, `Finish`, `FinishTimedOut` | `process_broadcast`, session by session |
| `RecoverStale`, `ListDue`, `ClaimOneTime`, `TickDone`, `ClaimSeries` | `dispatch_due_broadcasts` and the crud functions it calls |
| `SkipSeries`, `EnterSeries`, `CreateChild`, `ReadForReschedule`, `Advance` | `process_recurring_parent` |
| `TimePasses`, `ComesDue`, `Crash` | clocks, and the death of a worker |

The account may be missing, suspended or unreadable whenever it is looked at, so every
refusal is a possible outcome and the account itself is not a variable.

### BroadcastDelivery

One broadcast, its recipients and the account. `todo`, `attempt` and `pausing` say where
the coroutine of every recipient of the current batch is; `buffer` is
`_BatchPersister._rows`; `log` is what is committed. `accepted` and `confirmed` belong to the world: how many messages
Telegram has accepted for a recipient, and whose acceptance the program has seen. They
differ when an answer is lost (`Unanswered`), when a timeout cancels a send under way (`TimeOut`), and when a
crash comes too early. Every recipient's coroutine takes its own steps, so a ban found by one
(`Banned`) falls between the read and the write of a protection pause by another
(`Forbidden`, `WriteSuspended`).

### SingletonLock

The key is `holder` and `left`. `EXPIRE` does not look at the value, so a renewal extends
whatever key is there; `holder` only serves the properties. The clock does not pass a
renewal that is due unless the event loop stalls, which is remembered in `troubled`
together with outages, because the lock promises nothing then.

### Database

`Drivers` says which drivers a behaviour may meet: where both are in it, a statement that gives a time with a zone to a
column without one may be taken (`ZoneTaken`) or raise (`ZoneRefused`). Three steps execute such a statement: the hourly limit of
the join queue (`CheckAccount`), the claim of an AI task (`MarkRunning`) and the record of an execution (`ExecuteSchedule`).
The run `jobs` and the proofs allow both drivers, so that what they show holds on each. On PostgreSQL alone, which is the production, the
first of them always raises: that is the run `served`. Whatever is said below of joins of the queue, of attempts at tasks and of executions of schedules
therefore concerns the program with aiosqlite, or with these columns or statements corrected.

### JoinQueue

`jstatus`, `position` and `until` are columns of `join_queue_items`, `jpaused` one of
`join_queue_configs`; `hour` and `today` count the successful rows of `group_join_logs` that
the limits look at, up to the largest limit. `jpc`, `jtodo`, `jacc`, `jitem`, `outcome` are the
tick of each scheduler, `batch` a request that joins a selection (`join_selected_groups`, `join_selected_links`).
The queue's tick looks at the pause, the flood waits and the limits once per account (`CheckAccount`), and
then picks, claims, connects, joins and settles an item in separate sessions. Where the query of the hourly limit
raises, the turn of the account is over. The claim
selects and then writes, so two schedulers may claim one item. Joining and logging the join are two
steps; a crash between them leaves a join that no counter knows.

### AiTasks

`task` holds the rows of `ai_tasks`, `work` the worker of each process: it polls, takes the first by
priority, writes *running* (or, where `started_at` is refused, raises outside the `try` of `_process_task`, and the row stays *queued*, where no worker looks), attempts, and writes the outcome. No handler is registered for any
type, so an attempt always raises. `sched`, `lastRun` and `tick` are the schedules, their last executions and the
scheduler of each process: a tick notes the time, lists what is active, looks at each schedule's
last execution and executes it in a later step, unless `triggered_at` is refused: then nothing is recorded or enqueued, and the tick goes on to the next. The
request that triggers a schedule by hand is left out. A schedule that fires once is executed at every tick, because
the counter that should stop it is incremented on a row of another session.

### UsdtDeposits

`sub`, `ref` and `referred` are columns of tenants; `dep` is the chain (time, memo, amount enough or
not); `record`, `owner`, `claimed` the rows of `payment_records`. `watch` is `check_usdt_payments`
in each process: the watermark, the page, the transfer in hand; `clerk` the requests that confirm a
transfer or fetch a key. `activate` commits the plan first; the key and the record are a second transaction.

### CryptoInvoices

`row` is the row of an invoice, `legacy` tells those of the older endpoint, whose stored id is the one the
provider uses. `pay` is the payment at the provider, `ipn` the webhooks sent, which are never used up: each may arrive at any time,
any number of times, or never. `hand` is what each webhook request and each reconciliation job has in
hand between the claim (one commit with the plan), the key and the commission.

### StarsWallet

`wallet` is `stars_balance`, `charged` are the rows of `stars_payment_records`, `req` the requests and updates in progress, each
with the balance it has read. `book` is what the wallet should hold. The record of a charge and what it buys
are two commits; a second delivery of the charge finds the record.

### ReferralLedger

`com` and `payout` are the rows of commissions and payouts. A payout is a sum: it does not name what
it counted, and its approval marks paid what is pending by then. `approving` is an approval between its read and its write.

### ChatCredits

`tenant` is the row (plan, balance, refill time, trial), `turn` the chat requests with the copy of the
row each works on, `caller` other requests that change the credits, `chatLog` the messages
of the session. A turn refills, charges an estimate, saves the question, builds the history,
generates, and settles: the streaming branch pays the estimate back and charges the use, the
other charges the use on top.

### UserSessions, ChannelProofs

`session` holds `user_sessions`; a login deletes and inserts in one transaction that does not see another one
under way. `code` and `form` are the rows of a phone's code and of a token, `visit` the requests with
what they have read: a code is compared with the copy, a token is consumed by a conditional statement. Linking a token that was verified makes it *linked* again, as
`telegram_verify.py` does.

### AccountConnections, AccountSignIn

`state` follows `TRANSITIONS` of `state_machine.py` (`After`); an event that the table does not
foresee leaves it. `op` is the operation in `_inflight_operations`, `client` and `live` the pooled client, which
requests use (`RequestUses`) and drop (`RequestDrops`) without telling the state. A reconnect is begun by the monitor, and from any state
that is not busy by a maintenance request or a frame of `/ws/sessions` (`Reconnect`). `AccountSignIn` has the row (`saved`), the
pooled clients and hashes of each worker (`pooled`, `hash`), the copy in Redis (`backup`), and Telegram's view: which
auth keys are authorized (`keyState`) and which code is good with which (`sent`). The copy in Redis is an
abstraction: the code writes it in a task of its own, keeps it 300 s, and fetches it, when memory has none, between two looks of
verify-code (`telegram_auth.py:210-214`); the model writes, keeps and finds it at once.

### Realtime

`queue` is the dispatcher's, `drain` what each of its workers has in hand. A pass over the set `clients` is a
record of `loop`: the socket whose send it waits for (`at`), those it has come to (`seen`), sent to (`got`) and found dead,
and the size the set had at the start, which Python's iterator compares at every step: a set of another size makes it raise
(`Breaks`), and one whose members changed but not their number lets it pass over some (`stirred`). When the last socket of
the account leaves by itself, the set is taken out of `chat_clients` and passes under way go on over the old one
(`Orphaned`). `sock` is the connection as sends find it: a peer that has gone may still take a message; the first send
that notices raises `WebSocketDisconnect` and the next ones another exception. The pump of a socket (`pump`, `bag`) pops what is in
`_WS_BROADCAST`, whoever it is for. One account is modelled; accounts share the workers and the pushed events only.

### AutoReply

`replying` is the switch in the database; `pooled`, `attached` and `handlers` are the client of each process, whether the callback
hangs on that client, and the entry of `_handlers`, which outlives the client. `toggle` is a request to switch, `round` the
startup and the verification loop of the process with the lock. `handler` are the tasks that Telethon starts
for incoming messages, each in a process: they look at the switch, get the client, match the rule, read the limits from `recent`
and `logged` (the rows of `auto_reply_logs` within the cooldown and of today), send, and write the row. `sent` and `sentDay`
count what was sent by the same clocks.

## 3 Runs

### Passing

| Run | Instance | Checks |
|---|---|---|
| `broadcasts` | `MCBroadcasts`: two schedulers, two one-time broadcasts of one account, one retry; or one scheduler, a second worker for requests, a series with two occurrences, one crash | `SoleRunner`, `TerminalIsQuiet`, `FailedMeansUnlogged`, `ImplementsLifecycle` although both workers create, list, claim and retry the same rows; `RunDiscipline`, `PauseStopsSeries` although occurrences run unclaimed and recovery, pause and cancel interfere |
| `jobs` | `MCJobs`, with both drivers: three workers for the lock, with Redis failing; two links of one account, or a link and a selection; two tasks and two runners; one schedule; three sockets, two updates and two workers; two processes with a listener each, two messages of a sender | `AtMostOneScheduler`, `DeadKeyExpires`; `JoinedOnce`, `DailyBudget`, `FloodRespected`, `PauseStopsQueue`; `CancelSticks`, `TaskEnds`, `IntervalKept`; `UpdateReachesAll`, `UpdateHandled`; `RepliesBounded`; `JobsTypeOK` |
| `progress` | `MCProgress`: one worker with a one-time broadcast and a series; two transfers of one payer, read one to a page, and two requests; two invoices, one webhook and one job | `DueIsDispatched`, `SeriesReleased`; `OneKeyPerDeposit`, `DepositPaysOnce`, `KeyClaimedOnce`, `DepositRecorded`; `FulfilledOnce`, `LegacyServed` |
| `services` | `MCServices`: a delivery to three recipients in batches of two; two wallets and a charge; a referrer with three commissions; two turns of a chat, or one and another request; two users; a phone, a token and three requests; a connection; a sign-in | `RecordIsTruth`, `ReachBound`, `KeepsContract`; `ChargeGrantedOnce`, `WalletBalanced`; `LedgerBalanced`; `StreamCharged`; `SoleSession`; `ProofAdmitsOnce`; `BusyIsWorked`; `SignInResumes`; `ServicesTypeOK` |

`MCBroadcasts` chooses at the start whether every process runs a scheduler or one does, follows the one-time broadcasts in the first case and the
series in the second, and leaves out what the other is for (`OneTimeNext`, `SeriesNext`). Both together, with retries and crashes in the same behaviours,
are beyond TLC and are covered by the proofs.

The modules that `MCJobs`, `MCProgress` and `MCServices` put together share no variable. A
property of one of them holds in every interleaving with the others if it holds while the others rest,
so each behaviour follows one part, chosen at the start in `focus`, and the state space is the sum and
not the product of the parts. Modules that do interact are never separated in this way: broadcasts share one
state with their series and requests, the selections share one with the join queue, the watcher with the
requests, the webhooks with the reconciliation, the sign-in with deliveries, the sockets with
the dispatcher's workers, the handlers with the switch and its listeners. Where a part would be too large, `MCJobs` follows it in slices that
hold something small and let the rest vary (one update and three sockets, or two of each; one message in two processes, or two in one).

The types of `BroadcastDispatch`, of the deposits and of the invoices are proved and not checked again.

What the properties say:

* `SoleRunner`: creation, claim, retry and the unclaimed start of an occurrence never give one
  broadcast to two runs.
* `TerminalIsQuiet`: a broadcast reported *sent* or *failed* has no run left that could
  reach a recipient or overwrite the report, so a retry never races the old run.
* `RunDiscipline`: one delivery begins per opening, a run finds the row in the status it
  owns, and once successes are recorded no run is before or in a delivery.
* `FailedMeansUnlogged`: a failed broadcast has no recipient on record as served. (So the
  filter of `process_broadcast` that skips served recipients never has anything to skip on a
  retry; it is the records that are missing, see `reported`.)
* `PauseStopsSeries`: after a pause at most the occurrence already under way is created.
* `ImplementsLifecycle`: with claims, ticks, processes and crashes hidden, every broadcast is
  opened, begun at most once per opening, settled once, and reopened only if it failed and
  within the limit.
* `DueIsDispatched`: what is pending and due does not stay so. `SeriesReleased`: a claimed
  series is released, unless it is paused.
* `RecordIsTruth`: a success row is only written of a message the program saw accepted.
  `ReachBound`: at most `MAX_RETRIES` copies per recipient and opening.
  `KeepsContract`: `deliver_message` does what `BroadcastDispatch` assumes.
* `AtMostOneScheduler`: while Redis answers and renewals are on time, one worker runs the
  scheduler, also while containers overlap. `DeadKeyExpires`: the key of a dead holder goes.
* `JoinedOnce`: with one scheduler no link is joined twice. `DailyBudget`: an account joins more
  often than its limit only if two joins were under way at once or a join went unlogged.
  `FloodRespected`: nothing joins with an account in a flood wait. `PauseStopsQueue`: after a
  pause at most the item under way. `QueueServed`, of the run `served`: an item does not wait for ever while nothing forbids it.
* `CancelSticks`: a cancelled task stays so, unless a worker had it in hand. `TaskEnds`: a task does not go round
  for ever: it fails, is cancelled, or is left *queued* by a claim that raised, unless its worker died with it or two had it in hand. On PostgreSQL
  the claim always raises, so that there every task that is not cancelled ends left *queued*, which nothing takes up. `IntervalKept`: executions of a schedule are its interval apart;
  on PostgreSQL there are none.
* `UpdateReachesAll`: a broadcast of an update during which no socket came or went has reached every open socket,
  whatever dead ones it met on the way. `UpdateHandled`: a queued update is handled, whatever sends raise.
* `RepliesBounded`: an account replies to a sender once within the cooldown and within its daily limit, however its
  listeners are attached, lost and attached again; the comment names the exceptions.
* `OneKeyPerDeposit`, `DepositPaysOnce`, `KeyClaimedOnce`: a transfer makes at most one key, activates
  one plan, and its key is shown to one request; the comments name the overlaps excepted.
  `DepositRecorded`: a transfer is recorded, unless a newer one was recorded first or more than a page waits.
* `FulfilledOnce`: an invoice pays for one plan, one key and one commission. `LegacyServed`: a paid row
  of the older endpoint is fulfilled even if its webhook never arrives.
* `ChargeGrantedOnce`, `WalletBalanced`, `LedgerBalanced`, `StreamCharged`: what was paid is granted
  once; a balance is the sum of what went in and out; a payout never exceeds the commissions it marks;
  a streamed turn costs what it used.
* `SoleSession`, `ProofAdmitsOnce`: one session per user; one request per code and token.
* `BusyIsWorked`: a connection that says *connecting* has somebody at work. `SignInResumes`: the
  code a user was told to enter can be completed, in one worker, whatever restarts in between.

`WalletBalanced`, `LedgerBalanced`, `StreamCharged`, `ProofAdmitsOnce` and others are conditional: the code reads, awaits and writes
without a lock, so they say exactly which overlap is needed to break the balance, by a history
variable that becomes true when two requests have the same row in hand. What is left unsaid by the exception is what
the code does lose; sections 7 and 8 name the losses. In particular `RepliesBounded`, `KeyClaimedOnce`, `WalletBalanced`, `StreamCharged` and
`SoleSession` except the very race their hazard is about: they show that nothing *but* that race breaks the bound, the key, the balance, the charge or
the single session (no failure, repetition, restart or other order of the calls), and they do not catch the race. `ProofAdmitsOnce` holds of tokens in any
overlap, because they are consumed by a conditional statement, and of codes except when two requests have the code in hand.

Each property has a mutant in `PROJECT.json`: a variant of a definition, kept
next to it in the module and marked *Mutant*, under which the property fails.

### Violations

`cancel`, `slot`, `reported`, `served`, `invoice`, `stay`, `keep` and `history` each state what a comment, a
docstring or a test says and end in a counterexample: see section 7.

## 4 Bounds

* **Broadcasts.** Two one-time broadcasts of one account are the least for which the rate
  limit and the send lock matter; two processes the least for which a claim matters.
  All properties speak of one broadcast at a time, and the proofs remove the bound.
* **Child.** Ids for occurrences. A series is not entered when none is left; it may then
  still be skipped. Two are needed for a second occurrence of the same scheduled run.
* **MaxRetries = 1** lets a broadcast be opened twice, so that the end of one opening can
  meet the beginning of the next. In `broadcasts` a series goes without retries (`SeriesNext`): what they add is the subject of the one-time broadcasts.
* **RateAge = StaleAge = 1.** In the code 60 s and 120 s. Ages are counted no further than
  a guard can tell; what matters is whether an age is below or at the limit, and
  `RateAge <= StaleAge` is all the assumption says.
* **Immediate** names the ids that may be created for an immediate start. Series are
  excluded from it, because an immediate series behaves as section 7 says.
* **Recipients.** Three in batches of two: a full batch, a short one, and two coroutines at
  once; the flood threshold of two is reached in one batch or over two.
* **TTL = 6** gives a renewal interval of two, so a renewal has slack of more than a tick.
* **Drivers.** Both in `jobs`; PostgreSQL's alone in `served`, which needs no more than one link and one scheduler, since the query that raises comes
  before any item is claimed.
* **Limits of the join queue.** One join a day and an hour: the second is already one too
  many. A selection holds at most two links (`MaxTargets`), so that it may itself exceed the limit.
* **Faults** (`MaxCrash`, `JoinFaults`, `TaskFaults`, `ReplyFaults`, `UsdtFaults`, `InvoiceFaults`, `StarsFaults`, `Restarts`) bound
  crashes, exceptions and failed calls of a partner: one each. A property that a crash can break is broken by one.
* **Clocks** (`MaxNow`, `MaxHour`, `MaxToday`, `MaxDay`) end after the largest interval has passed
  twice, or once where one expiry is all there is.
* **PageSize = 1** stands for the 50 transfers of a page, **HistoryPage** for the 200 rows of
  a chat: what matters is that one more exists.
* **QueueMax = 1, PushMax = 2** stand for 4000 and 100: a full queue, and a pump that has another event left after the first.
  Three sockets let a pass be disturbed by a socket it has come to, the one it waits for, and one it has not come to.
* **Replies.** One reply a day: a second one is too many by both limits. Two handlers at once, the least that can race.
* **Amounts.** Commissions of 1 and 2 against a minimum payout of 1 or 2; usages below and
  above the estimate and the balance; a top-up worth one purchase.
* **MaxGuesses, MaxCodes, MaxRefs, MaxSent, MaxStars** let the object be made twice or
  thrice, so that the old one meets the new one.

The set of broadcasts being finite, `DueIsDispatched` says nothing of a flood of new
broadcasts that keeps the rate limit of an account engaged: a user can starve a deferred broadcast that way.

Symmetry: ids of one-time broadcasts, of occurrences and of recipients are only compared for
equality. Processes are exchanged only where all of them run a scheduler, or `schedulers` says which does. Runs with liveness
properties use none.

Deadlock is checked in `broadcasts`, `cancel` and `slot`. It is not in the others,
because a settled broadcast, a wallet without customers or a finished sign-in may stay as it is.

## 5 Fairness

`BroadcastFairness`: every run, every tick and every request under way is weakly
fair, because an event loop runs each runnable coroutine and each database call returns or
raises; `SchedStep` as a whole includes the beginning of a tick, because APScheduler fires the job
at its interval as long as the process lives. Time passes and scheduled times arrive.
Nothing is assumed of users, of crashes, of the success of a delivery, or of which branch a
run takes: an account may be refused for ever, a series may be skipped at every tick.

`JobsFairness`: time passes, a renewal that is due is made, and a process that is
down is started (the container's restart policy); nothing makes Redis fail or recover. The worker of the task queue goes on, as its loop does, which
catches every exception. The dispatcher's workers go on
(`RealtimeFairness`): a send returns or raises, and nothing stops a worker before its process. Nothing is assumed of sockets, pumps and
handlers.

`JoinFairSpec`, of the run `served`: the tick of the join queue goes on and is started again, as APScheduler does it, and an account whose turn raises
does not end the tick.

`UsdtFairness`: the job of the watcher goes on; the chain answers but for `UsdtFaults` times.

`InvoiceFairness`: the reconciliation goes on, and picks each row it may pick infinitely often (strong
fairness), because every five minutes it goes through all rows that are pending. Whether a webhook arrives is up to the provider.

The other modules have safety properties only.

## 6 Proofs

All are for every value of the constants that the `ASSUME` of the module allows, which TLC
evaluates in every run.

**`BroadcastDispatch_proofs`.** `DispatchTyped` is proved first, action by action. It is not
strong enough: that nobody else runs a row which is claimed depends on which rows are
pending, which runs may hold a pending row, and what a tick has listed. The inductive
invariant is

    DispatchInv == TypeOK /\ (\A b \in Sendable : JobInv(b)) /\ (\A s \in Proc : TickOK(s))

where `JobInv(b)` collects, for one broadcast, `SoleRunner`, `TerminalIsQuiet`, `RunOK`,
`LogOK`, `FailedMeansUnlogged` and the status conditions of `RunDiscipline`. Three conjuncts
do the work: a row that is still pending is run only by its creator, before it is ever due, or
by the scheduler that created it as an occurrence; a tick has finished with its one-time claims
before it turns to a series; and what a tick has listed is due. So no claim can meet an
occurrence that its own scheduler is running. `JobFrame` and `TickFrame` dispose of the
broadcasts and ticks a step does not touch, so each action needs one argument, about the broadcast it moves.

These theorems assume `OneSchedulerOrNoSeries`: one process runs a scheduler, or nothing
recurs. The proviso is needed: with two schedulers an occurrence, inserted pending and due, may be claimed by one
while the other runs it. `OneScheduler` of `Jobs_proofs` shows when it
is met. `LifecycleImplemented` derives the refinement from the invariant: `StepMoves` shows
that every step moves each broadcast by one of a few patterns, `MoveIsJobStep` that each
pattern is a step of the abstract life cycle or leaves it unchanged.

`PauseStopsSeriesHolds` needs one more invariant, `PauseInv`: the scheduler that is about to create an occurrence
has read the series before the pause, so no occurrence has been created since; afterwards nobody is about to,
because a tick looks at the pause before it enters a series.

**`BroadcastDelivery_proofs`.** `DeliveryTyped`; `RecordTrue`, where what is in the buffer
must be included in the invariant, because it is written later; `ReachBounded`, by
the invariant that the copies of a recipient are covered by the attempts of earlier openings plus
those this run has used or may still use (`Allowed`), which needs that a recipient is not both waiting
and started (`Apart`); and `DeliveryKeepsContract`, from the fact that a row is *sending*
whenever a run is busy. The last one discharges the assumption of the dispatch module.

**`Jobs_proofs`.** Of the lock: `LockTyped`, and `OneScheduler` from the invariant that, as long as
there was no trouble, every running process renews, holds the key, and will renew it before it
expires (`timer[p] < left`). That rests on `RenewInterval < TTL`, which is where `TTL >= 2` is used.

Of the queue, all under `OneJoinScheduler`, but for the limit: `LinkJoinedOnce`, where the invariant says for a link that was joined that no row can lead to
another join, neither in the table nor in a scheduler's hand; `PauseStopsJoins` and `FloodIsRespected`, whose
invariants say what the tick has already seen of the account; `LimitKept`, for any number of schedulers,
by the invariant that the log is at most one join behind and that whoever joins has read the log as it is now, until the
exceptions of the property apply. `JoinsKeepType` types the rest of the queue; that a position exists at all needs
`GreatestValue`: `add_to_queue` takes the maximum of the positions in use, which a set of numbers has if it is finite. Of the tasks, for any number of workers: `CancelIsKept`, because a cancelled task is in nobody's
hand; `IntervalIsKept`, because a schedule is executed only if its interval had passed by the time the tick noted.

**`Payments_proofs`.** `InvoicesFulfilledOnce`: the conditional claim puts a row in at most one hand, and
plan, key and commission are made from that hand only. The deposits have no such claim; the invariant follows one transfer through
its record, its owner and the processes that have it in hand, and says that the second of them meets a record.

**`Wallets_proofs`.** `ChargeBuysOnce`: the record of a charge is unique and decides. `WalletsBalance`: whoever has read a
balance and may write it has read the one that is there now, until two have it in hand. `StreamCostsItsUse`: the credits a
turn has taken are those its position calls for.

`LedgerBalances` compares two sums, over the commissions marked paid and over the payouts completed, for any finite sets of
either. `LedgerTypeOK` and `LedgerBalanced` say too little to be inductive; for a referrer whose ledger nobody has touched, `LedgerInv` adds that a payout that waits is of the
whole of what is owed, that there is one such payout, and that an approval whose payout is completed already finds nothing left to mark
(two admins may approve one payout: both read it as pending). A step that marks rows moves their amounts from one sum to the other, which is
`TotalMoves` and its companions in `FiniteSums_proofs`. `SetInduction` there needs no theorem with an operator
parameter: the subsets of a finite set that lack the property are a set, strict inclusion is well-founded
(`FS_StrictSubsetOrderingWellFounded`), so that set, if it is not empty, has a minimal element (`WFMin`), which the step refutes.

**`Accounts_proofs`.** `OneSession`, `AdmittedOnce`, `BusyHasWorker`: in each the invariant adds what a request in progress
may still do on the strength of what it has read.

`CodeCanBeEntered`, from `SignInv`: while the code the user waits for is good (`Outstanding`), the saved session, the
backup and every worker's hash belong to it; a request past `send_code` holds the newest code; and whoever is about to clear a session or
to report failure has made sure that no such code is left. It assumes `OneAtATime`, one worker and
one request of an account at a time, which is what the run has too: with two workers, or with two requests, TLC finds
that the session of an older code is saved over that of the newer one. Types (`SignInKeepsType`) need no such assumption.

**`Live_proofs`.** `UpdatesReachAll`, for any number of sockets, updates and workers, from `UpdatesInv`: a pass that nothing stirred
goes through the set as it is now, and of the sockets it has come to it has sent to all but the one it waits for and those it found dead,
none of which is open. So when the iterator is through, whoever is open was sent to. `RepliesAreBounded`, from `RepliesInv`: per sender
(`SenderKept`) and for the day (`DayKept`), what was sent is what is logged plus at most one handler between limits and log, until
the exceptions apply; and a process has at most one handler for a message it remembers (`HandledOnce`).

**The parts together.** The modules that `MCJobs`, `MCProgress` and `MCServices` put side by side share no
variable. Those runs follow one of them in each behaviour, to keep the state space small; `AllJobsSpec`, `AllProgressSpec` and
`AllServicesSpec`, in the proof modules, let all of them interleave as they please. Each implies the specifications of its modules
(`AllJobsKeepSpecs` and its likes: a step of the whole is a step of each module or leaves it alone), and what a run follows is one of these
behaviours (`JobsAreFollowed`, `ProgressIsFollowed`, `ServicesAreFollowed`). So
`JobsAreSafe`, `ProgressIsSafe` and `ServicesAreSafe` state for the whole what is proved of the parts, each under the provisos of its
parts, and `JobsKeepType` and `ServicesKeepType` are the type invariants of the runs.

**Where five of the claims of section 7 do hold.** Each of these is the claim with the circumstance that breaks it left out.
`CancelSettlesHolds`: once a series is cancelled and no tick or delivery has it in hand (`Settled`), it stays cancelled, and none of its occurrences is
created, with any number of schedulers; `CancelIsFinal` fails because a reschedule may still have it in hand. `OnlyInvalidIsCleared`: under
`OneAtATime` a session is cleared as invalid only when Telegram has refused it; by `ClearInv`, what a request has read of the account,
of its client and of the key is still so when it acts on it. `HistoryOfShortChats`: as long as the session fits a page (`HistoryPage`), what a
turn is told is the most recent of it, with any number of turns under way. `FailureIsDefinitive`: a broadcast reported as failed was confirmed to
nobody, as long as no step drops rows of success that are only in memory (`KeepsRows`); and `OnlyInterruptionsDropRows`: only the timeout, an exception of
the flush or a crash does. `CommittedUseStays`: a session used within `SESSION_EXPIRE_DAYS` is valid, if the requests that use it
commit the slide (`Slides`). The two provisos restrict the steps, so these theorems start from `[][SessionNext /\ Slides]_sessionVars` and its like.

Every safety property and type invariant that a passing run checks is thus a theorem.

**Model-checked only.** Liveness (`DueIsDispatched`, `SeriesReleased`, `DeadKeyExpires`, `TaskEnds`, `UpdateHandled`,
`DepositRecorded`, `LegacyServed`), which needs fairness and ENABLED and is beyond the prover; and the eight claims of section 7, which fail.

## 7 Disagreements between code and documentation

Quoted in full in `PROJECT.json`.

| Run | What happens |
|---|---|
| `cancel` | The reschedule reads the series, a cancel commits, the reschedule writes: the cancelled series is pending again. |
| `slot` | A delivery that raises after it reached recipients leaves the series claimed and due; the recovery releases it after 120 s and the same scheduled run is delivered again. |
| `reported` | A timeout loses the buffered records: a broadcast that served recipients is reported as failed, and a retry serves them again. |
| `served` | On PostgreSQL the query of the hourly limit compares a column without a zone with a time that has one and raises, at every turn: the scheduler ticks for ever and no queued link is joined. |
| `invoice` | The row of an invoice is paid; neither its webhook nor the reconciliation ever fulfils it, because they look for the id of the payment where the id of the invoice is stored. |
| `stay` | A session used every day expires: the slide of its expiry is flushed and never committed. |
| `keep` | A delivery that read the account before a sign-in clears the session that the sign-in has just saved. |
| `history` | Once a chat is longer than a page, the model is given the end of the first page instead of the latest messages. |

The following need no interleaving, follow from the deployment rather than from an order of events, or are
what a history variable of a checked property excepts, and have no run:

* A series created without a start time is itself delivered as a one-time broadcast and ends as *sent* or *failed*
  (`api/broadcast.py:317`), against `tests/test_recurring_broadcast.py:169-172`.
* With two schedulers, an occurrence is claimed by one while the other runs it (`crud/broadcast.py:439`), against
  the comment at `scheduler/scheduler.py:58-60`.
* A protection pause that read the account before a ban writes *suspended* over *banned* (`services/delivery.py:311`),
  against the docstring at `services/delivery.py:303`.
* In a rolling deployment (`docker-compose.yml:48`, start-first) the new worker asks while the old one holds the key, and
  nobody asks again (`main.py:185-192`).
* A socket that registers or leaves while an update is sent makes the iterator raise, and the other open sockets miss the
  update (`routes/ws.py:134`), against "Send a JSON message to every open /ws/chat connection for this account." at `routes/ws.py:131`.
  `disturbed` records it and `UpdateReachesAll` excepts it.
* Switching replies on by a request that reaches a worker without the lock attaches a second listener (`services/auto_reply_service.py:235`),
  and a message is handled once per worker, which the comment at `main.py:208-210` takes the lock to prevent.
* A client that was replaced in the pool is never listened to again: `_register` returns because `_handlers` has the
  account (`services/auto_reply_service.py:206`), against "Verify all registered listeners are still attached to live, connected clients." at line 276.
* An AI task is never attempted on PostgreSQL: `claim` gives `started_at` (`ai/models/ai_task.py:34`, no zone) a time with one
  (`ai/task_queue/queue.py:139`), and the commit raises before the `try` of `_process_task`, against "processes tasks from the queue with error isolation."
  (`ai/task_queue/worker.py:2`). The task stays *queued*, and only *pending* ones are looked for.
* A schedule of the AI platform is never executed there: `triggered_at` (`ai/models/ai_schedule.py:56`) is given such a time
  (`ai/scheduler/service.py:114-122`), against "Execute a schedule's action and record the execution." at line 112.
* Two requests that fetch the key of a payment at once both read it as unclaimed and both obtain it (`api/usdt_payment.py:194`), against
  "so it can never be retrieved again" at lines 178-182. `KeyClaimedOnce` excepts requests that overlap.
* Two requests that present a code at once are both admitted: each reads the row before the other has deleted it, against "deletes it so it can't be
  replayed" at `crud/user.py:46-47`. `ProofAdmitsOnce` excepts requests that have the code in hand together.

## 8 What is not modelled

Within the modelled components:

* message contents, media, buttons, watermarks, pacing delays, cycles over several messages;
* the resolution of targets and groups (its failure is a refusal);
* flood-wait bookkeeping of a delivery (`get_flood_wait_remaining`) beyond refusing it, the resume of a
  suspended account, and the marking of a session as lost;
* the choice among several accounts and the delays of a join;
* prices, rates, tiers, currencies, signatures, invoices and menus;
* passwords, profiles and rate limits per address;
* prompts, models and answers; health scores and event logs of connections;
* database failures other than those named in the actions: elsewhere a transaction commits;
* the listing endpoints;
* transactions are isolated as PostgreSQL does it by default, read committed with row locks; that `FOR UPDATE` does nothing in the
  tests' SQLite is not modelled. Where the drivers differ in what they accept, both are (`Database`).

What the code does, and no property forbids, because nothing in the code or its documents promises otherwise:

* *Broadcasts.* A one-time broadcast whose worker dies stays *sending* or *retrying*, since recovery looks at
  series only and a retry at *failed* only; a broadcast that a batch retry sets to *retrying* is picked up by nobody;
  two broadcasts of one account that are due in one tick can be listed together and then fail each
  other's rate check; broadcasts created by the content studio without a time stay *pending*.
* *Join queue.* `recover_stale_flood_wait_items` is imported and never scheduled, so an item in *flood_wait* or *processing* stays there.
* *Payments.* Transfers of a burst that are older than a recorded one are passed over. Of the referral programme, `create_commission`
  looks for a referral code under the id of a tenant, payouts do not mark the commissions they counted, the approval marks all that is pending, a
  cancellation also cancels what was paid, and `cancel_commissions_by_payment` and `run_auto_payouts` have no caller.
* *AI platform.* No handler is registered with the worker, so a task that is attempted can only fail; `schedule_at` is not looked at; schedules that fire
  once are executed at every tick, and those with a cron expression are always due.
* *Credits.* A failed stream keeps the estimate; an answer that costs more than the balance is free; the branch that does not stream
  charges the estimate and the use; overlapping turns lose charges; a trial that expired keeps its limits; the paid
  pool is not refilled by the month; the placeholder row of an answer is not filled.
* *Sessions.* Whatever a handler only flushes is lost; overlapping logins leave two sessions; logins by API key add up. A form that was verified becomes *linked* again
  when it is linked again.
* *Live updates.* Four workers may overtake each other, so that updates of a chat arrive out of order. A pump ends with the first
  error that is no disconnect, and its socket stays open; pushed events name no account and go to the sockets of whichever pump pops
  them first. Handlers of an account are attached at startup and at sign-in, and a client that is replaced in the pool has none.
* *Automatic replies.* Deleting a rule deletes its log (`models/auto_reply.py:52`), and with a new rule the sender is
  replied to again within the cooldown. A connection error other than `AccountNotAuthenticatedError` ends startup or the verification loop for all accounts.
  Switching off without a pooled client leaves the entry in `_handlers`, so that switching on again never listens.
* *Connections.* A flood wait while connecting leaves the state until a restart; a disconnect is ignored while reconnecting. The session manager subscribes to
  `session.*`, but the event bus matches names exactly. The pool is per process while two workers serve requests, so `SignInResumes`
  holds for one worker only; a delivery between send-code and verify-code clears the snapshot that verify-code needs.

Not modelled at all, and why (`PROJECT.json` has every part):

* Escrow: no call looks at the status, so that there is no order of calls to get wrong.
* Rate limiter: `INCR` and `EXPIRE` are two calls; a counter whose `EXPIRE` was lost never expires. One step of one function.
* Guest credits: `GET` and `SET` of one counter, in one synchronous stretch of a worker.
* Random replies: `services/random_reply_service.py` has neither imports nor helpers, so that every call raises `NameError`. The sockets
  `/ws/dashboard` and `/ws/sessions` are served by their own handlers only; `/api/chat-telegram/ws` has a set of its own, with no
  dispatcher behind it.
* Event buses, webhooks, bots, AI content, search, analytics and CRUD endpoints: input and output with no state
  of their own, or single rows.

## 9 Plan

Done so far: broadcasts and their lock; the join queue; payments, wallets, commissions and credits; the AI
platform; sessions, sign-ups and connections; live updates and automatic replies. What would come next:

1. Flood waits and the resume of accounts in `BroadcastDelivery`, and cycles over several messages.
2. `AccountSignIn` with two workers and several requests of one account at once.
3. Broadcast distribution as functions, checked against a reference over small inputs.
4. A theorem that says when the claim of `slot` does hold, as there are for five of the others: it has to exclude two schedulers, raised and timed-out deliveries, pauses between delivery and reschedule, and crashes.

Each violation that is settled in the code turns into a passing property.
