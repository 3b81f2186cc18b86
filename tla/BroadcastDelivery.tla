-------------------------- MODULE BroadcastDelivery --------------------------
(***************************************************************************)
(* One broadcast, recipient by recipient: the part of process_broadcast    *)
(* (app/services/broadcast_processor.py) around deliver_message, and       *)
(* deliver_message itself (app/services/delivery.py).                      *)
(*                                                                         *)
(* The rows of message_logs are kept in memory by _BatchPersister and      *)
(* written once, after the last recipient; a timeout or a crash loses      *)
(* them.  Telegram may accept a message whose answer never arrives.  Only  *)
(* successful rows matter to the program, so only they are modelled.       *)
(* Pacing delays, watermarks and message contents are left out.            *)
(***************************************************************************)
EXTENDS Integers, FiniteSets, DeliveryContract

CONSTANTS
    Recipient,      \* the recipients of the broadcast
    MaxAttempts,    \* delivery.MAX_RETRIES
    BatchSize,      \* batch_size; 1 is the sequential mode
    Threshold,      \* PROTECTION_DISTINCT_RECIPIENTS
    RetryLimit,     \* settings.broadcast_max_retries
    MaxCrash        \* bound on the number of crashes

ASSUME DeliveryAssumption ==
    /\ IsFiniteSet(Recipient) /\ Recipient # {}
    /\ MaxAttempts \in Nat \ {0} /\ BatchSize \in Nat \ {0} /\ Threshold \in Nat \ {0}
    /\ RetryLimit \in Nat /\ MaxCrash \in Nat

VARIABLES
    status, retries,    \* the row of the broadcast
    account,            \* accounts.status
    log,                \* recipients with a committed successful row
    stage,              \* where the run is; "idle" when there is none
    todo,               \* recipients not yet started in this run
    attempt,            \* attempt[r]: current attempt of a started recipient, 0 if none
    pausing,            \* recipients whose coroutine is about to write "suspended"
    buffer,             \* _BatchPersister._rows, the successful ones
    failures,           \* recipients with a result other than success
    verdict,            \* what the results decide
    forbidden,          \* _forbidden_bursts of the account
    accepted,           \* accepted[r]: messages Telegram has accepted for r
    confirmed,          \* recipients whose acceptance the program has seen
    crashes

rowVars == <<status, retries>>
runVars == <<stage, todo, attempt, pausing, buffer, failures, verdict>>
worldVars == <<accepted, confirmed>>
vars == <<rowVars, account, log, runVars, forbidden, worldVars, crashes>>

Running  == {r \in Recipient : attempt[r] > 0}
NoAttempt == [r \in Recipient |-> 0]

Init ==
    /\ status = "pending" /\ retries = 0
    /\ account = "active"
    /\ log = {}
    /\ stage = "idle"
    /\ todo = {} /\ attempt = NoAttempt /\ pausing = {}
    /\ buffer = {} /\ failures = {} /\ verdict = "failed"
    /\ forbidden = {}
    /\ accepted = [r \in Recipient |-> 0] /\ confirmed = {}
    /\ crashes = 0

-----------------------------------------------------------------------------
(* Around the delivery.                                                    *)

(* Recipients with a successful row are filtered out; when nobody is left  *)
(* the broadcast is "sent" without a delivery.                             *)
Begin ==
    /\ stage = "idle"
    /\ status \in {"pending", "retrying"}
    /\ IF log = Recipient
       THEN status' = "sent" /\ UNCHANGED <<stage, todo>>
       ELSE status' = "sending" /\ stage' = "open" /\ todo' = Recipient \ log
    /\ UNCHANGED <<retries, account, log, attempt, pausing, buffer, failures, verdict,
                   forbidden, worldVars, crashes>>

(* The end of a run, or of the process. *)
Forget ==
    /\ stage' = "idle"
    /\ todo' = {} /\ attempt' = NoAttempt /\ pausing' = {}
    /\ buffer' = {} /\ failures' = {} /\ verdict' = "failed"

Finish ==
    /\ stage = "finish"
    /\ status' = verdict
    /\ Forget
    /\ UNCHANGED <<retries, account, log, forbidden, worldVars, crashes>>

FinishTimedOut ==
    /\ stage = "timeout"
    /\ status' = IF log # {} THEN "sent" ELSE "failed"
    /\ Forget
    /\ UNCHANGED <<retries, account, log, forbidden, worldVars, crashes>>

Retry ==
    /\ status = "failed" /\ retries < RetryLimit
    /\ status' = "retrying" /\ retries' = retries + 1
    /\ UNCHANGED <<account, log, runVars, forbidden, worldVars, crashes>>

-----------------------------------------------------------------------------
(* deliver_message.                                                        *)

(* A suspended or banned account, a flood limit in force, a lost session:  *)
(* every recipient gets a failed result and Telegram is not called.        *)
Refuse ==
    /\ stage = "open"
    /\ failures' = todo
    /\ todo' = {}
    /\ stage' = "finish"
    /\ verdict' = IF log # {} THEN "sent" ELSE "failed"
    /\ UNCHANGED <<rowVars, account, log, attempt, pausing, buffer, forbidden,
                   worldVars, crashes>>

Open ==
    /\ stage = "open"
    /\ account = "active"
    /\ stage' = "send"
    /\ UNCHANGED <<rowVars, account, log, todo, attempt, pausing, buffer, failures,
                   verdict, forbidden, worldVars, crashes>>

(* The upload of the media, the client or the database fails: the          *)
(* exception leaves the row as it is.                                      *)
Raise ==
    /\ \/ stage = "open"
       \/ stage = "send" /\ todo = {} /\ Running = {}
    /\ Forget
    /\ UNCHANGED <<rowVars, account, log, forbidden, worldVars, crashes>>

(* The next batch, or the next recipient. *)
NextBatch ==
    /\ stage = "send"
    /\ Running = {} /\ todo # {}
    /\ \E batch \in SUBSET todo :
          /\ \/ Cardinality(batch) = BatchSize
             \/ batch = todo /\ Cardinality(todo) < BatchSize
          /\ todo' = todo \ batch
          /\ attempt' = [r \in Recipient |-> IF r \in batch THEN 1 ELSE 0]
    /\ UNCHANGED <<rowVars, account, log, stage, pausing, buffer, failures, verdict,
                   forbidden, worldVars, crashes>>

Attempting(r) == stage = "send" /\ attempt[r] > 0 /\ r \notin pausing

(* Mutant: one attempt too many. *)
OneMoreAttempt(r) == attempt[r] <= MaxAttempts
AttemptsLeft(r) == attempt[r] < MaxAttempts

(* _BatchPersister.add; only successful rows are kept here.  Mutant: every *)
(* attempt is recorded as a success.                                       *)
AddAnyRow(r, success) == buffer' = buffer \cup {r}
AddRow(r, success) == buffer' = IF success THEN buffer \cup {r} ELSE buffer

Done(r) == attempt' = [attempt EXCEPT ![r] = 0]

Accept(r) == accepted' = [accepted EXCEPT ![r] = @ + 1]

Success(r) ==
    /\ Attempting(r)
    /\ Accept(r)
    /\ confirmed' = confirmed \cup {r}
    /\ AddRow(r, TRUE)
    /\ Done(r)
    /\ UNCHANGED <<rowVars, account, log, stage, todo, pausing, failures, verdict,
                   forbidden, crashes>>

(* No answer within PER_MESSAGE_TIMEOUT_SECONDS, a network error or a      *)
(* flood wait: tried again until the attempts are used up.  Telegram may   *)
(* have accepted the message all the same.                                 *)
Unanswered(r) ==
    /\ Attempting(r)
    /\ Accept(r) \/ UNCHANGED accepted
    /\ IF AttemptsLeft(r)
       THEN attempt' = [attempt EXCEPT ![r] = @ + 1] /\ UNCHANGED failures
       ELSE Done(r) /\ failures' = failures \cup {r}
    /\ AddRow(r, FALSE)
    /\ UNCHANGED <<rowVars, account, log, stage, todo, pausing, verdict,
                   forbidden, confirmed, crashes>>

(* An invalid recipient, or a permanent failure. *)
Rejected(r) ==
    /\ Attempting(r)
    /\ failures' = failures \cup {r}
    /\ Done(r)
    /\ AddRow(r, FALSE)
    /\ UNCHANGED <<rowVars, account, log, stage, todo, pausing, verdict,
                   forbidden, worldVars, crashes>>

(* _send_one raises before the send: gather or the except clause drops the *)
(* recipient, which is left without a result.                              *)
Dropped(r) ==
    /\ Attempting(r) /\ attempt[r] = 1
    /\ Done(r)
    /\ UNCHANGED <<rowVars, account, log, stage, todo, pausing, buffer, failures,
                   verdict, forbidden, worldVars, crashes>>

(* The ban is persisted unless the database fails. *)
Banned(r) ==
    /\ Attempting(r)
    /\ failures' = failures \cup {r}
    /\ account' \in {account, "banned"}
    /\ Done(r)
    /\ AddRow(r, FALSE)
    /\ UNCHANGED <<rowVars, log, stage, todo, pausing, verdict, forbidden,
                   worldVars, crashes>>

(* The write permission is missing.  Of the earlier cases only those       *)
(* within the protection window count.  At the threshold                   *)
(* _maybe_pause_for_protection reads the account ...                       *)
Forbidden(r) ==
    /\ Attempting(r)
    /\ failures' = failures \cup {r}
    /\ \E recent \in SUBSET forbidden : forbidden' = recent \cup {r}
    /\ IF Cardinality(forbidden') >= Threshold /\ account \notin {"suspended", "banned"}
       THEN pausing' = pausing \cup {r} /\ UNCHANGED attempt
       ELSE Done(r) /\ UNCHANGED pausing
    /\ AddRow(r, FALSE)
    /\ UNCHANGED <<rowVars, account, log, stage, todo, verdict, worldVars, crashes>>

(* ... and writes it after an await, unless the database fails. *)
WriteSuspended(r) ==
    /\ stage = "send" /\ r \in pausing
    /\ account' \in {account, "suspended"}
    /\ pausing' = pausing \ {r}
    /\ Done(r)
    /\ UNCHANGED <<rowVars, log, stage, todo, buffer, failures, verdict, forbidden,
                   worldVars, crashes>>

(* Mutant: one failed recipient fails the broadcast. *)
AllOrNothing == IF failures = {} THEN "sent" ELSE "failed"
ResultsVerdict == IF failures = {} \/ buffer # {} \/ log # {} THEN "sent" ELSE "failed"

(* flush_all, and what process_broadcast makes of the results. *)
FlushAll ==
    /\ stage = "send"
    /\ todo = {} /\ Running = {}
    /\ log' = log \cup buffer
    /\ stage' = "finish"
    /\ verdict' = ResultsVerdict
    /\ UNCHANGED <<rowVars, account, todo, attempt, pausing, buffer, failures, forbidden,
                   worldVars, crashes>>

(* The timeout of the broadcast cancels the delivery wherever it is.  A    *)
(* message under way may still be accepted, and a flush may commit.        *)
TimeOut ==
    /\ stage \in {"open", "send"}
    /\ stage' = "timeout"
    /\ \E late \in SUBSET Running :
          accepted' = [r \in Recipient |-> IF r \in late \ pausing THEN accepted[r] + 1 ELSE accepted[r]]
    /\ log' \in IF todo = {} /\ Running = {} THEN {log, log \cup buffer} ELSE {log}
    /\ todo' = {} /\ attempt' = NoAttempt /\ pausing' = {} /\ buffer' = {}
    /\ UNCHANGED <<rowVars, account, failures, verdict, forbidden, confirmed, crashes>>

Crash ==
    /\ stage # "idle" /\ crashes < MaxCrash
    /\ crashes' = crashes + 1
    /\ forbidden' = {}
    /\ Forget
    /\ UNCHANGED <<rowVars, account, log, worldVars>>

SendStep(r) ==
    \/ Success(r) \/ Unanswered(r) \/ Rejected(r) \/ Dropped(r)
    \/ Banned(r) \/ Forbidden(r) \/ WriteSuspended(r)

Next ==
    \/ Begin \/ Finish \/ FinishTimedOut \/ Retry
    \/ Refuse \/ Open \/ Raise \/ NextBatch \/ FlushAll \/ TimeOut \/ Crash
    \/ \E r \in Recipient : SendStep(r)

Spec == Init /\ [][Next]_vars

-----------------------------------------------------------------------------
(* Correctness.                                                            *)

(* Every variable has its type. *)
TypeOK ==
    /\ status \in {"pending", "sending", "retrying", "sent", "failed"}
    /\ retries \in 0 .. RetryLimit
    /\ account \in {"active", "suspended", "banned"}
    /\ stage \in {"idle", "open", "send", "finish", "timeout"}
    /\ attempt \in [Recipient -> 0 .. MaxAttempts]
    /\ accepted \in [Recipient -> Nat]
    /\ verdict \in {"sent", "failed"}
    /\ log \subseteq Recipient /\ todo \subseteq Recipient /\ pausing \subseteq Recipient
    /\ buffer \subseteq Recipient /\ failures \subseteq Recipient
    /\ forbidden \subseteq Recipient /\ confirmed \subseteq Recipient
    /\ crashes \in 0 .. MaxCrash

(* A row of success is only ever written of a message the program saw      *)
(* accepted.                                                               *)
RecordIsTruth == log \subseteq confirmed

(* A recipient gets the message at most MAX_RETRIES times per opening.     *)
ReachBound == \A r \in Recipient : accepted[r] <= MaxAttempts * (retries + 1)

(* deliver_message keeps what BroadcastDispatch assumes of it: how the     *)
(* message log may have grown and which result it may report when it       *)
(* returns or is cancelled; nothing else touches the log.                  *)
Summary(S) == IF S = {} THEN "none" ELSE IF S = Recipient THEN "all" ELSE "some"

KeepsContract ==
    [][ /\ stage \in {"open", "send"} /\ stage' = "finish"
              => MayReturn(Summary(log), Summary(log'), verdict')
        /\ stage \in {"open", "send"} /\ stage' = "timeout"
              => LogGrows(Summary(log), Summary(log'))
        /\ stage = "timeout" /\ status' # status => status' = LogVerdict(Summary(log))
        /\ log' # log => stage' \in {"finish", "timeout"} ]_vars

(* A broadcast reported as failed was confirmed to nobody: what the rows   *)
(* say of a failure is definitive.                                         *)
FailedMeansNobodyConfirmed == status = "failed" => confirmed = {}
=============================================================================
