----------------------- MODULE BroadcastDelivery_proofs -----------------------
(***************************************************************************)
(* Proofs about BroadcastDelivery, for every set of recipients and every   *)
(* batch size, number of attempts and retries.                             *)
(***************************************************************************)
EXTENDS BroadcastDelivery, TLAPS

(* The recorded successes, and those still in memory, are of messages the  *)
(* program saw accepted.                                                   *)
RecordInv == log \cup buffer \subseteq confirmed

LEMMA RecordInit == Init => RecordInv
BY DEF Init, RecordInv

LEMMA RecordStep == RecordInv /\ [Next]_vars => RecordInv'
<1> SUFFICES ASSUME RecordInv, [Next]_vars PROVE RecordInv'
  OBVIOUS
<1> USE DEF RecordInv, worldVars
<1>1. CASE Begin
  BY <1>1 DEF Begin
<1>2. CASE Finish \/ FinishTimedOut
  BY <1>2 DEF Finish, FinishTimedOut, Forget
<1>3. CASE Retry
  BY <1>3 DEF Retry, runVars
<1>4. CASE Refuse \/ Open
  BY <1>4 DEF Refuse, Open
<1>5. CASE Raise
  BY <1>5 DEF Raise, Forget
<1>6. CASE NextBatch
  BY <1>6 DEF NextBatch
<1>7. CASE FlushAll
  BY <1>7 DEF FlushAll
<1>8. CASE TimeOut
  BY <1>8 DEF TimeOut
<1>9. CASE Crash
  BY <1>9 DEF Crash, Forget
<1>10. ASSUME NEW r \in Recipient, SendStep(r) PROVE RecordInv'
  <2>1. CASE Success(r)
    BY <2>1 DEF Success, AddRow
  <2>2. CASE Unanswered(r) \/ Rejected(r)
    BY <2>2 DEF Unanswered, Rejected, AddRow
  <2>3. CASE Dropped(r) \/ WriteSuspended(r)
    BY <2>3 DEF Dropped, WriteSuspended
  <2>4. CASE Banned(r) \/ Forbidden(r)
    BY <2>4 DEF Banned, Forbidden, AddRow
  <2> QED
    BY <1>10, <2>1, <2>2, <2>3, <2>4 DEF SendStep
<1>11. CASE UNCHANGED vars
  BY <1>11 DEF vars, runVars
<1> QED
  BY <1>1, <1>2, <1>3, <1>4, <1>5, <1>6, <1>7, <1>8, <1>9, <1>10, <1>11 DEF Next

(* A successful message_logs row is only ever written of a message that    *)
(* Telegram confirmed: rows are added by _send_one after the send returned *)
(* and are committed unchanged by flush_all.                               *)
THEOREM RecordTrue == Spec => []RecordIsTruth
<1>1. RecordInv => RecordIsTruth
  BY DEF RecordInv, RecordIsTruth
<1> QED
  BY <1>1, RecordInit, RecordStep, PTL DEF Spec

-----------------------------------------------------------------------------
(* The contract.                                                           *)

(* A summary is "none" exactly of no success. *)
LEMMA SummaryNone == \A S : Summary(S) = "none" <=> S = {}
BY DEF Summary

(* While a broadcast is delivered its row says so, hence no retry is       *)
(* granted meanwhile.                                                      *)
InFlight == stage # "idle" => status = "sending"

LEMMA InFlightStep == InFlight /\ [Next]_vars => InFlight'
<1> SUFFICES ASSUME InFlight, [Next]_vars PROVE InFlight'
  OBVIOUS
<1> USE DEF InFlight
<1>1. CASE Begin \/ Retry
  BY <1>1 DEF Begin, Retry, runVars
<1>2. CASE Finish \/ FinishTimedOut \/ Raise \/ Crash
  BY <1>2 DEF Finish, FinishTimedOut, Raise, Crash, Forget
<1>3. CASE Refuse \/ Open \/ NextBatch \/ FlushAll \/ TimeOut
  BY <1>3 DEF Refuse, Open, NextBatch, FlushAll, TimeOut, rowVars
<1>4. ASSUME NEW r \in Recipient, SendStep(r) PROVE InFlight'
  BY <1>4 DEF SendStep, Success, Unanswered, Rejected, Dropped, Banned, Forbidden,
              WriteSuspended, rowVars
<1>5. CASE UNCHANGED vars
  BY <1>5 DEF vars, rowVars, runVars
<1> QED
  BY <1>1, <1>2, <1>3, <1>4, <1>5 DEF Next

(* What one step of a delivery owes to the dispatch pipeline. *)
ContractStep ==
    /\ stage \in {"open", "send"} /\ stage' = "finish"
          => MayReturn(Summary(log), Summary(log'), verdict')
    /\ stage \in {"open", "send"} /\ stage' = "timeout"
          => LogGrows(Summary(log), Summary(log'))
    /\ stage = "timeout" /\ status' # status => status' = LogVerdict(Summary(log))
    /\ log' # log => stage' \in {"finish", "timeout"}

LEMMA ContractKept == InFlight /\ [Next]_vars => ContractStep
<1> SUFFICES ASSUME InFlight, [Next]_vars PROVE ContractStep
  OBVIOUS
<1> USE DEF ContractStep
<1>1. CASE Begin \/ Finish \/ Retry
  BY <1>1 DEF Begin, Finish, Retry, Forget, InFlight, runVars
<1>2. CASE FinishTimedOut
  BY <1>2, SummaryNone DEF FinishTimedOut, Forget, LogVerdict
<1>3. CASE Refuse
  BY <1>3, SummaryNone DEF Refuse, MayReturn, LogGrows, rowVars
<1>4. CASE Open \/ NextBatch
  BY <1>4 DEF Open, NextBatch, rowVars
<1>5. CASE Raise
  BY <1>5 DEF Raise, Forget, rowVars
<1>6. CASE FlushAll
  <2>1. log' = {} => log = {}
    BY <1>6 DEF FlushAll
  <2>2. log' # {} => verdict' = "sent"
    BY <1>6 DEF FlushAll, ResultsVerdict
  <2> QED
    BY <1>6, <2>1, <2>2, SummaryNone DEF FlushAll, MayReturn, LogGrows, rowVars
<1>7. CASE TimeOut
  <2>1. log' = {} => log = {}
    BY <1>7 DEF TimeOut
  <2> QED
    BY <1>7, <2>1, SummaryNone DEF TimeOut, LogGrows, rowVars
<1>8. CASE Crash
  BY <1>8 DEF Crash, Forget, rowVars
<1>9. ASSUME NEW r \in Recipient, SendStep(r) PROVE ContractStep
  <2>1. stage' = stage /\ log' = log /\ status' = status
    BY <1>9 DEF SendStep, Success, Unanswered, Rejected, Dropped, Banned, Forbidden,
                WriteSuspended, rowVars
  <2> QED
    BY <2>1
<1>10. CASE UNCHANGED vars
  BY <1>10 DEF vars, rowVars, runVars
<1> QED
  BY <1>1, <1>2, <1>3, <1>4, <1>5, <1>6, <1>7, <1>8, <1>9, <1>10 DEF Next

(* deliver_message keeps what the dispatch pipeline is proved from:        *)
(* BroadcastDispatch assumes MayReturn, LogGrows and LogVerdict of every   *)
(* delivery, and here every step of a delivery satisfies them.             *)
THEOREM DeliveryKeepsContract == Spec => KeepsContract
<1>1. Init => InFlight
  BY DEF Init, InFlight
<1>2. InFlight /\ [Next]_vars => [ContractStep]_vars
  BY ContractKept
<1> QED
  BY <1>1, <1>2, InFlightStep, PTL DEF Spec, KeepsContract, ContractStep

-----------------------------------------------------------------------------
(* Types and bounds.                                                       *)

(* What follows of one step for the numbers of the model. *)
CountsOK ==
    /\ retries \in 0 .. RetryLimit
    /\ attempt \in [Recipient -> 0 .. MaxAttempts]
    /\ accepted \in [Recipient -> Nat]
    /\ crashes \in 0 .. MaxCrash

NamesOK ==
    /\ status \in {"pending", "sending", "retrying", "sent", "failed"}
    /\ account \in {"active", "suspended", "banned"}
    /\ stage \in {"idle", "open", "send", "finish", "timeout"}
    /\ verdict \in {"sent", "failed"}

SetsOK ==
    /\ log \subseteq Recipient /\ todo \subseteq Recipient /\ pausing \subseteq Recipient
    /\ buffer \subseteq Recipient /\ failures \subseteq Recipient
    /\ forbidden \subseteq Recipient /\ confirmed \subseteq Recipient

LEMMA TypeParts == TypeOK <=> CountsOK /\ NamesOK /\ SetsOK
BY Zenon DEF TypeOK, CountsOK, NamesOK, SetsOK

LEMMA CountsStep == CountsOK /\ [Next]_vars => CountsOK'
<1> SUFFICES ASSUME CountsOK, [Next]_vars PROVE CountsOK'
  OBVIOUS
<1> USE DeliveryAssumption DEF DeliveryAssumption, CountsOK, rowVars, worldVars
<1>1. CASE Begin
  BY <1>1 DEF Begin
<1>2. CASE Finish \/ FinishTimedOut \/ Raise
  BY <1>2 DEF Finish, FinishTimedOut, Raise, Forget, NoAttempt
<1>3. CASE Crash
  BY <1>3 DEF Crash, Forget, NoAttempt
<1>4. CASE Retry
  BY <1>4 DEF Retry, runVars
<1>5. CASE Refuse \/ Open \/ FlushAll
  BY <1>5 DEF Refuse, Open, FlushAll
<1>6. CASE NextBatch
  BY <1>6 DEF NextBatch
<1>7. CASE TimeOut
  <2>1. PICK late \in SUBSET Running : accepted' =
          [r \in Recipient |-> IF r \in late \ pausing THEN accepted[r] + 1 ELSE accepted[r]]
    BY <1>7 DEF TimeOut
  <2>2. accepted' \in [Recipient -> Nat]
    BY <2>1
  <2> QED
    BY <1>7, <2>2 DEF TimeOut, NoAttempt
<1>8. ASSUME NEW r \in Recipient, SendStep(r) PROVE CountsOK'
  <2>1. CASE Success(r)
    BY <2>1 DEF Success, Accept, Done
  <2>2. CASE Unanswered(r)
    <3>1. accepted' \in [Recipient -> Nat]
      BY <2>2 DEF Unanswered, Accept
    <3>2. attempt' \in [Recipient -> 0 .. MaxAttempts]
      BY <2>2 DEF Unanswered, Done, AttemptsLeft, Attempting
    <3> QED
      BY <2>2, <3>1, <3>2 DEF Unanswered
  <2>3. CASE Rejected(r) \/ Dropped(r) \/ Banned(r)
    <3>1. Done(r)
      BY <2>3 DEF Rejected, Dropped, Banned
    <3>2. attempt' \in [Recipient -> 0 .. MaxAttempts]
      BY <3>1 DEF Done
    <3> QED
      BY <2>3, <3>2 DEF Rejected, Dropped, Banned
  <2>4. CASE Forbidden(r) \/ WriteSuspended(r)
    <3>1. Done(r) \/ UNCHANGED attempt
      BY <2>4 DEF Forbidden, WriteSuspended
    <3>2. CASE Done(r)
      <4>1. attempt' \in [Recipient -> 0 .. MaxAttempts]
        BY <3>2 DEF Done
      <4> QED
        BY <2>4, <4>1 DEF Forbidden, WriteSuspended
    <3>3. CASE UNCHANGED attempt
      BY <2>4, <3>3 DEF Forbidden, WriteSuspended
    <3> QED
      BY <3>1, <3>2, <3>3
  <2> QED
    BY <1>8, <2>1, <2>2, <2>3, <2>4 DEF SendStep
<1>9. CASE UNCHANGED vars
  BY <1>9 DEF vars, runVars
<1> QED
  BY <1>1, <1>2, <1>3, <1>4, <1>5, <1>6, <1>7, <1>8, <1>9 DEF Next

LEMMA NamesStep == NamesOK /\ [Next]_vars => NamesOK'
<1> SUFFICES ASSUME NamesOK, [Next]_vars PROVE NamesOK'
  OBVIOUS
<1> USE DEF NamesOK, rowVars
<1>1. CASE Begin \/ Retry
  BY <1>1 DEF Begin, Retry, runVars
<1>2. CASE Finish \/ FinishTimedOut \/ Raise \/ Crash
  BY <1>2 DEF Finish, FinishTimedOut, Raise, Crash, Forget
<1>3. CASE Refuse \/ Open \/ NextBatch \/ FlushAll \/ TimeOut
  BY <1>3 DEF Refuse, Open, NextBatch, FlushAll, TimeOut, ResultsVerdict
<1>4. ASSUME NEW r \in Recipient, SendStep(r) PROVE NamesOK'
  BY <1>4 DEF SendStep, Success, Unanswered, Rejected, Dropped, Banned, Forbidden,
              WriteSuspended
<1>5. CASE UNCHANGED vars
  BY <1>5 DEF vars, runVars
<1> QED
  BY <1>1, <1>2, <1>3, <1>4, <1>5 DEF Next

LEMMA SetsStep == SetsOK /\ [Next]_vars => SetsOK'
<1> SUFFICES ASSUME SetsOK, [Next]_vars PROVE SetsOK'
  OBVIOUS
<1> USE DEF SetsOK, worldVars
<1>1. CASE Begin \/ Retry
  BY <1>1 DEF Begin, Retry, runVars
<1>2. CASE Finish \/ FinishTimedOut \/ Raise \/ Crash
  BY <1>2 DEF Finish, FinishTimedOut, Raise, Crash, Forget
<1>3. CASE Refuse \/ Open \/ NextBatch
  BY <1>3 DEF Refuse, Open, NextBatch
<1>4. CASE FlushAll \/ TimeOut
  BY <1>4 DEF FlushAll, TimeOut
<1>5. ASSUME NEW r \in Recipient, SendStep(r) PROVE SetsOK'
  <2>1. CASE Success(r) \/ Unanswered(r)
    BY <2>1 DEF Success, Unanswered, AddRow
  <2>2. CASE Rejected(r) \/ Dropped(r) \/ Banned(r) \/ WriteSuspended(r)
    BY <2>2 DEF Rejected, Dropped, Banned, WriteSuspended, AddRow
  <2>3. CASE Forbidden(r)
    BY <2>3 DEF Forbidden, AddRow
  <2> QED
    BY <1>5, <2>1, <2>2, <2>3 DEF SendStep
<1>6. CASE UNCHANGED vars
  BY <1>6 DEF vars, runVars
<1> QED
  BY <1>1, <1>2, <1>3, <1>4, <1>5, <1>6 DEF Next

(* Every variable keeps its type: no recipient is ever at an attempt       *)
(* beyond MAX_RETRIES, and no row is retried beyond broadcast_max_retries. *)
THEOREM DeliveryTyped == Spec => []TypeOK
<1>1. Init => CountsOK
  BY DeliveryAssumption DEF DeliveryAssumption, Init, CountsOK, NoAttempt
<1>2. Init => NamesOK /\ SetsOK
  BY DEF Init, NamesOK, SetsOK
<1> QED
  BY <1>1, <1>2, CountsStep, NamesStep, SetsStep, TypeParts, PTL DEF Spec

(* How often a recipient may have been served in the current opening: not  *)
(* before it is started, once for every attempt that went unanswered, and  *)
(* MAX_RETRIES times at the end.                                           *)
Allowed(r) ==
    IF status \in {"pending", "retrying"} \/ r \in todo THEN 0
    ELSE IF attempt[r] > 0 /\ r \notin pausing THEN attempt[r] - 1
    ELSE MaxAttempts

ReachInv == \A r \in Recipient : accepted[r] <= MaxAttempts * retries + Allowed(r)

(* A recipient that is being served is no longer waiting for its batch,    *)
(* and none is served between two deliveries.                              *)
Apart == \A r \in Recipient : r \in todo \/ stage = "idle" => attempt[r] = 0

LEMMA ApartStep == CountsOK /\ SetsOK /\ Apart /\ [Next]_vars => Apart'
<1> SUFFICES ASSUME CountsOK, SetsOK, Apart, [Next]_vars PROVE Apart'
  OBVIOUS
<1> USE DEF Apart
<1>1. CASE Begin
  BY <1>1 DEF Begin
<1>2. CASE Finish \/ FinishTimedOut \/ Raise \/ Crash \/ TimeOut
  BY <1>2 DEF Finish, FinishTimedOut, Raise, Crash, TimeOut, Forget, NoAttempt
<1>3. CASE Retry \/ Refuse \/ Open \/ FlushAll
  BY <1>3 DEF Retry, Refuse, Open, FlushAll, runVars
<1>4. CASE NextBatch
  BY <1>4 DEF NextBatch, SetsOK
<1>5. ASSUME NEW r \in Recipient, SendStep(r) PROVE Apart'
  <2>1. todo' = todo /\ stage' = stage /\ stage # "idle"
    BY <1>5 DEF SendStep, Success, Unanswered, Rejected, Dropped, Banned, Forbidden,
                WriteSuspended, Attempting
  <2>2. CASE WriteSuspended(r)
    BY <2>1, <2>2 DEF WriteSuspended, Done, SetsOK, CountsOK
  <2>3. CASE Unanswered(r)
    BY <2>1, <2>3 DEF Unanswered, Done, Attempting, SetsOK, CountsOK
  <2>4. CASE Forbidden(r)
    BY <2>1, <2>4 DEF Forbidden, Done, SetsOK, CountsOK
  <2>5. CASE Success(r) \/ Rejected(r) \/ Dropped(r) \/ Banned(r)
    BY <2>1, <2>5 DEF Success, Rejected, Dropped, Banned, Done, SetsOK, CountsOK
  <2> QED
    BY <1>5, <2>2, <2>3, <2>4, <2>5 DEF SendStep
<1>6. CASE UNCHANGED vars
  BY <1>6 DEF vars, runVars
<1> QED
  BY <1>1, <1>2, <1>3, <1>4, <1>5, <1>6 DEF Next

LEMMA ReachStep ==
    CountsOK /\ NamesOK /\ SetsOK /\ InFlight /\ Apart /\ ReachInv /\ [Next]_vars => ReachInv'
<1> SUFFICES ASSUME CountsOK, NamesOK, SetsOK, InFlight, Apart, ReachInv, [Next]_vars,
                    NEW q \in Recipient
             PROVE  accepted'[q] <= MaxAttempts * retries' + Allowed(q)'
  BY DEF ReachInv
<1> USE DeliveryAssumption DEF DeliveryAssumption
<1> DEFINE Base == MaxAttempts * retries
<1>0. Base \in Nat /\ accepted[q] \in Nat /\ attempt[q] \in 0 .. MaxAttempts
      /\ accepted[q] <= Base + Allowed(q)
  BY DEF CountsOK, ReachInv
<1>1. ASSUME retries' = retries, accepted'[q] <= Base + Allowed(q)'
      PROVE  accepted'[q] <= MaxAttempts * retries' + Allowed(q)'
  BY <1>1
<1>2. Allowed(q) \in 0 .. MaxAttempts
  BY <1>0 DEF Allowed
<1> HIDE DEF Base
<1>3. CASE Begin
  <2>1. retries' = retries /\ accepted'[q] = accepted[q] /\ Allowed(q) = 0
        /\ Allowed(q)' \in Nat
    <3>1. CASE status' = "sent"
      BY <1>0, <1>3 DEF Begin, Allowed, worldVars
    <3> QED
      BY <1>0, <1>3 DEF Begin, Allowed, worldVars
  <2> QED
    BY <1>0, <1>1, <2>1
<1>4. CASE Finish \/ FinishTimedOut
  <2>1. retries' = retries /\ accepted'[q] = accepted[q]
    BY <1>4 DEF Finish, FinishTimedOut, worldVars
  <2>2. status' \in {"sent", "failed"} /\ todo' = {} /\ attempt' = NoAttempt
    BY <1>4 DEF Finish, FinishTimedOut, Forget, NamesOK
  <2>3. Allowed(q)' = MaxAttempts
    BY <2>2 DEF Allowed, NoAttempt
  <2> QED
    BY <1>0, <1>1, <1>2, <2>1, <2>3
<1>5. CASE Raise \/ Crash
  <2>1. retries' = retries /\ accepted'[q] = accepted[q] /\ status' = status
    BY <1>5 DEF Raise, Crash, rowVars, worldVars
  <2>2. stage # "idle" /\ todo' = {} /\ attempt' = NoAttempt
    BY <1>5 DEF Raise, Crash, Forget
  <2>3. Allowed(q)' = MaxAttempts
    BY <2>1, <2>2 DEF Allowed, NoAttempt, InFlight
  <2> QED
    BY <1>0, <1>1, <1>2, <2>1, <2>3
<1>6. CASE Retry
  <2>1. retries' = retries + 1 /\ accepted'[q] = accepted[q] /\ Allowed(q)' = 0
    BY <1>6 DEF Retry, Allowed, worldVars
  <2>2. MaxAttempts * retries' = Base + MaxAttempts
    BY <2>1 DEF CountsOK, Base
  <2> QED
    BY <1>0, <1>2, <2>1, <2>2
<1>7. CASE Refuse
  <2>1. retries' = retries /\ accepted'[q] = accepted[q] /\ status' = status
        /\ todo' = {} /\ attempt' = attempt /\ pausing' = pausing
    BY <1>7 DEF Refuse, rowVars, worldVars
  <2>2. Allowed(q)' >= Allowed(q) /\ Allowed(q)' \in Nat
    BY <1>0, <2>1 DEF Allowed
  <2> QED
    BY <1>0, <1>1, <1>2, <2>1, <2>2
<1>8. CASE Open \/ FlushAll
  <2>1. retries' = retries /\ accepted'[q] = accepted[q] /\ Allowed(q)' = Allowed(q)
    BY <1>8 DEF Open, FlushAll, rowVars, worldVars, Allowed
  <2> QED
    BY <1>0, <1>1, <2>1
<1>9. CASE NextBatch
  <2>1. retries' = retries /\ accepted'[q] = accepted[q] /\ status' = status
        /\ pausing' = pausing /\ attempt[q] = 0
    BY <1>0, <1>9 DEF NextBatch, rowVars, worldVars, Running
  <2>2. PICK batch \in SUBSET todo : todo' = todo \ batch
          /\ attempt' = [r \in Recipient |-> IF r \in batch THEN 1 ELSE 0]
    BY <1>9 DEF NextBatch
  <2>3. CASE q \in batch
    <3>1. Allowed(q) = 0 /\ Allowed(q)' \in Nat
      BY <2>1, <2>2, <2>3 DEF Allowed
    <3> QED
      BY <1>0, <1>1, <2>1, <3>1
  <2>4. CASE q \notin batch
    <3>1. Allowed(q)' = Allowed(q)
      BY <2>1, <2>2, <2>4 DEF Allowed
    <3> QED
      BY <1>0, <1>1, <2>1, <3>1
  <2> QED
    BY <2>3, <2>4
<1>10. CASE TimeOut
  <2>1. PICK late \in SUBSET Running : accepted' =
          [r \in Recipient |-> IF r \in late \ pausing THEN accepted[r] + 1 ELSE accepted[r]]
    BY <1>10 DEF TimeOut
  <2>2. retries' = retries /\ status = "sending" /\ status' = status /\ todo' = {}
        /\ attempt' = NoAttempt
    BY <1>10 DEF TimeOut, rowVars, InFlight
  <2>3. Allowed(q)' = MaxAttempts
    BY <2>2 DEF Allowed, NoAttempt
  <2>4. CASE q \in late \ pausing
    <3>1. attempt[q] > 0
      BY <2>4 DEF Running
    <3>2. Allowed(q) + 1 <= MaxAttempts
      BY <1>0, <2>2, <2>4, <3>1 DEF Allowed
    <3> QED
      BY <1>0, <1>1, <1>2, <2>1, <2>2, <2>3, <2>4, <3>2
  <2>5. CASE q \notin late \ pausing
    BY <1>0, <1>1, <1>2, <2>1, <2>2, <2>3, <2>5
  <2> QED
    BY <2>4, <2>5
<1>11. ASSUME NEW r \in Recipient, SendStep(r)
       PROVE  accepted'[q] <= MaxAttempts * retries' + Allowed(q)'
  <2>1. retries' = retries /\ status' = status /\ todo' = todo /\ status = "sending"
    BY <1>11 DEF SendStep, Success, Unanswered, Rejected, Dropped, Banned, Forbidden,
                 WriteSuspended, Attempting, rowVars, InFlight
  <2>2. CASE r # q
    <3>1. accepted'[q] = accepted[q]
      BY <1>11, <2>2 DEF SendStep, Success, Unanswered, Rejected, Dropped, Banned,
                 Forbidden, WriteSuspended, Accept, worldVars, CountsOK
    <3>2. attempt'[q] = attempt[q]
      BY <1>11, <2>2 DEF SendStep, Success, Unanswered, Rejected, Dropped, Banned,
                 Forbidden, WriteSuspended, Done, CountsOK
    <3>3. q \in pausing' <=> q \in pausing
      BY <1>11, <2>2 DEF SendStep, Success, Unanswered, Rejected, Dropped, Banned,
                 Forbidden, WriteSuspended
    <3>4. Allowed(q)' = Allowed(q)
      BY <2>1, <3>2, <3>3 DEF Allowed
    <3> QED
      BY <1>0, <1>1, <2>1, <3>1, <3>4
  <2>3. CASE r = q /\ WriteSuspended(q)
    <3>1. accepted' = accepted /\ q \in pausing /\ attempt'[q] = 0
      BY <2>3 DEF WriteSuspended, Done, worldVars, CountsOK
    <3>2. Allowed(q)' = Allowed(q)
      BY <2>1, <3>1 DEF Allowed
    <3> QED
      BY <1>0, <1>1, <2>1, <3>1, <3>2
  <2>4. CASE r = q /\ ~WriteSuspended(q)
    <3>0. Attempting(q)
      BY <1>11, <2>4 DEF SendStep, Success, Unanswered, Rejected, Dropped, Banned,
                 Forbidden
    <3>1. attempt[q] > 0 /\ q \notin pausing /\ q \notin todo
      BY <1>0, <3>0 DEF Attempting, Apart
    <3>2. Allowed(q) = attempt[q] - 1
      BY <2>1, <3>1 DEF Allowed
    <3>3. CASE Unanswered(q) /\ AttemptsLeft(q)
      <4>1. attempt'[q] = attempt[q] + 1 /\ pausing' = pausing
        BY <3>3 DEF Unanswered, CountsOK
      <4>2. accepted'[q] \in {accepted[q], accepted[q] + 1}
        BY <3>3 DEF Unanswered, Accept, CountsOK
      <4>3. Allowed(q)' = attempt[q]
        BY <1>0, <2>1, <3>1, <4>1 DEF Allowed
      <4> QED
        BY <1>0, <1>1, <2>1, <3>2, <4>2, <4>3
    <3>4. CASE ~(Unanswered(q) /\ AttemptsLeft(q))
      <4>1. attempt'[q] = 0 \/ q \in pausing'
        BY <1>11, <2>4, <3>4 DEF SendStep, Success, Unanswered, Rejected, Dropped, Banned,
                 Forbidden, Done, CountsOK
      <4>2. accepted'[q] \in {accepted[q], accepted[q] + 1}
        BY <1>11, <2>4 DEF SendStep, Success, Unanswered, Rejected, Dropped, Banned,
                 Forbidden, Accept, worldVars, CountsOK
      <4>3. Allowed(q)' = MaxAttempts
        BY <1>0, <2>1, <3>1, <4>1 DEF Allowed
      <4> QED
        BY <1>0, <1>1, <2>1, <3>2, <4>2, <4>3
    <3> QED
      BY <3>3, <3>4
  <2> QED
    BY <1>11, <2>2, <2>3, <2>4
<1>12. CASE UNCHANGED vars
  <2>1. retries' = retries /\ accepted'[q] = accepted[q] /\ Allowed(q)' = Allowed(q)
    BY <1>12 DEF vars, rowVars, runVars, worldVars, Allowed
  <2> QED
    BY <1>0, <1>1, <2>1
<1> QED
  BY <1>3, <1>4, <1>5, <1>6, <1>7, <1>8, <1>9, <1>10, <1>11, <1>12 DEF Next

(* Whatever times out, is retried, cancelled or interrupted, Telegram has  *)
(* accepted at most MAX_RETRIES copies of the message for one recipient    *)
(* per opening of the broadcast: the loop of _deliver_with_retry is the    *)
(* only sender, and a row is opened once more only by retry_broadcast.     *)
THEOREM ReachBounded == Spec => []ReachBound
<1> DEFINE Inv == CountsOK /\ NamesOK /\ SetsOK /\ InFlight /\ Apart /\ ReachInv
<1>1. Init => Inv
  <2>1. Init => CountsOK /\ NamesOK /\ SetsOK /\ InFlight /\ Apart
    BY DeliveryAssumption DEF DeliveryAssumption, Init, CountsOK, NamesOK, SetsOK, InFlight,
                              Apart, NoAttempt
  <2>2. Init => ReachInv
    BY DeliveryAssumption DEF DeliveryAssumption, Init, ReachInv, Allowed
  <2> QED
    BY <2>1, <2>2
<1>2. Inv /\ [Next]_vars => Inv'
  BY CountsStep, NamesStep, SetsStep, InFlightStep, ApartStep, ReachStep
<1>3. Inv => ReachBound
  <2> SUFFICES ASSUME Inv, NEW r \in Recipient
               PROVE  accepted[r] <= MaxAttempts * (retries + 1)
    BY DEF ReachBound
  <2>1. accepted[r] \in Nat /\ retries \in Nat /\ MaxAttempts \in Nat
        /\ attempt[r] \in 0 .. MaxAttempts
    BY DeliveryAssumption DEF DeliveryAssumption, CountsOK
  <2>2. Allowed(r) \in Int /\ Allowed(r) <= MaxAttempts
    BY <2>1 DEF Allowed
  <2>3. MaxAttempts * (retries + 1) = MaxAttempts * retries + MaxAttempts
    BY <2>1
  <2>4. accepted[r] <= MaxAttempts * retries + Allowed(r)
    BY DEF ReachInv
  <2>5. MaxAttempts * retries \in Nat
    BY <2>1
  <2> QED
    BY <2>1, <2>2, <2>3, <2>4, <2>5
<1> QED
  BY <1>1, <1>2, <1>3, PTL DEF Spec
-----------------------------------------------------------------------------
(* What a failure means.                                                   *)

(* A row of success that is only in memory is still there after the step,  *)
(* or is committed by it.                                                  *)
KeepsRows == buffer \subseteq log' \cup buffer'

(* Rows are in memory only while messages are sent, or are committed; a    *)
(* run that ends in failure has none.                                      *)
BufferInv ==
    /\ InFlight
    /\ stage \in {"idle", "open", "timeout"} => buffer = {}
    /\ stage = "finish" => buffer \subseteq log /\ (verdict = "failed" => log = {})

LEMMA BufferInit == Init => BufferInv
BY DEF Init, BufferInv, InFlight

LEMMA BufferStep == BufferInv /\ [Next]_vars => BufferInv'
<1> SUFFICES ASSUME BufferInv, [Next]_vars PROVE BufferInv'
  OBVIOUS
<1> InFlight'
  BY InFlightStep DEF BufferInv
<1> USE DEF BufferInv
<1>1. CASE Begin \/ Retry
  BY <1>1 DEF Begin, Retry, runVars
<1>2. CASE Finish \/ FinishTimedOut \/ Raise \/ Crash
  BY <1>2 DEF Finish, FinishTimedOut, Raise, Crash, Forget
<1>3. CASE Refuse \/ Open \/ NextBatch
  BY <1>3 DEF Refuse, Open, NextBatch
<1>4. CASE FlushAll
  BY <1>4 DEF FlushAll, ResultsVerdict
<1>5. CASE TimeOut
  BY <1>5 DEF TimeOut
<1>6. ASSUME NEW r \in Recipient, SendStep(r) PROVE BufferInv'
  <2>1. stage = "send" /\ stage' = stage
    BY <1>6 DEF SendStep, Success, Unanswered, Rejected, Dropped, Banned, Forbidden,
                WriteSuspended, Attempting
  <2> QED
    BY <2>1
<1>7. CASE UNCHANGED vars
  BY <1>7 DEF vars, rowVars, runVars
<1> QED
  BY <1>1, <1>2, <1>3, <1>4, <1>5, <1>6, <1>7 DEF Next

(* Everybody confirmed is on record, and a failure has nobody confirmed.   *)
ConfirmedInv == confirmed \subseteq log \cup buffer /\ FailedMeansNobodyConfirmed

LEMMA ConfirmedStep ==
    BufferInv /\ ConfirmedInv /\ [Next /\ KeepsRows]_vars => ConfirmedInv'
<1> SUFFICES ASSUME BufferInv, ConfirmedInv, [Next /\ KeepsRows]_vars PROVE ConfirmedInv'
  OBVIOUS
<1> USE DEF ConfirmedInv, FailedMeansNobodyConfirmed
<1>1. CASE UNCHANGED vars
  BY <1>1 DEF vars, rowVars, runVars, worldVars
<1>2. CASE Next /\ KeepsRows
  <2>1. ASSUME NEW r \in Recipient, Success(r) PROVE ConfirmedInv'
    <3>1. status' = "sending"
      BY <2>1 DEF Success, Attempting, BufferInv, InFlight, rowVars
    <3>2. confirmed' \subseteq log' \cup buffer'
      BY <2>1 DEF Success, AddRow
    <3> QED
      BY <3>1, <3>2
  <2>2. CASE \A r \in Recipient : ~Success(r)
    <3>1. confirmed' = confirmed /\ log \subseteq log'
      BY <1>2, <2>2 DEF Next, SendStep, Begin, Finish, FinishTimedOut, Retry, Refuse, Open, Raise,
                        NextBatch, FlushAll, TimeOut, Crash, Unanswered, Rejected, Dropped, Banned,
                        Forbidden, WriteSuspended, worldVars
    <3>2. confirmed' \subseteq log' \cup buffer'
      BY <1>2, <3>1 DEF KeepsRows
    <3>3. ASSUME status' = "failed", status # "failed" PROVE confirmed = {}
      <4>1. Finish \/ FinishTimedOut
        BY <1>2, <3>3 DEF Next, SendStep, Begin, Retry, Refuse, Open, Raise, NextBatch, FlushAll,
                          TimeOut, Crash, Success, Unanswered, Rejected, Dropped, Banned,
                          Forbidden, WriteSuspended, rowVars
      <4> QED
        BY <3>3, <4>1 DEF Finish, FinishTimedOut, BufferInv
    <3> QED
      BY <3>1, <3>2, <3>3
  <2> QED
    BY <2>1, <2>2
<1> QED
  BY <1>1, <1>2

(* A failure is definitive as long as no step drops rows of success that   *)
(* are only in memory, whatever else fails, is cut off or is retried;      *)
(* FailedMeansNobodyConfirmed fails where one does.                        *)
THEOREM FailureIsDefinitive ==
    Init /\ [][Next /\ KeepsRows]_vars => []FailedMeansNobodyConfirmed
<1>1. Init => ConfirmedInv
  BY DEF Init, ConfirmedInv, FailedMeansNobodyConfirmed
<1>2. [Next /\ KeepsRows]_vars => [Next]_vars
  OBVIOUS
<1>3. ConfirmedInv => FailedMeansNobodyConfirmed
  BY DEF ConfirmedInv
<1> QED
  BY <1>1, <1>2, <1>3, BufferInit, BufferStep, ConfirmedStep, PTL

(* Only the timeout of a broadcast, an exception of the flush or a crash   *)
(* drops rows (_BatchPersister writes nothing before flush_all).           *)
THEOREM OnlyInterruptionsDropRows ==
    Spec => [][~KeepsRows => TimeOut \/ Raise \/ Crash]_vars
<1>1. BufferInv /\ [Next]_vars => [~KeepsRows => TimeOut \/ Raise \/ Crash]_vars
  <2> SUFFICES ASSUME BufferInv, Next, ~TimeOut, ~Raise, ~Crash PROVE KeepsRows
    OBVIOUS
  <2> USE DEF KeepsRows
  <2>1. CASE Finish \/ FinishTimedOut
    BY <2>1 DEF Finish, FinishTimedOut, Forget, BufferInv
  <2>2. CASE ~Finish /\ ~FinishTimedOut
    BY <2>2 DEF Next, SendStep, Begin, Retry, Refuse, Open, NextBatch, FlushAll, Success, AddRow,
                Unanswered, Rejected, Dropped, Banned, Forbidden, WriteSuspended, runVars
  <2> QED
    BY <2>1, <2>2
<1> QED
  BY <1>1, BufferInit, BufferStep, PTL DEF Spec
=============================================================================
