----------------------- MODULE BroadcastDispatch_proofs -----------------------
(***************************************************************************)
(* Proofs about BroadcastDispatch, for every set of processes, broadcasts  *)
(* and series and every value of the bounds.                               *)
(***************************************************************************)
EXTENDS BroadcastDispatch, TLAPS

-----------------------------------------------------------------------------
(* Operators.                                                              *)

(* The age a retry may fall back to is a natural number. *)
LEMMA AgeCapNat == \A b \in Bcast : AgeCap(b) \in Nat
BY DispatchAssumption DEF DispatchAssumption, AgeCap

(* A saturating counter stays within its cap. *)
LEMMA AddOneBounded ==
    ASSUME NEW cap \in Nat, NEW n \in 0 .. cap
    PROVE  AddOne(n, cap) \in 0 .. cap
BY DEF AddOne

LEMMA AddOneNat ==
    ASSUME NEW cap \in Nat, NEW n \in Nat
    PROVE  AddOne(n, cap) \in Nat
BY DEF AddOne

(* Writing one element of a function, or of a function of functions, with  *)
(* a value of its range.                                                   *)
LEMMA Put1 ==
    ASSUME NEW D, NEW S, NEW f \in [D -> S], NEW d, NEW x \in S
    PROVE  [f EXCEPT ![d] = x] \in [D -> S]
OBVIOUS

LEMMA Put2 ==
    ASSUME NEW S, NEW f \in [Proc -> [Bcast -> S]], NEW p, NEW b, NEW x \in S
    PROVE  [f EXCEPT ![p][b] = x] \in [Proc -> [Bcast -> S]]
OBVIOUS

LEMMA Zero == 0 \in 0 .. 2
OBVIOUS

(* An ORM flush writes a status or leaves the one there is. *)
LEMMA FlushedStatus ==
    ASSUME NEW b \in Bcast, status[b] \in Status, NEW loaded, NEW new \in Status
    PROVE  Flushed(b, loaded, new) \in Status
BY DEF Flushed

-----------------------------------------------------------------------------
(* Types.                                                                  *)

(* A group of variables that a step leaves alone keeps its types.          *)
LEMMA RowFrame == RowTypes /\ UNCHANGED <<rowVars, logged>> => RowTypes'
BY DEF RowTypes, rowVars

LEMMA RunFrame == RunTypes /\ UNCHANGED runVars => RunTypes'
BY DEF RunTypes, runVars

LEMMA SchedFrame == SchedTypes /\ UNCHANGED schedVars => SchedTypes'
BY DEF SchedTypes, SchedFields, SeriesInHand, schedVars

LEMMA OtherFrame == OtherTypes /\ UNCHANGED <<api, crashes, histVars>> => OtherTypes'
BY DEF OtherTypes, histVars

(* The end of a run keeps the types of what it resets.                     *)
LEMMA EndRunTypes ==
    ASSUME RunTypes, SchedTypes, NEW p \in Proc, NEW b \in Bcast, NEW raises \in BOOLEAN,
           EndRun(p, b, raises)
    PROVE  RunTypes' /\ SchedTypes'
<1>1. RunTypes'
  BY DEF EndRun, RunTypes, PC, Status
<1>2. SchedTypes'
  <2>1. SchedFields'
    BY DEF EndRun, SchedTypes, SchedFields, SPC
  <2>2. SeriesInHand'
    BY DispatchAssumption
     DEF DispatchAssumption, EndRun, SchedTypes, SchedFields, SeriesInHand, InSeries
  <2> QED
    BY <2>1, <2>2 DEF SchedTypes
<1> QED
  BY <1>1, <1>2

(* The one UPDATE of a retry keeps the types of the columns it writes.     *)
LEMMA RetryRowTypes ==
    ASSUME RowTypes, OtherTypes, NEW b \in Bcast, RetryRow(b),
           UNCHANGED <<logged, api, crashes, firedInSlot, firedPaused>>
    PROVE  RowTypes' /\ OtherTypes'
<1> USE DEF RowTypes
<1>1. PICK a \in age[b] .. AgeCap(b) : age' = [age EXCEPT ![b] = a]
  BY DEF RetryRow
<1>2. age' \in [Bcast -> Nat]
  BY <1>1, AgeCapNat
<1>3. retries' \in [Bcast -> 0 .. MaxRetries]
  BY DispatchAssumption DEF DispatchAssumption, RetryRow, Retryable
<1>4. RowTypes'
  BY <1>2, <1>3 DEF RetryRow, Status
<1>5. OtherTypes'
  BY DEF RetryRow, OtherTypes
<1> QED
  BY <1>4, <1>5

(* Counting a delivery keeps the counter at two or below.                  *)
LEMMA CountTypes ==
    ASSUME OtherTypes, NEW b \in Bcast, CountDelivery(b), UNCHANGED <<api, crashes>>
    PROVE  OtherTypes'
BY DispatchAssumption, AddOneBounded DEF DispatchAssumption, CountDelivery, OtherTypes

LEMMA NoRequestTyped == NoRequest \in Requests
BY DEF NoRequest, Requests

(* Every variable keeps its type, whatever the processes do and whenever   *)
(* they crash: retries never exceed broadcast_max_retries and no counter   *)
(* leaves its range.                                                       *)
LEMMA TypeStep == TypeOK /\ [Next]_vars => TypeOK'
<1> SUFFICES ASSUME TypeOK, [Next]_vars PROVE TypeOK'
  OBVIOUS
<1> USE DispatchAssumption DEF DispatchAssumption, TypeOK, Bcast, Sendable
<1>1. ASSUME NEW p \in Proc, NEW b \in Immediate, AdmitImmediate(p, b) PROVE TypeOK'
  <2>1. RunTypes'
    BY <1>1 DEF AdmitImmediate, RunTypes, PC
  <2>2. RowTypes' /\ SchedTypes' /\ OtherTypes'
    BY <1>1, RowFrame, SchedFrame, OtherFrame DEF AdmitImmediate, schedVars
  <2> QED
    BY <2>1, <2>2
<1>2. ASSUME NEW p \in Proc, NEW b \in Immediate, CreateImmediate(p, b) PROVE TypeOK'
  <2>1. RowTypes'
    BY <1>2 DEF CreateImmediate, RowTypes, Status
  <2>2. RunTypes'
    BY <1>2 DEF CreateImmediate, RunTypes, PC
  <2>3. SchedTypes' /\ OtherTypes'
    BY <1>2, SchedFrame, OtherFrame DEF CreateImmediate, schedVars
  <2> QED
    BY <2>1, <2>2, <2>3
<1>3. ASSUME NEW b \in OneTime \cup Parent, CreateScheduled(b) PROVE TypeOK'
  <2>1. RowTypes'
    BY <1>3 DEF CreateScheduled, RowTypes, Status
  <2>2. RunTypes' /\ SchedTypes' /\ OtherTypes'
    BY <1>3, RunFrame, SchedFrame, OtherFrame DEF CreateScheduled, runVars, schedVars
  <2> QED
    BY <2>1, <2>2
<1>4. ASSUME NEW p \in Proc, NEW b \in Sendable, NEW noLimit \in BOOLEAN,
             Retry(p, b, noLimit)
      PROVE  TypeOK'
  <2>1. RowTypes' /\ OtherTypes'
    BY <1>4, RetryRowTypes DEF Retry
  <2>2. RunTypes'
    BY <1>4 DEF Retry, RunTypes, PC
  <2>3. SchedTypes'
    BY <1>4, SchedFrame DEF Retry
  <2> QED
    BY <2>1, <2>2, <2>3
<1>5. ASSUME NEW b \in Bcast, BatchRetry(b) PROVE TypeOK'
  <2>1. RowTypes' /\ OtherTypes'
    BY <1>5, RetryRowTypes DEF BatchRetry
  <2>2. RunTypes' /\ SchedTypes'
    BY <1>5, RunFrame, SchedFrame DEF BatchRetry
  <2> QED
    BY <2>1, <2>2
<1>6. ASSUME NEW p \in Proc, NEW b \in Parent, NEW op \in {"cancel", "pause", "unpause"},
             ReadSeries(p, b, op)
      PROVE  TypeOK'
  <2>1. OtherTypes'
    BY <1>6, RowTypes DEF ReadSeries, OtherTypes, RowTypes, Requests, histVars
  <2>2. RowTypes' /\ RunTypes' /\ SchedTypes'
    BY <1>6, RowFrame, RunFrame, SchedFrame DEF ReadSeries, runVars, schedVars
  <2> QED
    BY <2>1, <2>2
<1>7. ASSUME NEW p \in Proc, WriteSeries(p) PROVE TypeOK'
  <2>1. CASE WriteCancel(p)
    <3>1. RowTypes'
      BY <2>1 DEF WriteCancel, RowTypes, Status
    <3>2. OtherTypes'
      BY <2>1, NoRequestTyped DEF WriteCancel, OtherTypes, histVars
    <3>3. RunTypes' /\ SchedTypes'
      BY <2>1, RunFrame, SchedFrame DEF WriteCancel, runVars, schedVars
    <3> QED
      BY <3>1, <3>2, <3>3
  <2>2. CASE WritePause(p)
    <3>1. RowTypes'
      BY <2>2 DEF WritePause, RowTypes, Status
    <3>2. OtherTypes'
      <4>1. firedPaused' = [firedPaused EXCEPT ![api[p].b] = 0]
        BY <2>2, Zenon DEF WritePause
      <4>2. firedPaused' \in [Parent -> 0 .. 2]
        BY <4>1, Put1, Zero, Zenon DEF OtherTypes
      <4>3. api' \in [Proc -> Requests]
        BY <2>2, Put1, NoRequestTyped, Zenon DEF WritePause, OtherTypes
      <4> QED
        BY <2>2, <4>2, <4>3 DEF WritePause, OtherTypes
    <3>3. RunTypes' /\ SchedTypes'
      BY <2>2, RunFrame, SchedFrame DEF WritePause, runVars, schedVars
    <3> QED
      BY <3>1, <3>2, <3>3
  <2>3. CASE WriteUnpause(p)
    <3>1. RowTypes'
      BY <2>3 DEF WriteUnpause, RowTypes, Status
    <3>2. OtherTypes'
      <4>1. firedPaused' = [firedPaused EXCEPT ![api[p].b] = 0]
        BY <2>3, Zenon DEF WriteUnpause
      <4>2. firedPaused' \in [Parent -> 0 .. 2]
        BY <4>1, Put1, Zero, Zenon DEF OtherTypes
      <4>3. api' \in [Proc -> Requests]
        BY <2>3, Put1, NoRequestTyped, Zenon DEF WriteUnpause, OtherTypes
      <4> QED
        BY <2>3, <4>2, <4>3 DEF WriteUnpause, OtherTypes
    <3>3. RunTypes' /\ SchedTypes'
      BY <2>3, RunFrame, SchedFrame DEF WriteUnpause, runVars, schedVars
    <3> QED
      BY <3>1, <3>2, <3>3
  <2> QED
    BY <1>7, <2>1, <2>2, <2>3 DEF WriteSeries
<1>8. ASSUME NEW p \in Proc, NEW b \in Bcast, RunStep(p, b) PROVE TypeOK'
  <2>1. CASE Load(p, b)
    <3>1. RunTypes'
      <4>1. pc' \in [Proc -> [Bcast -> PC]]
        <5>1. PICK x \in PC : pc' = [pc EXCEPT ![p][b] = x]
          BY <2>1, Zenon DEF Load, PC
        <5> QED
          BY <5>1, Put2, Zenon DEF RunTypes
      <4>2. seen' \in [Proc -> [Bcast -> Status]] /\ skip' = skip
        BY <2>1 DEF Load, RunTypes, RowTypes
      <4>3. verdict' \in [Proc -> [Bcast -> {"sent", "failed"}]]
        <5>1. PICK x \in {"sent", "failed"} : verdict' = [verdict EXCEPT ![p][b] = x]
          BY <2>1, Zenon DEF Load
        <5> QED
          BY <5>1, Put2, Zenon DEF RunTypes
      <4> QED
        BY <4>1, <4>2, <4>3 DEF RunTypes
    <3>2. RowTypes' /\ SchedTypes' /\ OtherTypes'
      BY <2>1, RowFrame, SchedFrame, OtherFrame DEF Load, schedVars
    <3> QED
      BY <3>1, <3>2
  <2>2. CASE EarlyExit(p, b)
    <3>1. RunTypes' /\ SchedTypes'
      BY <2>2, EndRunTypes DEF EarlyExit
    <3>2. RowTypes'
      BY <2>2 DEF EarlyExit, RowTypes, Status, RunTypes, Flushed
    <3>3. OtherTypes'
      BY <2>2, OtherFrame DEF EarlyExit
    <3> QED
      BY <3>1, <3>2, <3>3
  <2>3. CASE Mark(p, b)
    <3>1. RowTypes'
      BY <2>3 DEF Mark, RowTypes, Status, Flushed
    <3>2. RunTypes'
      BY <2>3 DEF Mark, RunTypes, PC
    <3>3. OtherTypes'
      BY <2>3 DEF Mark, OtherTypes
    <3>4. SchedTypes'
      BY <2>3, SchedFrame DEF Mark, schedVars
    <3> QED
      BY <3>1, <3>2, <3>3, <3>4
  <2>4. CASE AcquireSendLock(p, b)
    <3>1. RunTypes'
      BY <2>4 DEF AcquireSendLock, RunTypes, PC
    <3>2. RowTypes' /\ SchedTypes' /\ OtherTypes'
      BY <2>4, RowFrame, SchedFrame, OtherFrame DEF AcquireSendLock, schedVars
    <3> QED
      BY <3>1, <3>2
  <2>5. CASE Delivered(p, b)
    <3>1. RowTypes'
      BY <2>5 DEF Delivered, RowTypes, rowVars
    <3>2. RunTypes'
      <4>1. pc' \in [Proc -> [Bcast -> PC]] /\ seen' = seen /\ skip' = skip
        BY <2>5 DEF Delivered, RunTypes, PC
      <4>2. verdict' \in [Proc -> [Bcast -> {"sent", "failed"}]]
        <5>1. PICK x \in {"sent", "failed"} : verdict' = [verdict EXCEPT ![p][b] = x]
          BY <2>5, Zenon DEF Delivered
        <5> QED
          BY <5>1, Put2, Zenon DEF RunTypes
      <4> QED
        BY <4>1, <4>2 DEF RunTypes
    <3>3. SchedTypes'
      BY <2>5, SchedFrame DEF Delivered
    <3>4. OtherTypes'
      BY <2>5, CountTypes DEF Delivered
    <3> QED
      BY <3>1, <3>2, <3>3, <3>4
  <2>6. CASE TimedOut(p, b)
    <3>1. RowTypes'
      BY <2>6 DEF TimedOut, RowTypes, rowVars
    <3>2. RunTypes'
      BY <2>6 DEF TimedOut, RunTypes, PC
    <3>3. SchedTypes'
      BY <2>6, SchedFrame DEF TimedOut
    <3>4. OtherTypes'
      BY <2>6, CountTypes DEF TimedOut
    <3> QED
      BY <3>1, <3>2, <3>3, <3>4
  <2>7. CASE DeliveryRaises(p, b)
    <3>1. RunTypes' /\ SchedTypes'
      BY <2>7, EndRunTypes DEF DeliveryRaises
    <3>2. RowTypes'
      BY <2>7, RowFrame DEF DeliveryRaises
    <3>3. OtherTypes'
      BY <2>7, OtherFrame DEF DeliveryRaises
    <3> QED
      BY <3>1, <3>2, <3>3
  <2>8. CASE Finish(p, b)
    <3>1. RunTypes' /\ SchedTypes'
      BY <2>8, EndRunTypes DEF Finish
    <3>2. RowTypes'
      BY <2>8 DEF Finish, RowTypes, Status, RunTypes
    <3>3. OtherTypes'
      BY <2>8, OtherFrame DEF Finish
    <3> QED
      BY <3>1, <3>2, <3>3
  <2>9. CASE FinishTimedOut(p, b)
    <3>1. RunTypes' /\ SchedTypes'
      BY <2>9, EndRunTypes DEF FinishTimedOut
    <3>2. RowTypes'
      BY <2>9 DEF FinishTimedOut, RowTypes, Status, LogVerdict
    <3>3. OtherTypes'
      BY <2>9, OtherFrame DEF FinishTimedOut
    <3> QED
      BY <3>1, <3>2, <3>3
  <2> QED
    BY <1>8, <2>1, <2>2, <2>3, <2>4, <2>5, <2>6, <2>7, <2>8, <2>9 DEF RunStep
<1>9. ASSUME NEW s \in SchedProc, SchedStep(s) PROVE TypeOK'
  <2> s \in Proc
    BY DispatchAssumption DEF DispatchAssumption
  <2>1. CASE RecoverStale(s)
    <3>1. RowTypes'
      BY <2>1 DEF RecoverStale, RowTypes, Status
    <3>2. SchedTypes'
      <4>1. SchedFields'
        BY <2>1 DEF RecoverStale, SchedTypes, SchedFields, SPC
      <4>2. SeriesInHand'
        BY <2>1 DEF RecoverStale, MayTick, SchedTypes, SchedFields, SeriesInHand, InSeries
      <4> QED
        BY <4>1, <4>2 DEF SchedTypes
    <3>3. RunTypes' /\ OtherTypes'
      BY <2>1, RunFrame, OtherFrame DEF RecoverStale, runVars
    <3> QED
      BY <3>1, <3>2, <3>3
  <2>2. CASE ListDue(s)
    <3>1. SchedTypes'
      BY <2>2 DEF ListDue, SchedTypes, SchedFields, SeriesInHand, DueOneTime, DueSeries, SPC, InSeries
    <3>2. RowTypes' /\ RunTypes' /\ OtherTypes'
      BY <2>2, RowFrame, RunFrame, OtherFrame DEF ListDue, runVars
    <3> QED
      BY <3>1, <3>2
  <2>3. ASSUME NEW b \in Sendable, ClaimOneTime(s, b) PROVE TypeOK'
    <3>1. RowTypes'
      BY <2>3 DEF ClaimOneTime, RowTypes, ClaimRow, rowVars, Status
    <3>2. RunTypes'
      <4>1. CASE Claimable(b)
        <5>1. /\ pc' = [pc EXCEPT ![s][b] = "load"]
              /\ skip' = [skip EXCEPT ![s][b] = FALSE]
          BY <2>3, <4>1, Zenon DEF ClaimOneTime
        <5> QED
          BY <2>3, <5>1 DEF ClaimOneTime, RunTypes, PC
      <4>2. CASE ~Claimable(b)
        BY <2>3, <4>2 DEF ClaimOneTime, RunTypes
      <4> QED
        BY <4>1, <4>2
    <3>3. SchedTypes'
      BY <2>3 DEF ClaimOneTime, SchedTypes, SchedFields, SeriesInHand
    <3>4. OtherTypes'
      BY <2>3, OtherFrame DEF ClaimOneTime
    <3> QED
      BY <3>1, <3>2, <3>3, <3>4
  <2>4. CASE TickDone(s)
    <3>1. SchedTypes'
      <4>1. SchedFields'
        BY <2>4 DEF TickDone, SchedTypes, SchedFields, SPC
      <4>2. SeriesInHand'
        BY <2>4 DEF TickDone, Gathered, SchedTypes, SchedFields, SeriesInHand, InSeries
      <4> QED
        BY <4>1, <4>2 DEF SchedTypes
    <3>2. RowTypes' /\ RunTypes' /\ OtherTypes'
      BY <2>4, RowFrame, RunFrame, OtherFrame DEF TickDone, runVars
    <3> QED
      BY <3>1, <3>2
  <2>5. ASSUME NEW b \in Parent, ClaimSeries(s, b) PROVE TypeOK'
    <3>1. RowTypes'
      BY <2>5 DEF ClaimSeries, RowTypes, ClaimRow, rowVars, Status
    <3>2. SchedTypes'
      <4>1. SchedFields'
        BY <2>5 DEF ClaimSeries, SchedTypes, SchedFields, SPC
      <4>2. SeriesInHand'
        BY <2>5 DEF ClaimSeries, Gathered, SchedTypes, SchedFields, SeriesInHand, InSeries
      <4> QED
        BY <4>1, <4>2 DEF SchedTypes
    <3>3. RunTypes' /\ OtherTypes'
      BY <2>5, RunFrame, OtherFrame DEF ClaimSeries, runVars
    <3> QED
      BY <3>1, <3>2, <3>3
  <2>6. CASE SkipSeries(s)
    <3>1. SchedTypes'
      BY <2>6 DEF SkipSeries, SchedTypes, SchedFields, SeriesInHand, SPC, InSeries
    <3>2. RowTypes' /\ RunTypes' /\ OtherTypes'
      BY <2>6, RowFrame, RunFrame, OtherFrame DEF SkipSeries, runVars
    <3> QED
      BY <3>1, <3>2
  <2>7. CASE EnterSeries(s)
    <3>1. SchedTypes'
      BY <2>7 DEF EnterSeries, SchedTypes, SchedFields, SeriesInHand, SPC, InSeries
    <3>2. RowTypes' /\ RunTypes' /\ OtherTypes'
      BY <2>7, RowFrame, RunFrame, OtherFrame DEF EnterSeries, runVars
    <3> QED
      BY <3>1, <3>2
  <2>8. ASSUME NEW c \in Child, CreateChild(s, c) PROVE TypeOK'
    <3>1. RowTypes'
      BY <2>8 DEF CreateChild, RowTypes, Status
    <3>2. RunTypes'
      BY <2>8 DEF CreateChild, RunTypes, PC
    <3>3. SchedTypes'
      BY <2>8 DEF CreateChild, SchedTypes, SchedFields, SeriesInHand, SPC, InSeries
    <3>4. OtherTypes'
      BY <2>8, AddOneBounded DEF CreateChild, OtherTypes
    <3> QED
      BY <3>1, <3>2, <3>3, <3>4
  <2>9. CASE ReadForReschedule(s)
    <3>1. SchedTypes'
      <4>1. CASE Halted(cur[s])
        BY <2>9, <4>1 DEF ReadForReschedule, SchedTypes, SchedFields, SeriesInHand, SPC, InSeries
      <4>2. CASE ~Halted(cur[s])
        <5>1. status[cur[s]] \in Status
          BY <2>9 DEF ReadForReschedule, RowTypes, SchedTypes, SchedFields, SeriesInHand, InSeries
        <5> QED
          BY <2>9, <4>2, <5>1 DEF ReadForReschedule, SchedTypes, SchedFields, SeriesInHand, SPC, InSeries
      <4> QED
        BY <4>1, <4>2
    <3>2. RowTypes' /\ RunTypes' /\ OtherTypes'
      BY <2>9, RowFrame, RunFrame, OtherFrame DEF ReadForReschedule, runVars
    <3> QED
      BY <3>1, <3>2
  <2>10. CASE Advance(s)
    <3>1. RowTypes'
      BY <2>10 DEF Advance, RowTypes, Status, Flushed
    <3>2. SchedTypes'
      BY <2>10 DEF Advance, SchedTypes, SchedFields, SeriesInHand, SPC, InSeries, Status
    <3>3. OtherTypes'
      <4>1. firedInSlot' = [firedInSlot EXCEPT ![cur[s]] = 0]
        BY <2>10, Zenon DEF Advance
      <4>2. firedInSlot' \in [Parent -> 0 .. 2]
        BY <4>1, Put1, Zero, Zenon DEF OtherTypes
      <4> QED
        BY <2>10, <4>2 DEF Advance, OtherTypes
    <3>4. RunTypes'
      BY <2>10, RunFrame DEF Advance, runVars
    <3> QED
      BY <3>1, <3>2, <3>3, <3>4
  <2> QED
    BY <1>9, <2>1, <2>2, <2>3, <2>4, <2>5, <2>6, <2>7, <2>8, <2>9, <2>10 DEF SchedStep
<1>10. CASE TimePasses
  <2>1. RowTypes'
    BY <1>10, AddOneNat, AgeCapNat DEF TimePasses, RowTypes
  <2>2. RunTypes' /\ SchedTypes' /\ OtherTypes'
    BY <1>10, RunFrame, SchedFrame, OtherFrame DEF TimePasses, runVars, schedVars
  <2> QED
    BY <2>1, <2>2
<1>11. ASSUME NEW b \in Bcast, ComesDue(b) PROVE TypeOK'
  <2>1. RowTypes'
    BY <1>11 DEF ComesDue, RowTypes
  <2>2. RunTypes' /\ SchedTypes' /\ OtherTypes'
    BY <1>11, RunFrame, SchedFrame, OtherFrame DEF ComesDue, runVars, schedVars
  <2> QED
    BY <2>1, <2>2
<1>12. ASSUME NEW p \in Proc, Crash(p) PROVE TypeOK'
  <2>1. RunTypes'
    BY <1>12 DEF Crash, RunTypes, PC, Status
  <2>2. SchedTypes'
    BY <1>12 DEF Crash, SchedTypes, SchedFields, SeriesInHand, SPC, InSeries, Status
  <2>3. OtherTypes'
    BY <1>12, NoRequestTyped, DispatchAssumption DEF Crash, OtherTypes, DispatchAssumption, histVars
  <2>4. RowTypes'
    BY <1>12, RowFrame DEF Crash
  <2> QED
    BY <2>1, <2>2, <2>3, <2>4
<1>13. CASE UNCHANGED vars
  BY <1>13, RowFrame, RunFrame, SchedFrame, OtherFrame DEF vars
<1> QED
  BY <1>1, <1>2, <1>3, <1>4, <1>5, <1>6, <1>7, <1>8, <1>9, <1>10, <1>11, <1>12, <1>13
  DEF Next, UserStep

LEMMA InitTyped == Init => TypeOK
<1> SUFFICES ASSUME Init PROVE TypeOK
  OBVIOUS
<1> USE DispatchAssumption DEF DispatchAssumption, Init
<1>1. RowTypes
  BY DEF RowTypes, Status, LogState
<1>2. RunTypes
  BY DEF RunTypes, PC, Status
<1>3. SchedTypes
  BY DEF SchedTypes, SchedFields, SeriesInHand, InSeries, SPC, Status
<1>4. OtherTypes
  BY NoRequestTyped, Zero DEF OtherTypes
<1> QED
  BY <1>1, <1>2, <1>3, <1>4 DEF TypeOK

(* The types of all variables, as an invariant of the pipeline.            *)
THEOREM DispatchTyped == Spec => []TypeOK
BY InitTyped, TypeStep, PTL DEF Spec

-----------------------------------------------------------------------------
(* Who runs what.                                                          *)

(* The mutual exclusion rests on the singleton lock, or on the absence of  *)
(* recurring series: an occurrence is started without a claim.             *)
OneSchedulerOrNoSeries == (\A s, t \in SchedProc : s = t) \/ Child = {}

(* The invariant of one broadcast, and that of the pipeline.               *)
JobInv(b) ==
    /\ status[b] # "cancelled"
    /\ status[b] \in {"absent", "pending", "retrying"} => ~begun[b]
    /\ logged[b] # "none" => status[b] \in {"sending", "sent"}
    /\ \A p \in Proc : RunOK(p, b) /\ LogOK(p, b)
    /\ \A p, q \in Proc : pc[p][b] # "idle" /\ pc[q][b] # "idle" => p = q
    /\ status[b] \in {"sent", "failed"} => \A p \in Proc : pc[p][b] = "idle"

DispatchInv ==
    /\ TypeOK
    /\ \A b \in Sendable : JobInv(b)
    /\ \A s \in Proc : TickOK(s)

LEMMA DispatchInvMeans ==
    DispatchInv => RunDiscipline /\ SoleRunner /\ TerminalIsQuiet
BY DEF DispatchInv, JobInv, RunDiscipline, SoleRunner, TerminalIsQuiet

(* A step that leaves alone what is said of a broadcast.                   *)
Untouched(b) ==
    /\ status'[b] = status[b] /\ begun'[b] = begun[b] /\ logged'[b] = logged[b]
    /\ due[b] = "none" => due'[b] = "none"
    /\ \A p \in Proc : /\ pc'[p][b] = pc[p][b]
                       /\ seen'[p][b] = seen[p][b]
                       /\ verdict'[p][b] = verdict[p][b]
                       /\ kid[p] = b => kid'[p] = b /\ spc'[p] = spc[p]

LEMMA JobFrame ==
    ASSUME NEW b \in Sendable, JobInv(b), Untouched(b)
    PROVE  JobInv(b)'
<1> USE DEF Untouched
<1>1. ASSUME NEW p \in Proc PROVE RunOK(p, b)'
  BY DEF JobInv, RunOK, Reaching
<1>2. ASSUME NEW p \in Proc PROVE LogOK(p, b)'
  BY DEF JobInv, LogOK
<1> QED
  BY <1>1, <1>2 DEF JobInv

(* A step that neither claims nor turns to a series keeps the tick of s in *)
(* order.                                                                  *)
LEMMA TickFrame ==
    ASSUME NEW s \in Proc, TickOK(s), toClaim'[s] = toClaim[s],
           toClaim[s] # {} => spc'[s] = spc[s],
           kid'[s] \in {kid[s], None},
           \A b \in toClaim[s] : status[b] # "absent" /\ due[b] = "due" =>
                                     status'[b] # "absent" /\ due'[b] = "due"
    PROVE  TickOK(s)'
BY DEF TickOK

LEMMA InitInv == Init => DispatchInv
<1> SUFFICES ASSUME Init PROVE DispatchInv
  OBVIOUS
<1>1. TypeOK
  BY InitTyped
<1>2. ASSUME NEW b \in Sendable PROVE JobInv(b)
  BY <1>2 DEF Init, JobInv, RunOK, LogOK, Reaching, Bcast
<1>3. ASSUME NEW s \in Proc PROVE TickOK(s)
  BY <1>3 DEF Init, TickOK
<1> QED
  BY <1>1, <1>2, <1>3 DEF DispatchInv

(* What follows of a step, the types apart.                                *)
InvNext == (\A b \in Sendable : JobInv(b)') /\ (\A s \in Proc : TickOK(s)')

(* Creating and retrying: a broadcast gets a run only when it has none.    *)
LEMMA UserStepInv ==
    ASSUME DispatchInv, TypeOK',
           UserStep \/ \E p \in Proc, b \in Immediate : CreateImmediate(p, b)
    PROVE  InvNext
<1> USE DispatchAssumption
    DEF DispatchAssumption, DispatchInv, InvNext, TypeOK, RowTypes, RunTypes, OtherTypes
<1>1. ASSUME NEW p \in Proc, NEW b \in Immediate, AdmitImmediate(p, b) PROVE InvNext
  <2>1. ASSUME NEW c \in Sendable, c # b PROVE JobInv(c)'
    BY <1>1, <2>1, JobFrame
       DEF AdmitImmediate, Untouched, Bcast, rowVars, schedVars, histVars
  <2>2. ASSUME b \in Sendable PROVE JobInv(b)'
    <3>1. ~begun[b] /\ logged[b] = "none"
      BY <1>1, <2>2 DEF AdmitImmediate, JobInv
    <3>2. /\ \A q \in Proc : pc'[q][b] = IF q = p THEN "admitted" ELSE "idle"
          /\ status'[b] = "absent" /\ ~begun'[b] /\ logged'[b] = "none"
      BY <1>1, <2>2, <3>1 DEF AdmitImmediate, Bcast, rowVars, histVars
    <3> QED
      BY <1>1, <3>2 DEF JobInv, RunOK, LogOK, Reaching
  <2>3. ASSUME NEW s \in Proc PROVE TickOK(s)'
    BY <1>1, <2>3, TickFrame DEF AdmitImmediate, rowVars, schedVars
  <2> QED
    BY <2>1, <2>2, <2>3
<1>2. ASSUME NEW p \in Proc, NEW b \in Immediate, CreateImmediate(p, b) PROVE InvNext
  <2>1. ASSUME NEW c \in Sendable, c # b PROVE JobInv(c)'
    BY <1>2, <2>1, JobFrame
       DEF CreateImmediate, Untouched, Bcast, schedVars, histVars
  <2>2. ASSUME b \in Sendable PROVE JobInv(b)'
    <3>1. \A q \in Proc : q # p => pc[q][b] = "idle"
      BY <1>2, <2>2 DEF CreateImmediate, JobInv
    <3>2. status[b] = "absent" /\ ~begun[b] /\ logged[b] = "none"
      <4>1. status[b] = "absent"
        BY <1>2, <2>2 DEF CreateImmediate, JobInv, RunOK
      <4> QED
        BY <2>2, <4>1 DEF JobInv
    <3>3. b \notin Child /\ b \in Bcast /\ b \notin Parent
      BY <2>2 DEF Bcast, Sendable
    <3>4. /\ \A q \in Proc : pc'[q][b] = IF q = p THEN "load" ELSE "idle"
          /\ status'[b] = "pending" /\ due'[b] = "none"
          /\ ~begun'[b] /\ logged'[b] = "none"
      BY <1>2, <3>1, <3>2, <3>3 DEF CreateImmediate, histVars
    <3> QED
      BY <3>3, <3>4 DEF JobInv, RunOK, LogOK, Reaching
  <2>3. ASSUME NEW s \in Proc PROVE TickOK(s)'
    <3>1. b \in Sendable => status[b] = "absent"
      BY <1>2 DEF CreateImmediate, JobInv, RunOK, Bcast
    <3> QED
      BY <1>2, <2>3, <3>1, TickFrame
         DEF CreateImmediate, Bcast, SchedTypes, SchedFields, schedVars
  <2> QED
    BY <2>1, <2>2, <2>3
<1>3. ASSUME NEW b \in OneTime \cup Parent, CreateScheduled(b) PROVE InvNext
  <2>1. ASSUME NEW c \in Sendable, c # b PROVE JobInv(c)'
    BY <1>3, <2>1, JobFrame
       DEF CreateScheduled, Untouched, Bcast, Sendable, runVars, schedVars, histVars
  <2>2. ASSUME b \in Sendable PROVE JobInv(b)'
    <3>1. ~begun[b] /\ logged[b] = "none" /\ \A q \in Proc : pc[q][b] = "idle"
      BY <1>3, <2>2 DEF CreateScheduled, JobInv
    <3>2. /\ \A q \in Proc : pc'[q][b] = "idle"
          /\ status'[b] = "pending" /\ ~begun'[b] /\ logged'[b] = "none"
      BY <1>3, <2>2, <3>1 DEF CreateScheduled, Bcast, runVars, histVars
    <3> QED
      BY <3>2 DEF JobInv, RunOK, LogOK, Reaching
  <2>3. ASSUME NEW s \in Proc PROVE TickOK(s)'
    BY <1>3, <2>3, TickFrame
       DEF CreateScheduled, Bcast, Sendable, SchedTypes, SchedFields, schedVars
  <2> QED
    BY <2>1, <2>2, <2>3
<1>4. ASSUME NEW b \in Bcast, RetryRow(b), NEW p,
             UNCHANGED <<logged, seen, verdict, schedVars>>,
             pc' = pc \/ pc' = [pc EXCEPT ![p][b] = "load"]
      PROVE  InvNext
  <2>1. ASSUME NEW c \in Sendable, c # b PROVE JobInv(c)'
    <3>1. CASE pc' = pc
      BY <1>4, <2>1, <3>1, JobFrame DEF RetryRow, Untouched, Bcast, schedVars
    <3>2. CASE pc' = [pc EXCEPT ![p][b] = "load"]
      <4>1. ASSUME NEW q \in Proc PROVE pc'[q][c] = pc[q][c]
        BY <2>1, <3>2, <4>1
      <4> QED
        BY <1>4, <2>1, <4>1, JobFrame DEF RetryRow, Untouched, Bcast, schedVars
    <3> QED
      BY <1>4, <3>1, <3>2
  <2>2. ASSUME b \in Sendable PROVE JobInv(b)'
    <3>1. status[b] = "failed" /\ \A q \in Proc : pc[q][b] = "idle"
      BY <1>4, <2>2 DEF RetryRow, Retryable, JobInv
    <3>2. logged[b] = "none"
      BY <1>4, <2>2, <3>1 DEF JobInv
    <3>3. ASSUME NEW q \in Proc
          PROVE  pc'[q][b] = "idle" \/ (q = p /\ pc'[q][b] = "load")
      <4>1. CASE pc' = pc
        BY <3>1, <3>3, <4>1
      <4>2. CASE pc' = [pc EXCEPT ![p][b] = "load"]
        BY <3>1, <3>3, <4>2
      <4> QED
        BY <1>4, <4>1, <4>2
    <3>4. status'[b] = "retrying" /\ ~begun'[b] /\ logged'[b] = "none"
      BY <1>4, <3>2 DEF RetryRow
    <3> QED
      BY <3>3, <3>4 DEF JobInv, RunOK, LogOK, Reaching
  <2>3. ASSUME NEW s \in Proc PROVE TickOK(s)'
    BY <1>4, <2>3, TickFrame DEF RetryRow, schedVars, SchedTypes, SchedFields, Bcast
  <2> QED
    BY <2>1, <2>2, <2>3
<1>5. ASSUME NEW p \in Proc, NEW b \in Sendable, NEW noLimit \in BOOLEAN,
             Retry(p, b, noLimit)
      PROVE  InvNext
  BY <1>4, <1>5 DEF Retry, Bcast
<1>6. ASSUME NEW b \in Bcast, BatchRetry(b) PROVE InvNext
  BY <1>4, <1>6 DEF BatchRetry, runVars
<1>7. ASSUME NEW p \in Proc, NEW b \in Parent, NEW op \in {"cancel", "pause", "unpause"},
             ReadSeries(p, b, op)
      PROVE  InvNext
  <2>1. ASSUME NEW c \in Sendable PROVE JobInv(c)'
    BY <1>7, <2>1, JobFrame DEF ReadSeries, Untouched, rowVars, runVars, schedVars, histVars
  <2>2. ASSUME NEW s \in Proc PROVE TickOK(s)'
    BY <1>7, <2>2, TickFrame DEF ReadSeries, rowVars, schedVars
  <2> QED
    BY <2>1, <2>2
<1> QED
  BY <1>1, <1>2, <1>3, <1>5, <1>6, <1>7 DEF UserStep

(* Requests about a series do not touch what is sent. *)
LEMMA WriteSeriesInv ==
    ASSUME DispatchInv, NEW p \in Proc, WriteSeries(p)
    PROVE  InvNext
<1> USE DispatchAssumption DEF DispatchAssumption, DispatchInv, InvNext, TypeOK, RowTypes
<1>1. \A b \in Sendable : api[p].b # b
  BY DEF OtherTypes, Requests, Sendable, Bcast
<1>2. ASSUME NEW c \in Sendable
      PROVE  status'[c] = status[c] /\ due'[c] = due[c]
  BY <1>1, <1>2 DEF WriteSeries, WriteCancel, WritePause, WriteUnpause, Bcast
<1>3. UNCHANGED <<logged, runVars, schedVars, begun>>
  BY DEF WriteSeries, WriteCancel, WritePause, WriteUnpause, histVars
<1>4. ASSUME NEW c \in Sendable PROVE JobInv(c)'
  BY <1>2, <1>3, <1>4, JobFrame DEF Untouched, runVars, schedVars
<1>5. ASSUME NEW s \in Proc PROVE TickOK(s)'
  BY <1>2, <1>3, <1>5, TickFrame DEF SchedTypes, SchedFields, schedVars
<1> QED
  BY <1>4, <1>5

(* A broadcast that only p runs, after a step of p.                        *)
LEMMA SoleJob ==
    ASSUME NEW p \in Proc, NEW b \in Sendable,
           \A q \in Proc : q # p => pc'[q][b] = "idle",
           status'[b] # "cancelled",
           status'[b] \in {"absent", "pending", "retrying"} => ~begun'[b],
           logged'[b] # "none" => status'[b] \in {"sending", "sent"},
           status'[b] \in {"sent", "failed"} => pc'[p][b] = "idle",
           RunOK(p, b)', LogOK(p, b)'
    PROVE  JobInv(b)'
BY DEF JobInv, RunOK, LogOK, Reaching

(* What a step of a run writes of its own variables.                       *)
LEMMA RunStepWrites ==
    ASSUME NEW p \in Proc, NEW b \in Bcast, RunStep(p, b)
    PROVE  /\ \E x : pc' = [pc EXCEPT ![p][b] = x]
           /\ seen' = seen \/ \E x : seen' = [seen EXCEPT ![p][b] = x]
           /\ verdict' = verdict \/ \E x : verdict' = [verdict EXCEPT ![p][b] = x]
BY Zenon DEF RunStep, Load, EarlyExit, Mark, AcquireSendLock, Delivered, TimedOut,
             DeliveryRaises, Finish, FinishTimedOut, EndRun, runVars

(* The steps of a run: it owns the row it works on.                        *)
LEMMA RunStepInv ==
    ASSUME DispatchInv, NEW p \in Proc, NEW b \in Bcast, RunStep(p, b)
    PROVE  InvNext
<1> USE DispatchAssumption
    DEF DispatchAssumption, DispatchInv, InvNext, TypeOK, RowTypes, RunTypes
<1>1. pc[p][b] # "idle"
  BY DEF RunStep, Load, EarlyExit, Mark, AcquireSendLock, Delivered, TimedOut,
         DeliveryRaises, Finish, FinishTimedOut
<1>2. \A q \in Proc, c \in Bcast : q # p \/ c # b =>
         /\ pc'[q][c] = pc[q][c] /\ seen'[q][c] = seen[q][c]
         /\ verdict'[q][c] = verdict[q][c]
  <2>1. \A q \in Proc, c \in Bcast : q # p \/ c # b => pc'[q][c] = pc[q][c]
    BY RunStepWrites
  <2>2. \A q \in Proc, c \in Bcast : q # p \/ c # b => seen'[q][c] = seen[q][c]
    <3>1. CASE seen' = seen
      BY <3>1
    <3>2. CASE \E x : seen' = [seen EXCEPT ![p][b] = x]
      BY <3>2
    <3> QED
      BY <3>1, <3>2, RunStepWrites
  <2>3. \A q \in Proc, c \in Bcast : q # p \/ c # b => verdict'[q][c] = verdict[q][c]
    <3>1. CASE verdict' = verdict
      BY <3>1
    <3>2. CASE \E x : verdict' = [verdict EXCEPT ![p][b] = x]
      BY <3>2
    <3> QED
      BY <3>1, <3>2, RunStepWrites
  <2> QED
    BY <2>1, <2>2, <2>3
<1>3. ASSUME NEW c \in Sendable, c # b PROVE JobInv(c)'
  <2>1. status'[c] = status[c] /\ begun'[c] = begun[c] /\ logged'[c] = logged[c] /\ due' = due
    BY <1>3
       DEF RunStep, Load, EarlyExit, Mark, AcquireSendLock, Delivered, TimedOut,
           DeliveryRaises, Finish, FinishTimedOut, EndRun, CountDelivery,
           rowVars, histVars, OtherTypes, Bcast
  <2>2. ASSUME NEW q \in Proc, kid[q] = c PROVE kid'[q] = c /\ spc'[q] = spc[q]
    BY <1>3, <2>2
       DEF RunStep, Load, EarlyExit, Mark, AcquireSendLock, Delivered, TimedOut,
           DeliveryRaises, Finish, FinishTimedOut, EndRun, schedVars,
           SchedTypes, SchedFields
  <2> QED
    BY <1>2, <1>3, <2>1, <2>2, JobFrame DEF Untouched, Bcast
<1>4. ASSUME NEW s \in Proc PROVE TickOK(s)'
  <2>1. \A c \in Bcast : status[c] # "absent" => status'[c] # "absent"
    <3>1. status' = status \/ \E v \in {"sending", "sent", "failed"} :
                                  status' = [status EXCEPT ![b] = v]
      <4>1. ASSUME NEW v PROVE Flushed(b, seen[p][b], v) \in {status[b], v}
        BY DEF Flushed
      <4>2. [status EXCEPT ![b] = status[b]] = status
        OBVIOUS
      <4>3. verdict[p][b] \in {"sent", "failed"} /\ LogVerdict(logged[b]) \in {"sent", "failed"}
        BY DEF LogVerdict
      <4> QED
        BY <4>1, <4>2, <4>3
           DEF RunStep, Load, EarlyExit, Mark, AcquireSendLock, Delivered, TimedOut,
               DeliveryRaises, Finish, FinishTimedOut, rowVars
    <3> QED
      BY <3>1
  <2>2. due' = due /\ toClaim' = toClaim /\ kid'[s] \in {kid[s], None}
    BY <1>4
       DEF RunStep, Load, EarlyExit, Mark, AcquireSendLock, Delivered, TimedOut,
           DeliveryRaises, Finish, FinishTimedOut, EndRun, rowVars, schedVars,
           SchedTypes, SchedFields
  <2>3. toClaim[s] # {} => spc'[s] = spc[s]
    <3>1. toClaim[p] # {} => kid[p] # b
      BY DEF TickOK, SchedTypes, SeriesInHand, Bcast
    <3> QED
      BY <1>4, <3>1
         DEF RunStep, Load, EarlyExit, Mark, AcquireSendLock, Delivered, TimedOut,
             DeliveryRaises, Finish, FinishTimedOut, EndRun, schedVars,
             SchedTypes, SchedFields
  <2>4. toClaim[s] \subseteq Bcast
    BY <1>4 DEF SchedTypes, SchedFields, Bcast
  <2> QED
    BY <1>4, <2>1, <2>2, <2>3, <2>4, TickFrame
<1>5. ASSUME b \in Sendable PROVE JobInv(b)'
  <2>1. \A q \in Proc : q # p => pc'[q][b] = "idle"
    BY <1>1, <1>2, <1>5 DEF JobInv
  <2>2. status[b] \notin {"sent", "failed", "cancelled"}
    BY <1>1, <1>5 DEF JobInv
  <2>3. RunOK(p, b) /\ LogOK(p, b)
    BY <1>5 DEF JobInv
  <2>4. logged[b] # "none" => status[b] \in {"sending", "sent"}
    BY <1>5 DEF JobInv
  <2>5. status[b] \in {"absent", "pending", "retrying"} => ~begun[b]
    BY <1>5 DEF JobInv
  <2> DEFINE Ended(v) == /\ status' = [status EXCEPT ![b] = v] /\ pc'[p][b] = "idle"
                         /\ logged' = logged /\ begun' = begun
  <2>6. ASSUME NEW v \in {"sent", "failed"}, Ended(v), logged[b] # "none" => v = "sent"
        PROVE  JobInv(b)'
    BY <1>5, <2>1, <2>6, SoleJob DEF RunOK, LogOK, Reaching
  <2>7. CASE Load(p, b)
    <3>1. logged[b] = "none"
      BY <2>3, <2>7 DEF LogOK, Load
    <3>2. /\ pc'[p][b] \in {"early", "mark"} /\ seen'[p][b] = status[b]
          /\ pc'[p][b] = "early" => verdict'[p][b] = "failed"
      BY <2>7, <3>1 DEF Load
    <3> QED
      BY <1>5, <2>1, <2>2, <2>3, <2>5, <2>7, <3>1, <3>2, SoleJob
         DEF Load, RunOK, LogOK, Reaching, rowVars, schedVars, histVars
  <2>8. CASE EarlyExit(p, b)
    <3>1. logged[b] = "none" /\ verdict[p][b] = "failed" /\ seen[p][b] # "failed"
      BY <2>2, <2>3, <2>8 DEF EarlyExit, RunOK, LogOK
    <3>2. Ended("failed")
      BY <2>8, <3>1 DEF EarlyExit, EndRun, Flushed, histVars
    <3> QED
      BY <2>6, <3>1, <3>2
  <2>9. CASE Mark(p, b)
    <3>1. /\ status'[b] = "sending" /\ begun'[b] /\ pc'[p][b] = "wait"
          /\ logged'[b] = "none"
      BY <2>3, <2>9 DEF Mark, RunOK, LogOK, Flushed, OtherTypes
    <3> QED
      BY <1>5, <2>1, <3>1, SoleJob DEF RunOK, LogOK, Reaching
  <2>10. CASE AcquireSendLock(p, b)
    <3>1. /\ status'[b] = "sending" /\ begun'[b] /\ pc'[p][b] = "deliver"
          /\ logged'[b] = "none"
      BY <2>3, <2>10
         DEF AcquireSendLock, RunOK, LogOK, Reaching, rowVars, histVars
    <3> QED
      BY <1>5, <2>1, <3>1, SoleJob DEF RunOK, LogOK, Reaching
  <2>11. CASE Delivered(p, b)
    <3>1. /\ status'[b] = "sending" /\ begun'[b] /\ pc'[p][b] = "finish"
      BY <2>3, <2>11 DEF Delivered, CountDelivery, RunOK, Reaching, rowVars
    <3>2. logged'[b] # "none" => verdict'[p][b] = "sent"
      BY <2>11 DEF Delivered, MayReturn
    <3> QED
      BY <1>5, <2>1, <3>1, <3>2, SoleJob DEF RunOK, LogOK, Reaching
  <2>12. CASE TimedOut(p, b)
    <3>1. /\ status'[b] = "sending" /\ begun'[b] /\ pc'[p][b] = "timeout"
      BY <2>3, <2>12 DEF TimedOut, CountDelivery, RunOK, Reaching, rowVars
    <3> QED
      BY <1>5, <2>1, <3>1, SoleJob DEF RunOK, LogOK, Reaching
  <2>13. CASE DeliveryRaises(p, b)
    <3>1. /\ status'[b] = "sending" /\ begun'[b] /\ pc'[p][b] = "idle"
      BY <2>3, <2>13 DEF DeliveryRaises, EndRun, RunOK, Reaching, rowVars, histVars
    <3> QED
      BY <1>5, <2>1, <3>1, SoleJob DEF RunOK, LogOK, Reaching
  <2>14. CASE Finish(p, b)
    <3>1. PICK v \in {"sent", "failed"} :
             v = verdict[p][b] /\ (logged[b] # "none" => v = "sent")
      BY <2>3, <2>14 DEF Finish, LogOK
    <3>2. Ended(v)
      BY <2>14, <3>1 DEF Finish, EndRun, histVars
    <3> QED
      BY <2>6, <3>1, <3>2
  <2>15. CASE FinishTimedOut(p, b)
    <3>1. PICK v \in {"sent", "failed"} :
             v = LogVerdict(logged[b]) /\ (logged[b] # "none" => v = "sent")
      BY DEF LogVerdict
    <3>2. Ended(v)
      BY <2>15, <3>1 DEF FinishTimedOut, EndRun, histVars
    <3> QED
      BY <2>6, <3>1, <3>2
  <2> QED
    BY <2>7, <2>8, <2>9, <2>10, <2>11, <2>12, <2>13, <2>14, <2>15 DEF RunStep
<1> QED
  BY <1>3, <1>4, <1>5
(* The steps of the scheduler.                                             *)
LEMMA SchedStepInv ==
    ASSUME OneSchedulerOrNoSeries, DispatchInv, NEW s \in SchedProc, SchedStep(s)
    PROVE  InvNext
<1> USE DispatchAssumption
    DEF DispatchAssumption, DispatchInv, InvNext, TypeOK, RowTypes, RunTypes
<1>1. s \in Proc
  OBVIOUS
<1>2. ASSUME NEW b \in Sendable, status[b] = "pending", spc[s] # "child",
             b \in Child \/ due[b] # "none"
      PROVE  \A q \in Proc : pc[q][b] = "idle"
  <2>1. SUFFICES ASSUME NEW q \in Proc, pc[q][b] # "idle" PROVE FALSE
    OBVIOUS
  <2>2. q \in SchedProc /\ spc[q] = "child" /\ kid[q] = b
    BY <1>2, <2>1 DEF JobInv, RunOK
  <2>3. kid[q] \in Child \cup {None} /\ b # None
    BY <2>1, <1>2 DEF SchedTypes, SchedFields, Bcast
  <2> QED
    BY <1>2, <2>2, <2>3 DEF OneSchedulerOrNoSeries
<1>3. CASE RecoverStale(s)
  <2>1. PICK lost \in SUBSET UNION {Orphans(b) : b \in {x \in Parent : Stale(x)}} :
           status' = [b \in Bcast |-> IF b \in lost THEN "failed"
                                      ELSE IF Stale(b) THEN "pending" ELSE status[b]]
    BY <1>3, Zenon DEF RecoverStale
  <2>2. \A c \in lost : c \in Child /\ status[c] = "pending"
    BY <2>1 DEF Orphans
  <2>3. ASSUME NEW c \in Sendable, c \notin lost PROVE JobInv(c)'
    <3>1. status'[c] = status[c]
      BY <2>1, <2>3 DEF Stale, Bcast, Sendable
    <3>2. ASSUME NEW q \in Proc, kid[q] = c PROVE kid'[q] = c /\ spc'[q] = spc[q]
      <4>1. c # None
        BY DEF Bcast
      <4> QED
        BY <1>3, <3>2, <4>1 DEF RecoverStale, MayTick, SchedTypes, SchedFields, SeriesInHand
    <3> QED
      BY <1>3, <3>1, <3>2, JobFrame DEF RecoverStale, Untouched, runVars, histVars
  <2>4. ASSUME NEW c \in Sendable, c \in lost PROVE JobInv(c)'
    <3>1. \A q \in Proc : pc[q][c] = "idle"
      BY <1>2, <1>3, <2>2, <2>4 DEF RecoverStale, MayTick
    <3>2. logged[c] = "none" /\ ~begun[c]
      BY <2>2, <2>4 DEF JobInv
    <3>3. /\ status'[c] = "failed" /\ logged'[c] = "none"
          /\ \A q \in Proc : pc'[q][c] = "idle"
      BY <1>3, <2>1, <2>4, <3>1, <3>2 DEF RecoverStale, runVars, Bcast
    <3> QED
      BY <3>3 DEF JobInv, RunOK, LogOK, Reaching
  <2>5. ASSUME NEW q \in Proc PROVE TickOK(q)'
    <3>1. \A b \in Bcast : status[b] # "absent" => status'[b] # "absent"
      BY <2>1
    <3>2. toClaim[q] \subseteq Bcast /\ (toClaim[q] # {} => q # s)
      BY <1>3, <2>5 DEF RecoverStale, MayTick, TickOK, SchedTypes, SchedFields, Bcast
    <3> QED
      BY <1>3, <2>5, <3>1, <3>2, TickFrame
         DEF RecoverStale, SchedTypes, SchedFields
  <2> QED
    BY <2>3, <2>4, <2>5
<1>4. CASE ListDue(s)
  <2>1. ASSUME NEW c \in Sendable PROVE JobInv(c)'
    <3>1. c # None
      BY DEF Bcast
    <3>2. ASSUME NEW q \in Proc, kid[q] = c PROVE kid'[q] = c /\ spc'[q] = spc[q]
      BY <1>4, <3>1, <3>2 DEF ListDue, SchedTypes, SchedFields, SeriesInHand
    <3> QED
      BY <1>4, <3>2, JobFrame DEF ListDue, Untouched, rowVars, runVars, histVars
  <2>2. ASSUME NEW q \in Proc, q # s PROVE TickOK(q)'
    BY <1>4, <2>2, TickFrame DEF ListDue, SchedTypes, SchedFields, rowVars
  <2>3. TickOK(s)'
    BY <1>4 DEF ListDue, DueOneTime, NothingDue, TickOK, SchedTypes, SchedFields, rowVars
  <2> QED
    BY <1>1, <2>1, <2>2, <2>3
<1>5. ASSUME NEW b \in Sendable, ClaimOneTime(s, b) PROVE InvNext
  <2>1. b \in Bcast /\ status[b] # "absent" /\ due[b] = "due" /\ spc[s] = "tick"
    BY <1>1, <1>5 DEF ClaimOneTime, TickOK, Bcast
  <2>2. CASE ~Claimable(b)
    <3>1. UNCHANGED <<rowVars, logged, runVars, spc, kid, begun>>
      BY <1>5, <2>2 DEF ClaimOneTime, runVars, histVars
    <3>2. ASSUME NEW c \in Sendable PROVE JobInv(c)'
      BY <3>1, <3>2, JobFrame DEF Untouched, rowVars, runVars
    <3>3. ASSUME NEW q \in Proc PROVE TickOK(q)'
      BY <1>5, <3>1, <3>3 DEF ClaimOneTime, TickOK, SchedTypes, SchedFields, rowVars
    <3> QED
      BY <3>2, <3>3
  <2>3. CASE Claimable(b)
    <3>1. \A q \in Proc : pc[q][b] = "idle"
      BY <1>2, <2>1, <2>3 DEF Claimable
    <3>2. /\ pc' = [pc EXCEPT ![s][b] = "load"]
          /\ status' = [status EXCEPT ![b] = "sending"]
          /\ UNCHANGED <<due, logged, seen, verdict, spc, kid, begun>>
      BY <1>5, <2>3, Zenon DEF ClaimOneTime, ClaimRow, histVars
    <3>3. ASSUME NEW c \in Sendable, c # b PROVE JobInv(c)'
      BY <3>2, <3>3, JobFrame DEF Untouched, Bcast
    <3>4. JobInv(b)'
      <4>1. ~begun[b] /\ logged[b] = "none"
        BY <2>3 DEF JobInv, Claimable
      <4>2. /\ pc'[s][b] = "load" /\ \A q \in Proc : q # s => pc'[q][b] = "idle"
            /\ status'[b] = "sending" /\ ~begun'[b] /\ logged'[b] = "none"
        BY <1>1, <2>1, <3>1, <3>2, <4>1
      <4> QED
        BY <1>1, <4>2, SoleJob DEF RunOK, LogOK, Reaching
    <3>5. ASSUME NEW q \in Proc PROVE TickOK(q)'
      <4>1. toClaim'[q] \subseteq toClaim[q] /\ toClaim[q] \subseteq Bcast
        BY <1>5, <3>5 DEF ClaimOneTime, SchedTypes, SchedFields, Bcast
      <4>2. \A c \in Bcast : status[c] # "absent" => status'[c] # "absent"
        BY <3>2
      <4> QED
        BY <3>2, <3>5, <4>1, <4>2 DEF TickOK
    <3> QED
      BY <3>3, <3>4, <3>5
  <2> QED
    BY <2>2, <2>3
<1>6. ASSUME Gathered(s) \/ spc[s] \in {"parent", "reschedule"},
             UNCHANGED <<due, logged, runVars, toClaim, kid, begun>>,
             \/ status' = status
             \/ \E b \in Parent : status' = [status EXCEPT ![b] = "sending"],
             \E x : spc' = [spc EXCEPT ![s] = x]
      PROVE  InvNext
  <2>1. toClaim[s] = {} /\ spc[s] # "child"
    BY <1>6 DEF Gathered, TickOK
  <2>2. ASSUME NEW c \in Sendable PROVE status'[c] = status[c]
    BY <1>6, <2>2 DEF Sendable, Bcast
  <2>3. ASSUME NEW c \in Sendable PROVE JobInv(c)'
    <3>1. ASSUME NEW q \in Proc, kid[q] = c PROVE kid'[q] = c /\ spc'[q] = spc[q]
      <4>1. c # None
        BY DEF Bcast
      <4>2. q # s
        BY <2>1, <3>1, <4>1 DEF SchedTypes, SeriesInHand
      <4> QED
        BY <1>6, <3>1, <4>2 DEF SchedTypes, SchedFields
    <3> QED
      BY <1>6, <2>2, <2>3, <3>1, JobFrame DEF Untouched, runVars
  <2>4. ASSUME NEW q \in Proc PROVE TickOK(q)'
    BY <1>6, <2>1, <2>2, <2>4, TickFrame DEF SchedTypes, SchedFields
  <2> QED
    BY <2>3, <2>4
<1>7. CASE TickDone(s)
  BY <1>6, <1>7, Zenon DEF TickDone, rowVars, histVars
<1>8. ASSUME NEW b \in Parent, ClaimSeries(s, b) PROVE InvNext
  <2>1. CASE Claimable(b)
    BY <1>6, <1>8, <2>1, Zenon DEF ClaimSeries, ClaimRow, rowVars, histVars
  <2>2. CASE ~Claimable(b)
    <3>1. spc' = [spc EXCEPT ![s] = spc[s]]
      BY <1>1, <1>8, <2>2 DEF ClaimSeries, SchedTypes, SchedFields
    <3> QED
      BY <1>6, <1>8, <2>2, <3>1, Zenon DEF ClaimSeries, rowVars, histVars
  <2> QED
    BY <2>1, <2>2
<1>9. CASE SkipSeries(s)
  BY <1>6, <1>9 DEF SkipSeries, rowVars, histVars
<1>10. CASE EnterSeries(s)
  BY <1>6, <1>10 DEF EnterSeries, rowVars, histVars
<1>11. CASE ReadForReschedule(s)
  BY <1>6, <1>11 DEF ReadForReschedule, rowVars, histVars
<1>12. CASE Advance(s)
  <2>1. cur[s] \in Parent
    BY <1>1, <1>12 DEF Advance, SchedTypes, SeriesInHand, InSeries
  <2>2. ASSUME NEW c \in Sendable PROVE status'[c] = status[c] /\ due'[c] = due[c] /\ c # None
    BY <1>12, <2>1, <2>2 DEF Advance, Sendable, Bcast
  <2>3. toClaim[s] = {} /\ spc[s] # "child" /\ UNCHANGED <<logged, runVars, toClaim, kid, begun>>
    BY <1>1, <1>12 DEF Advance, TickOK
  <2>4. \A q \in Proc : q # s => spc'[q] = spc[q]
    BY <1>12 DEF Advance, SchedTypes, SchedFields
  <2>5. ASSUME NEW c \in Sendable PROVE JobInv(c)'
    <3>1. ASSUME NEW q \in Proc, kid[q] = c PROVE kid'[q] = c /\ spc'[q] = spc[q]
      BY <2>2, <2>3, <2>4, <3>1 DEF SchedTypes, SeriesInHand
    <3> QED
      BY <2>2, <2>3, <2>5, <3>1, JobFrame DEF Untouched, runVars
  <2>6. ASSUME NEW q \in Proc PROVE TickOK(q)'
    BY <2>2, <2>3, <2>4, <2>6, TickFrame DEF SchedTypes, SchedFields
  <2> QED
    BY <2>5, <2>6
<1>13. ASSUME NEW c \in Child, CreateChild(s, c) PROVE InvNext
  <2>1. /\ c \in Sendable /\ c \in Bcast /\ c \notin Immediate /\ c # None
        /\ status[c] = "absent" /\ toClaim[s] = {} /\ kid[s] = None
    BY <1>1, <1>13
       DEF CreateChild, Sendable, Bcast, TickOK, SchedTypes, SchedFields, SeriesInHand
  <2>2. \A q \in Proc : pc[q][c] = "idle"
    BY <2>1 DEF JobInv, RunOK
  <2>3. ~begun[c] /\ logged[c] = "none"
    BY <2>1 DEF JobInv
  <2>4. /\ status' = [status EXCEPT ![c] = "pending"] /\ due' = [due EXCEPT ![c] = "due"]
        /\ pc' = [pc EXCEPT ![s][c] = "load"]
        /\ kid' = [kid EXCEPT ![s] = c] /\ spc' = [spc EXCEPT ![s] = "child"]
        /\ UNCHANGED <<logged, seen, verdict, toClaim, begun>>
    BY <1>13, Zenon DEF CreateChild
  <2>5. ASSUME NEW d \in Sendable, d # c PROVE JobInv(d)'
    <3>1. d # None /\ d \in Bcast
      BY DEF Bcast
    <3>2. ASSUME NEW q \in Proc, kid[q] = d PROVE kid'[q] = d /\ spc'[q] = spc[q]
      BY <2>1, <2>4, <3>1, <3>2 DEF SchedTypes, SchedFields
    <3> QED
      BY <2>4, <2>5, <3>1, <3>2, JobFrame DEF Untouched
  <2>6. JobInv(c)'
    <3>1. /\ pc'[s][c] = "load" /\ \A q \in Proc : q # s => pc'[q][c] = "idle"
          /\ status'[c] = "pending" /\ ~begun'[c] /\ logged'[c] = "none"
          /\ kid'[s] = c /\ spc'[s] = "child"
      BY <1>1, <2>1, <2>2, <2>3, <2>4 DEF SchedTypes, SchedFields
    <3> QED
      BY <1>1, <2>1, <3>1, SoleJob DEF RunOK, LogOK, Reaching
  <2>7. ASSUME NEW q \in Proc PROVE TickOK(q)'
    <3>1. CASE q = s
      BY <1>1, <2>1, <2>4, <3>1 DEF TickOK, SchedTypes, SchedFields
    <3>2. CASE q # s
      <4>1. \A b \in toClaim[q] : b # c /\ b \in Bcast
        BY <2>1, <2>7 DEF TickOK, SchedTypes, SchedFields, Bcast
      <4> QED
        BY <2>4, <2>7, <3>2, <4>1, TickFrame DEF SchedTypes, SchedFields
    <3> QED
      BY <3>1, <3>2
  <2> QED
    BY <2>5, <2>6, <2>7
<1> QED
  BY <1>3, <1>4, <1>5, <1>7, <1>8, <1>9, <1>10, <1>11, <1>12, <1>13 DEF SchedStep

(* Time and failure: a crash ends the runs of its process.                 *)
LEMMA WorldStepInv ==
    ASSUME DispatchInv,
           \/ TimePasses \/ \E b \in Bcast : ComesDue(b)
           \/ \E p \in Proc : Crash(p)
           \/ UNCHANGED vars
    PROVE  InvNext
<1> USE DispatchAssumption
    DEF DispatchAssumption, DispatchInv, InvNext, TypeOK, RowTypes, RunTypes
<1>1. ASSUME UNCHANGED <<status, logged, runVars, schedVars, begun>>,
             \A b \in Bcast : due[b] # "future" => due'[b] = due[b]
      PROVE  InvNext
  <2>1. ASSUME NEW c \in Sendable PROVE JobInv(c)'
    BY <1>1, <2>1, JobFrame DEF Untouched, Bcast, runVars, schedVars
  <2>2. ASSUME NEW s \in Proc PROVE TickOK(s)'
    BY <1>1, <2>2, TickFrame DEF schedVars, SchedTypes, SchedFields, Bcast
  <2> QED
    BY <2>1, <2>2
<1>2. CASE TimePasses
  BY <1>1, <1>2 DEF TimePasses, histVars
<1>3. ASSUME NEW b \in Bcast, ComesDue(b) PROVE InvNext
  BY <1>1, <1>3 DEF ComesDue, histVars
<1>4. CASE UNCHANGED vars
  BY <1>1, <1>4 DEF vars, rowVars, histVars
<1>5. ASSUME NEW p \in Proc, Crash(p) PROVE InvNext
  <2>1. UNCHANGED <<status, due, logged, begun>>
    BY <1>5 DEF Crash, rowVars, histVars
  <2>2. \A q \in Proc, c \in Bcast :
           /\ pc'[q][c] = IF q = p THEN "idle" ELSE pc[q][c]
           /\ q # p => seen'[q][c] = seen[q][c] /\ verdict'[q][c] = verdict[q][c]
    BY <1>5 DEF Crash
  <2>3. \A q \in Proc : IF q = p THEN toClaim'[q] = {} /\ kid'[q] = None
                                 ELSE /\ toClaim'[q] = toClaim[q] /\ kid'[q] = kid[q]
                                      /\ spc'[q] = spc[q]
    BY <1>5 DEF Crash, SchedTypes, SchedFields
  <2>4. ASSUME NEW c \in Sendable PROVE JobInv(c)'
    <3>1. c \in Bcast
      BY DEF Bcast
    <3>2. ASSUME NEW q \in Proc PROVE RunOK(q, c)' /\ LogOK(q, c)'
      <4>1. RunOK(q, c) /\ LogOK(q, c)
        BY DEF JobInv
      <4>2. CASE q = p
        BY <2>1, <2>2, <3>1, <4>2 DEF RunOK, LogOK, Reaching
      <4>3. CASE q # p
        BY <2>1, <2>2, <2>3, <3>1, <4>1, <4>3 DEF RunOK, LogOK, Reaching
      <4> QED
        BY <4>2, <4>3
    <3> QED
      BY <2>1, <2>2, <3>1, <3>2 DEF JobInv
  <2>5. ASSUME NEW s \in Proc PROVE TickOK(s)'
    BY <2>1, <2>3, <2>5 DEF TickOK
  <2> QED
    BY <2>4, <2>5
<1> QED
  BY <1>2, <1>3, <1>4, <1>5

LEMMA InvStep ==
    ASSUME OneSchedulerOrNoSeries
    PROVE  DispatchInv /\ [Next]_vars => DispatchInv'
<1> SUFFICES ASSUME DispatchInv, [Next]_vars PROVE DispatchInv'
  OBVIOUS
<1>1. TypeOK'
  BY TypeStep DEF DispatchInv
<1>2. InvNext
  <2>1. CASE UserStep \/ \E p \in Proc, b \in Immediate : CreateImmediate(p, b)
    BY <1>1, <2>1, UserStepInv
  <2>2. ASSUME NEW p \in Proc, WriteSeries(p) PROVE InvNext
    BY <2>2, WriteSeriesInv
  <2>3. ASSUME NEW p \in Proc, NEW b \in Bcast, RunStep(p, b) PROVE InvNext
    BY <2>3, RunStepInv
  <2>4. ASSUME NEW s \in SchedProc, SchedStep(s) PROVE InvNext
    BY <2>4, SchedStepInv
  <2>5. CASE TimePasses \/ (\E b \in Bcast : ComesDue(b)) \/ (\E p \in Proc : Crash(p))
             \/ UNCHANGED vars
    BY <2>5, WorldStepInv
  <2> QED
    BY <2>1, <2>2, <2>3, <2>4, <2>5 DEF Next
<1> QED
  BY <1>1, <1>2 DEF DispatchInv, InvNext

LEMMA DispatchInvHolds ==
    ASSUME OneSchedulerOrNoSeries
    PROVE  Spec => []DispatchInv
BY InitInv, InvStep, PTL DEF Spec

(* At most one process works on a sendable broadcast, whatever the number  *)
(* of processes, broadcasts, retries and crashes, provided the singleton   *)
(* lock leaves one scheduler or no series exists (claim_broadcast_dispatch *)
(* and the status guard of retry_broadcast are then enough).               *)
THEOREM SoleRunnerHolds ==
    ASSUME OneSchedulerOrNoSeries
    PROVE  Spec => []SoleRunner
BY DispatchInvHolds, DispatchInvMeans, PTL

(* A broadcast that reports "sent" or "failed" has no run left that could  *)
(* reach a recipient or change the report: process_broadcast writes its    *)
(* result last, and only crud.retry_broadcast opens the row again.         *)
THEOREM TerminalIsQuietHolds ==
    ASSUME OneSchedulerOrNoSeries
    PROVE  Spec => []TerminalIsQuiet
BY DispatchInvHolds, DispatchInvMeans, PTL

(* What a run relies on between its steps (the strengthening above) holds. *)
THEOREM RunDisciplineHolds ==
    ASSUME OneSchedulerOrNoSeries
    PROVE  Spec => []RunDiscipline
BY DispatchInvHolds, DispatchInvMeans, PTL

(* Of a broadcast that reports "failed" no success is on record, so the    *)
(* filter of process_broadcast has nothing to skip when it is retried.     *)
THEOREM FailedMeansUnloggedHolds ==
    ASSUME OneSchedulerOrNoSeries
    PROVE  Spec => []FailedMeansUnlogged
<1>1. DispatchInv => FailedMeansUnlogged
  BY DEF DispatchInv, JobInv, FailedMeansUnlogged
<1> QED
  BY <1>1, DispatchInvHolds, PTL

-----------------------------------------------------------------------------
(* The pipeline implements the abstract life of a broadcast.               *)

Opened == {"pending", "sending", "retrying"}

(* What one step may make of one broadcast, in terms of the table.         *)
Moves(c) ==
    \/ /\ status'[c] = status[c] \/ {status[c], status'[c]} \subseteq Opened
       /\ retries'[c] = retries[c] /\ begun'[c] = begun[c]
    \/ /\ status[c] = "absent" /\ status'[c] \in Opened
       /\ retries'[c] = retries[c] /\ begun'[c] = begun[c]
    \/ /\ {status[c], status'[c]} \subseteq Opened /\ ~begun[c] /\ begun'[c] = TRUE
       /\ retries'[c] = retries[c]
    \/ /\ status[c] \in Opened
       /\ status'[c] = "failed" \/ (begun[c] /\ status'[c] = "sent")
       /\ retries'[c] = retries[c] /\ begun'[c] = begun[c]
    \/ /\ status[c] = "failed" /\ status'[c] \in Opened
       /\ retries[c] < MaxRetries /\ retries'[c] = retries[c] + 1 /\ begun'[c] = FALSE

(* Each such move is a step of the abstract specification. *)
LEMMA MoveIsJobStep ==
    ASSUME TypeOK, NEW c \in Sendable, Moves(c)
    PROVE  Lifecycle!JobStep(c)
<1> USE DispatchAssumption
    DEF DispatchAssumption, Opened, Phase, Lifecycle!JobStep, Bcast
<1>1. CASE /\ status'[c] = status[c] \/ {status[c], status'[c]} \subseteq Opened
           /\ retries'[c] = retries[c] /\ begun'[c] = begun[c]
  <2>1. Phase(c)' = Phase(c)
    BY <1>1
  <2> QED
    BY <1>1, <2>1 DEF Lifecycle!Keep
<1>2. CASE /\ status[c] = "absent" /\ status'[c] \in Opened
           /\ retries'[c] = retries[c] /\ begun'[c] = begun[c]
  BY <1>2 DEF Lifecycle!Submit
<1>3. CASE /\ {status[c], status'[c]} \subseteq Opened /\ ~begun[c] /\ begun'[c] = TRUE
           /\ retries'[c] = retries[c]
  BY <1>3 DEF Lifecycle!Begin
<1>4. CASE /\ status[c] \in Opened
           /\ status'[c] = "failed" \/ (begun[c] /\ status'[c] = "sent")
           /\ retries'[c] = retries[c] /\ begun'[c] = begun[c]
  BY <1>4 DEF Lifecycle!Settle
<1>5. CASE /\ status[c] = "failed" /\ status'[c] \in Opened
           /\ retries[c] < MaxRetries /\ retries'[c] = retries[c] + 1 /\ begun'[c] = FALSE
  <2>1. retries[c] \in Nat /\ MaxRetries \in Nat
    BY DEF TypeOK, RowTypes
  <2> QED
    BY <1>5, <2>1 DEF Lifecycle!Reopen
<1> QED
  BY <1>1, <1>2, <1>3, <1>4, <1>5 DEF Moves

(* Every step of the pipeline moves every broadcast in one of these ways.  *)
LEMMA StepMoves ==
    ASSUME OneSchedulerOrNoSeries, DispatchInv, [Next]_vars, NEW c \in Sendable
    PROVE  Moves(c)
<1> USE DispatchAssumption
    DEF DispatchAssumption, DispatchInv, TypeOK, RowTypes, RunTypes, OtherTypes, Bcast, Opened
<1> DEFINE Stays == status'[c] = status[c] /\ retries'[c] = retries[c] /\ begun'[c] = begun[c]
<1>0. Stays => Moves(c)
  BY DEF Moves
<1>1. ASSUME NEW p \in Proc, NEW b \in Immediate, AdmitImmediate(p, b) PROVE Moves(c)
  BY <1>0, <1>1 DEF AdmitImmediate, rowVars, histVars
<1>2. ASSUME NEW p \in Proc, NEW b \in Immediate, CreateImmediate(p, b) PROVE Moves(c)
  <2>1. CASE b = c
    <3>1. status[c] = "absent"
      BY <1>2, <2>1 DEF CreateImmediate, JobInv, RunOK
    <3> QED
      BY <1>2, <2>1, <3>1 DEF CreateImmediate, Moves, histVars
  <2>2. CASE b # c
    BY <1>0, <1>2, <2>2 DEF CreateImmediate, histVars
  <2> QED
    BY <2>1, <2>2
<1>3. ASSUME NEW b \in OneTime \cup Parent, CreateScheduled(b) PROVE Moves(c)
  <2>1. CASE b = c
    BY <1>3, <2>1 DEF CreateScheduled, Moves, histVars
  <2>2. CASE b # c
    BY <1>0, <1>3, <2>2 DEF CreateScheduled, histVars
  <2> QED
    BY <2>1, <2>2
<1>4. ASSUME NEW b \in Bcast, RetryRow(b) PROVE Moves(c)
  <2>1. CASE b = c
    BY <1>4, <2>1 DEF RetryRow, Retryable, Moves
  <2>2. CASE b # c
    BY <1>0, <1>4, <2>2 DEF RetryRow
  <2> QED
    BY <2>1, <2>2
<1>5. ASSUME NEW p \in Proc, NEW b \in Parent, NEW op, ReadSeries(p, b, op) PROVE Moves(c)
  BY <1>0, <1>5 DEF ReadSeries, rowVars, histVars
<1>6. ASSUME NEW p \in Proc, WriteSeries(p) PROVE Moves(c)
  <2>1. api[p].b # c
    BY <1>6 DEF Requests, Sendable
  <2> QED
    BY <1>0, <1>6, <2>1 DEF WriteSeries, WriteCancel, WritePause, WriteUnpause, histVars
<1>7. ASSUME NEW p \in Proc, NEW b \in Bcast, RunStep(p, b) PROVE Moves(c)
  <2>1. retries' = retries /\ (b # c \/ ~Mark(p, b) => begun'[c] = begun[c])
    BY <1>7
       DEF RunStep, Load, EarlyExit, Mark, AcquireSendLock, Delivered, TimedOut,
           DeliveryRaises, Finish, FinishTimedOut, CountDelivery, rowVars, histVars
  <2>2. CASE b # c
    <3>1. status'[c] = status[c]
      BY <1>7, <2>2
         DEF RunStep, Load, EarlyExit, Mark, AcquireSendLock, Delivered, TimedOut,
             DeliveryRaises, Finish, FinishTimedOut, rowVars
    <3> QED
      BY <1>0, <2>1, <2>2, <3>1
  <2>3. CASE b = c /\ (Load(p, b) \/ AcquireSendLock(p, b) \/ Delivered(p, b)
                       \/ TimedOut(p, b) \/ DeliveryRaises(p, b))
    <3>1. status' = status /\ begun' = begun
      BY <2>3 DEF Load, AcquireSendLock, Delivered, TimedOut, DeliveryRaises,
                  CountDelivery, rowVars, histVars
    <3> QED
      BY <1>0, <2>1, <3>1
  <2>4. CASE b = c /\ (EarlyExit(p, b) \/ Mark(p, b) \/ Finish(p, b) \/ FinishTimedOut(p, b))
    <3>1. /\ RunOK(p, c) /\ LogOK(p, c) /\ status[c] \notin {"sent", "failed", "cancelled"}
          /\ logged[c] # "none" => status[c] \in {"sending", "sent"}
      BY <2>4 DEF JobInv, EarlyExit, Mark, Finish, FinishTimedOut
    <3>2. status[c] \in Opened
      BY <2>4, <3>1 DEF RunOK, EarlyExit, Mark, Finish, FinishTimedOut, Status
    <3>3. CASE EarlyExit(p, b)
      <4>1. status'[c] = "failed"
        BY <2>4, <3>1, <3>3 DEF EarlyExit, Flushed, RunOK, LogOK
      <4> QED
        BY <2>1, <2>4, <3>2, <3>3, <4>1 DEF Moves, EarlyExit, histVars
    <3>4. CASE Mark(p, b)
      <4>1. status'[c] = "sending" /\ ~begun[c] /\ begun'[c] = TRUE
        BY <2>4, <3>1, <3>4 DEF Mark, Flushed, RunOK
      <4> QED
        BY <2>1, <3>2, <4>1 DEF Moves
    <3>5. CASE Finish(p, b) \/ FinishTimedOut(p, b)
      <4>1. status'[c] \in {"sent", "failed"} /\ begun' = begun
        <5>1. verdict[p][b] \in {"sent", "failed"} /\ LogVerdict(logged[b]) \in {"sent", "failed"}
          BY DEF LogVerdict
        <5> QED
          BY <2>4, <3>5, <5>1 DEF Finish, FinishTimedOut, histVars
      <4>2. begun[c]
        BY <2>4, <3>1, <3>5 DEF RunOK, Reaching, Finish, FinishTimedOut
      <4> QED
        BY <2>1, <3>2, <4>1, <4>2 DEF Moves
    <3> QED
      BY <2>4, <3>3, <3>4, <3>5
  <2> QED
    BY <1>7, <2>2, <2>3, <2>4 DEF RunStep
<1>8. ASSUME NEW s \in SchedProc, SchedStep(s) PROVE Moves(c)
  <2>1. retries' = retries /\ begun' = begun
    BY <1>8 DEF SchedStep, RecoverStale, ListDue, ClaimOneTime, ClaimRow, TickDone,
                ClaimSeries, SkipSeries, EnterSeries, CreateChild, ReadForReschedule,
                Advance, rowVars, histVars
  <2>2. CASE RecoverStale(s)
    <3>1. PICK lost \in SUBSET UNION {Orphans(b) : b \in {x \in Parent : Stale(x)}} :
             status' = [b \in Bcast |-> IF b \in lost THEN "failed"
                                        ELSE IF Stale(b) THEN "pending" ELSE status[b]]
      BY <2>2, Zenon DEF RecoverStale
    <3>2. CASE c \in lost
      <4>1. status[c] = "pending"
        BY <3>1, <3>2 DEF Orphans
      <4> QED
        BY <2>1, <3>1, <3>2, <4>1 DEF Moves
    <3>3. CASE c \notin lost
      BY <1>0, <2>1, <3>1, <3>3 DEF Stale, Sendable
    <3> QED
      BY <3>2, <3>3
  <2>3. ASSUME NEW b \in Sendable, ClaimOneTime(s, b) PROVE Moves(c)
    <3>1. CASE Claimable(b) /\ b = c
      BY <2>1, <2>3, <3>1 DEF ClaimOneTime, ClaimRow, Claimable, Moves
    <3>2. CASE Claimable(b) /\ b # c
      BY <1>0, <2>1, <2>3, <3>2 DEF ClaimOneTime, ClaimRow, Claimable
    <3>3. CASE ~Claimable(b)
      BY <1>0, <2>1, <2>3, <3>3 DEF ClaimOneTime, rowVars
    <3> QED
      BY <3>1, <3>2, <3>3
  <2>4. ASSUME NEW b \in Parent, ClaimSeries(s, b) PROVE Moves(c)
    BY <1>0, <2>1, <2>4 DEF ClaimSeries, ClaimRow, rowVars, Sendable
  <2>5. ASSUME NEW d \in Child, CreateChild(s, d) PROVE Moves(c)
    <3>1. status' = [status EXCEPT ![d] = "pending"] /\ status[d] = "absent"
      BY <2>5 DEF CreateChild
    <3>2. CASE d = c
      BY <2>1, <3>1, <3>2 DEF Moves
    <3>3. CASE d # c
      BY <1>0, <2>1, <3>1, <3>3
    <3> QED
      BY <3>2, <3>3
  <2>6. CASE Advance(s)
    <3>1. cur[s] # c
      BY <2>6 DEF Advance, SchedTypes, SeriesInHand, InSeries, Sendable
    <3> QED
      BY <1>0, <2>1, <2>6, <3>1 DEF Advance
  <2>7. CASE ListDue(s) \/ TickDone(s) \/ SkipSeries(s) \/ EnterSeries(s)
             \/ ReadForReschedule(s)
    BY <1>0, <2>1, <2>7 DEF ListDue, TickDone, SkipSeries, EnterSeries, ReadForReschedule,
                            rowVars
  <2> QED
    BY <1>8, <2>2, <2>3, <2>4, <2>5, <2>6, <2>7 DEF SchedStep
<1>9. CASE TimePasses \/ (\E b \in Bcast : ComesDue(b)) \/ (\E p \in Proc : Crash(p))
           \/ UNCHANGED vars
  BY <1>0, <1>9 DEF TimePasses, ComesDue, Crash, vars, rowVars, histVars
<1> QED
  BY <1>1, <1>2, <1>3, <1>4, <1>5, <1>6, <1>7, <1>8, <1>9
     DEF Next, UserStep, Retry, BatchRetry

(* The pipeline implements the abstract life of a broadcast: one delivery  *)
(* per opening, settled once and never as "sent" without a delivery,       *)
(* opened again only after a failure and within broadcast_max_retries.     *)
THEOREM LifecycleImplemented ==
    ASSUME OneSchedulerOrNoSeries
    PROVE  Spec => ImplementsLifecycle
<1>1. Init => Lifecycle!LifecycleInit
  BY DispatchAssumption
     DEF DispatchAssumption, Init, Phase, Lifecycle!LifecycleInit, Bcast
<1>2. DispatchInv /\ [Next]_vars => [Lifecycle!LifecycleNext]_(Lifecycle!lifecycleVars)
  <2> SUFFICES ASSUME DispatchInv, [Next]_vars PROVE Lifecycle!LifecycleNext
    OBVIOUS
  <2>1. ASSUME NEW c \in Sendable PROVE Lifecycle!JobStep(c)
    BY <2>1, StepMoves, MoveIsJobStep DEF DispatchInv
  <2> QED
    BY <2>1 DEF Lifecycle!LifecycleNext
<1> QED
  BY <1>1, <1>2, DispatchInvHolds, PTL
     DEF Spec, ImplementsLifecycle, Lifecycle!LifecycleSpec

-----------------------------------------------------------------------------
(* Pausing a series.                                                       *)

(* A scheduler that is about to create an occurrence has looked at the     *)
(* pause: if the series is paused by now, it was paused since, and no      *)
(* other occurrence was created in between.                                *)
PauseInv ==
    /\ \A s \in Proc : spc[s] = "create" =>
          /\ s \in SchedProc /\ Child # {}
          /\ paused[cur[s]] => firedPaused[cur[s]] = 0
    /\ PauseStopsSeries

(* A step that neither creates an occurrence nor pauses anything. *)
LEMMA PauseFrame ==
    ASSUME PauseInv, UNCHANGED <<paused, firedPaused>>,
           \A s \in Proc : spc'[s] = "create" => spc[s] = "create" /\ cur'[s] = cur[s]
    PROVE  PauseInv'
BY DEF PauseInv, PauseStopsSeries

LEMMA PauseStep ==
    ASSUME OneSchedulerOrNoSeries
    PROVE  PauseInv /\ TypeOK /\ [Next]_vars => PauseInv'
<1> SUFFICES ASSUME PauseInv, TypeOK, [Next]_vars PROVE PauseInv'
  OBVIOUS
<1>0. /\ spc \in [Proc -> SPC] /\ cur \in [Proc -> Parent \cup {None}]
      /\ (\A s \in Proc : spc[s] \in InSeries => cur[s] \in Parent)
      /\ paused \in [Parent -> BOOLEAN] /\ firedPaused \in [Parent -> 0 .. 2]
  BY DEF TypeOK, SchedTypes, SchedFields, SeriesInHand, RowTypes, OtherTypes
<1>1. CASE UserStep \/ (\E p \in Proc, b \in Immediate : CreateImmediate(p, b)) \/ TimePasses
           \/ (\E b \in Bcast : ComesDue(b)) \/ (\E p \in Proc : WriteCancel(p)) \/ UNCHANGED vars
  <2>1. UNCHANGED <<paused, firedPaused, spc, cur>>
    BY <1>1 DEF UserStep, AdmitImmediate, CreateScheduled, Retry, BatchRetry, ReadSeries, CreateImmediate,
                TimePasses, ComesDue, WriteCancel, RetryRow, vars, rowVars, schedVars, histVars
  <2> QED
    BY <2>1, PauseFrame
<1>2. ASSUME NEW p \in Proc, WritePause(p) \/ WriteUnpause(p) PROVE PauseInv'
  <2>1. /\ UNCHANGED <<spc, cur>> /\ firedPaused' = [firedPaused EXCEPT ![api[p].b] = 0]
        /\ \E v \in BOOLEAN : paused' = [paused EXCEPT ![api[p].b] = v]
    BY <1>2 DEF WritePause, WriteUnpause, schedVars
  <2>2. \A b \in Parent : firedPaused'[b] = 0 \/ (firedPaused'[b] = firedPaused[b] /\ paused'[b] = paused[b])
    BY <1>0, <2>1
  <2>3. \A s \in Proc : spc[s] = "create" => cur[s] \in Parent
    BY <1>0 DEF InSeries
  <2>4. \A s \in Proc : spc'[s] = spc[s] /\ cur'[s] = cur[s]
    BY <2>1
  <2>5. PauseStopsSeries'
    BY <2>2 DEF PauseInv, PauseStopsSeries
  <2>6. ASSUME NEW s \in Proc, spc'[s] = "create"
        PROVE  s \in SchedProc /\ Child # {} /\ (paused'[cur'[s]] => firedPaused'[cur'[s]] = 0)
    <3>1. /\ spc[s] = "create" /\ cur'[s] = cur[s] /\ cur[s] \in Parent
          /\ s \in SchedProc /\ Child # {} /\ (paused[cur[s]] => firedPaused[cur[s]] = 0)
      BY <2>3, <2>4, <2>6 DEF PauseInv
    <3> QED
      BY <2>2, <3>1
  <2> QED
    BY <2>5, <2>6 DEF PauseInv
<1>3. ASSUME NEW p \in Proc, NEW b \in Bcast, RunStep(p, b) PROVE PauseInv'
  <2>1. UNCHANGED <<paused, firedPaused>>
    BY <1>3 DEF RunStep, Load, EarlyExit, Mark, AcquireSendLock, Delivered, TimedOut, DeliveryRaises, Finish,
                FinishTimedOut, CountDelivery, rowVars, histVars
  <2>2. UNCHANGED <<spc, cur>> \/ \E raises \in BOOLEAN : EndRun(p, b, raises)
    BY <1>3 DEF RunStep, Load, EarlyExit, Mark, AcquireSendLock, Delivered, TimedOut, DeliveryRaises, Finish,
                FinishTimedOut, schedVars
  <2>3. \A s \in Proc : spc'[s] = "create" => spc[s] = "create" /\ cur'[s] = cur[s]
    BY <1>0, <2>2 DEF EndRun
  <2> QED
    BY <2>1, <2>3, PauseFrame
<1>4. ASSUME NEW p \in Proc, Crash(p) PROVE PauseInv'
  <2>1. \A s \in Proc : spc'[s] = "create" => spc[s] = "create" /\ cur'[s] = cur[s]
    BY <1>0, <1>4 DEF Crash
  <2> QED
    BY <1>4, <2>1, PauseFrame DEF Crash, rowVars, histVars
<1>5. ASSUME NEW s \in SchedProc, SchedStep(s) PROVE PauseInv'
  <2>0. s \in Proc
    BY DispatchAssumption DEF DispatchAssumption
  <2>1. CASE EnterSeries(s)
    <3>1. /\ ~paused[cur[s]] /\ Child # {} /\ UNCHANGED <<paused, firedPaused, cur>>
          /\ spc' = [spc EXCEPT ![s] = "create"]
      BY <2>1 DEF EnterSeries, Halted, rowVars, histVars
    <3> QED
      BY <1>0, <2>0, <3>1 DEF PauseInv, PauseStopsSeries
  <2>2. ASSUME NEW c \in Child, CreateChild(s, c) PROVE PauseInv'
    <3>1. /\ spc[s] = "create" /\ spc' = [spc EXCEPT ![s] = "child"] /\ UNCHANGED <<paused, cur>>
          /\ cur[s] \in Parent
          /\ \/ paused[cur[s]] /\ firedPaused' = [firedPaused EXCEPT ![cur[s]] = AddOne(firedPaused[cur[s]], 2)]
             \/ UNCHANGED firedPaused
      BY <1>0, <2>0, <2>2 DEF CreateChild, InSeries
    <3>2. paused[cur[s]] => firedPaused[cur[s]] = 0
      BY <2>0, <3>1 DEF PauseInv
    <3>3. \A b \in Parent : firedPaused'[b] <= 1
      BY <1>0, <3>1, <3>2 DEF PauseInv, PauseStopsSeries, AddOne
    <3>4. \A t \in Proc : spc'[t] # "create"
      BY <1>0, <2>0, <3>1 DEF PauseInv, OneSchedulerOrNoSeries
    <3> QED
      BY <3>3, <3>4 DEF PauseInv, PauseStopsSeries
  <2>3. CASE ~EnterSeries(s) /\ ~\E c \in Child : CreateChild(s, c)
    <3>1. UNCHANGED <<paused, firedPaused>>
      BY <1>5, <2>3 DEF SchedStep, RecoverStale, ListDue, ClaimOneTime, TickDone, ClaimSeries, SkipSeries,
                        ReadForReschedule, Advance, ClaimRow, rowVars, histVars
    <3>2. \A t \in Proc : spc'[t] = "create" => spc[t] = "create" /\ cur'[t] = cur[t]
      BY <1>0, <1>5, <2>0, <2>3
         DEF SchedStep, RecoverStale, ListDue, ClaimOneTime, TickDone, ClaimSeries, SkipSeries,
             ReadForReschedule, Advance, Gathered
    <3> QED
      BY <3>1, <3>2, PauseFrame
  <2> QED
    BY <2>1, <2>2, <2>3
<1> QED
  BY <1>1, <1>2, <1>3, <1>4, <1>5 DEF Next, WriteSeries

(* After a pause at most the occurrence already under way is created:      *)
(* process_recurring_parent looks at is_paused just before it inserts one. *)
THEOREM PauseStopsSeriesHolds ==
    ASSUME OneSchedulerOrNoSeries
    PROVE  Spec => []PauseStopsSeries
<1>1. Init => PauseInv
  BY DEF Init, PauseInv, PauseStopsSeries
<1>2. PauseInv => PauseStopsSeries
  BY DEF PauseInv
<1> QED
  BY <1>1, <1>2, PauseStep, DispatchTyped, PTL DEF Spec

-----------------------------------------------------------------------------
(* What a cancel achieves.                                                 *)

(* The series is cancelled and nobody is in the middle of it.              *)
Settled(b) == status[b] = "cancelled" /\ \A p \in Proc : pc[p][b] = "idle" /\ cur[p] # b

(* "The scheduler will never dispatch this broadcast again" (the docstring *)
(* of cancel_broadcast), from the moment at which no tick and no delivery  *)
(* has the series in hand: it stays cancelled, stays out of every tick,    *)
(* and none of its occurrences is created.                                 *)
CancelSettles ==
    [][\A b \in Parent : Settled(b) =>
          /\ Settled(b)'
          /\ \A s \in SchedProc, c \in Child : CreateChild(s, c) => ParentOf[c] # b]_vars

(* Steps that leave the series, its runs and the ticks as they are.        *)
LEMMA SettledFrame ==
    ASSUME NEW b \in Parent, Settled(b), status'[b] = status[b],
           \A p \in Proc : pc'[p][b] = pc[p][b] /\ (cur'[p] = cur[p] \/ cur'[p] = None)
    PROVE  Settled(b)'
BY DispatchAssumption DEF DispatchAssumption, Settled, Bcast

LEMMA SettledStep == TypeOK /\ [Next]_vars => \A b \in Parent : Settled(b) => Settled(b)'
<1> SUFFICES ASSUME TypeOK, [Next]_vars, NEW b \in Parent, Settled(b) PROVE Settled(b)'
  OBVIOUS
<1>0. /\ status \in [Bcast -> Status] /\ pc \in [Proc -> [Bcast -> PC]]
      /\ cur \in [Proc -> Parent \cup {None}] /\ b \in Bcast /\ b \notin Sendable
      /\ status[b] = "cancelled" /\ (\A p \in Proc : pc[p][b] = "idle" /\ cur[p] # b)
  BY DispatchAssumption DEF DispatchAssumption, TypeOK, RowTypes, RunTypes, SchedTypes, SchedFields,
     Bcast, Sendable, Settled
<1>1. ASSUME NEW p \in Proc, NEW c \in Bcast, AdmitImmediate(p, c) PROVE Settled(b)'
  <2>1. c # b /\ UNCHANGED <<status, cur>>
    BY <1>0, <1>1 DEF AdmitImmediate, rowVars, schedVars
  <2>2. \A q \in Proc : pc'[q][b] = pc[q][b]
    BY <1>0, <1>1, <2>1 DEF AdmitImmediate
  <2> QED
    BY <2>1, <2>2, SettledFrame
<1>2. ASSUME NEW p \in Proc, NEW c \in Bcast, CreateImmediate(p, c) PROVE Settled(b)'
  <2>1. c # b /\ UNCHANGED cur
    BY <1>0, <1>2 DEF CreateImmediate, schedVars
  <2>2. status'[b] = status[b] /\ \A q \in Proc : pc'[q][b] = pc[q][b]
    BY <1>0, <1>2, <2>1 DEF CreateImmediate
  <2> QED
    BY <2>1, <2>2, SettledFrame
<1>3. ASSUME NEW c \in Bcast, CreateScheduled(c) \/ BatchRetry(c) PROVE Settled(b)'
  <2>1. c # b /\ UNCHANGED <<pc, cur>>
    BY <1>0, <1>3 DEF CreateScheduled, BatchRetry, RetryRow, Retryable, runVars, schedVars
  <2>2. status'[b] = status[b]
    BY <1>0, <1>3, <2>1 DEF CreateScheduled, BatchRetry, RetryRow
  <2> QED
    BY <2>1, <2>2, SettledFrame
<1>4. ASSUME NEW p \in Proc, NEW c \in Sendable, NEW noLimit \in BOOLEAN, Retry(p, c, noLimit)
      PROVE  Settled(b)'
  <2>1. c # b /\ c \in Bcast /\ UNCHANGED cur
    BY <1>0, <1>4 DEF Retry, schedVars, Bcast
  <2>2. status'[b] = status[b] /\ \A q \in Proc : pc'[q][b] = pc[q][b]
    BY <1>0, <1>4, <2>1 DEF Retry, RetryRow
  <2> QED
    BY <2>1, <2>2, SettledFrame
<1>5. ASSUME NEW p \in Proc, WriteSeries(p) PROVE Settled(b)'
  <2>1. UNCHANGED <<pc, cur>>
    BY <1>5 DEF WriteSeries, WriteCancel, WritePause, WriteUnpause, runVars, schedVars
  <2>2. status'[b] = status[b]
    BY <1>0, <1>5 DEF WriteSeries, WriteCancel, WritePause, WriteUnpause
  <2> QED
    BY <2>1, <2>2, SettledFrame
<1>6. ASSUME NEW p \in Proc, NEW c \in Bcast, RunStep(p, c) PROVE Settled(b)'
  <2>1. c # b
    BY <1>0, <1>6 DEF RunStep, Load, EarlyExit, Mark, AcquireSendLock, Delivered, TimedOut,
       DeliveryRaises, Finish, FinishTimedOut
  <2>2. \/ UNCHANGED status
        \/ \E x : status' = [status EXCEPT ![c] = x]
    BY <1>6 DEF RunStep, Load, EarlyExit, Mark, AcquireSendLock, Delivered, TimedOut,
       DeliveryRaises, Finish, FinishTimedOut, rowVars
  <2>3. \E x : pc' = [pc EXCEPT ![p][c] = x]
    BY <1>6 DEF RunStep, Load, EarlyExit, Mark, AcquireSendLock, Delivered, TimedOut,
       DeliveryRaises, Finish, FinishTimedOut, EndRun
  <2>4. UNCHANGED cur \/ \E x : cur' = [cur EXCEPT ![p] = IF x THEN None ELSE cur[p]]
    BY <1>6 DEF RunStep, Load, EarlyExit, Mark, AcquireSendLock, Delivered, TimedOut,
       DeliveryRaises, Finish, FinishTimedOut, EndRun, schedVars
  <2>5. status'[b] = status[b]
    BY <1>0, <2>1, <2>2
  <2>6. \A q \in Proc : pc'[q][b] = pc[q][b]
    BY <1>0, <2>1, <2>3
  <2>7. \A q \in Proc : cur'[q] = cur[q] \/ cur'[q] = None
    BY <1>0, <2>4
  <2> QED
    BY <2>5, <2>6, <2>7, SettledFrame
<1>7. ASSUME NEW s \in SchedProc, SchedStep(s) PROVE Settled(b)'
  <2>0. s \in Proc
    BY DispatchAssumption DEF DispatchAssumption
  <2>1. CASE RecoverStale(s)
    <3>1. PICK lost \in SUBSET UNION {Orphans(c) : c \in {x \in Parent : Stale(x)}} :
             status' = [c \in Bcast |-> IF c \in lost THEN "failed"
                                        ELSE IF Stale(c) THEN "pending" ELSE status[c]]
      BY <2>1 DEF RecoverStale
    <3>2. b \notin lost
      BY <1>0, <3>1 DEF Orphans, Sendable
    <3>3. ~Stale(b)
      BY <1>0 DEF Stale
    <3>4. status'[b] = status[b]
      BY <1>0, <3>1, <3>2, <3>3
    <3> QED
      BY <2>1, <3>4, SettledFrame DEF RecoverStale, runVars
  <2>2. CASE ListDue(s) \/ TickDone(s) \/ EnterSeries(s)
    <3>1. UNCHANGED <<status, pc, cur>>
      BY <2>2 DEF ListDue, TickDone, EnterSeries, rowVars, runVars
    <3> QED
      BY <3>1, SettledFrame
  <2>3. ASSUME NEW c \in Sendable, ClaimOneTime(s, c) PROVE Settled(b)'
    <3>1. c # b /\ UNCHANGED cur
      BY <1>0, <2>3 DEF ClaimOneTime
    <3>2. status'[b] = status[b] /\ \A q \in Proc : pc'[q][b] = pc[q][b]
      BY <1>0, <2>0, <2>3, <3>1 DEF ClaimOneTime, ClaimRow, rowVars
    <3> QED
      BY <3>1, <3>2, SettledFrame
  <2>4. ASSUME NEW c \in Parent, ClaimSeries(s, c) PROVE Settled(b)'
    <3>1. CASE Claimable(c)
      <4>1. c # b
        BY <1>0, <3>1 DEF Claimable
      <4>2. /\ status' = [status EXCEPT ![c] = "sending"] /\ cur' = [cur EXCEPT ![s] = c]
            /\ UNCHANGED pc
        BY <2>4, <3>1 DEF ClaimSeries, ClaimRow, runVars
      <4> QED
        BY <1>0, <4>1, <4>2 DEF Settled
    <3>2. CASE ~Claimable(c)
      BY <2>4, <3>2, SettledFrame DEF ClaimSeries, rowVars, runVars
    <3> QED
      BY <3>1, <3>2
  <2>5. CASE SkipSeries(s) \/ ReadForReschedule(s)
    <3>1. /\ UNCHANGED <<status, pc>>
          /\ UNCHANGED cur \/ cur' = [cur EXCEPT ![s] = None]
      BY <2>5 DEF SkipSeries, ReadForReschedule, rowVars, runVars
    <3>2. \A q \in Proc : cur'[q] = cur[q] \/ cur'[q] = None
      BY <1>0, <3>1
    <3> QED
      BY <3>1, <3>2, SettledFrame
  <2>6. ASSUME NEW c \in Child, CreateChild(s, c) PROVE Settled(b)'
    <3>1. c # b /\ c \in Bcast /\ UNCHANGED cur
      BY <1>0, <2>6 DEF CreateChild, Sendable, Bcast
    <3>2. status'[b] = status[b] /\ \A q \in Proc : pc'[q][b] = pc[q][b]
      BY <1>0, <2>0, <2>6, <3>1 DEF CreateChild
    <3> QED
      BY <3>1, <3>2, SettledFrame
  <2>7. CASE Advance(s)
    <3>1. /\ cur[s] # b /\ cur' = [cur EXCEPT ![s] = None] /\ UNCHANGED pc
          /\ status' = [status EXCEPT ![cur[s]] = Flushed(cur[s], found[s], "pending")]
      BY <1>0, <2>0, <2>7 DEF Advance, runVars
    <3>2. status'[b] = status[b] /\ \A q \in Proc : cur'[q] = cur[q] \/ cur'[q] = None
      BY <1>0, <3>1
    <3> QED
      BY <3>1, <3>2, SettledFrame
  <2> QED
    BY <1>7, <2>1, <2>2, <2>3, <2>4, <2>5, <2>6, <2>7 DEF SchedStep
<1>8. ASSUME NEW p \in Proc, Crash(p) PROVE Settled(b)'
  <2>1. status'[b] = status[b]
    BY <1>8 DEF Crash, rowVars
  <2>2. \A q \in Proc : pc'[q][b] = "idle" /\ (cur'[q] = cur[q] \/ cur'[q] = None)
    BY <1>0, <1>8 DEF Crash
  <2> QED
    BY <1>0, <2>1, <2>2, SettledFrame
<1>9. CASE TimePasses \/ (\E c \in Bcast : ComesDue(c)) \/ UNCHANGED vars
           \/ \E p \in Proc, c \in Parent, op \in {"cancel", "pause", "unpause"} : ReadSeries(p, c, op)
  <2>1. UNCHANGED <<status, pc, cur>>
    BY <1>9 DEF TimePasses, ComesDue, ReadSeries, vars, rowVars, runVars, schedVars
  <2> QED
    BY <2>1, SettledFrame
<1>10. Immediate \subseteq Bcast /\ OneTime \cup Parent \subseteq Bcast
  BY DispatchAssumption DEF DispatchAssumption, Bcast, Sendable
<1> QED
  BY <1>1, <1>2, <1>3, <1>4, <1>5, <1>6, <1>7, <1>8, <1>9, <1>10 DEF Next, UserStep

(* CancelIsFinal fails, because a reschedule that has read the series may  *)
(* still write it; once nobody has it in hand a cancel is for ever, with   *)
(* any number of schedulers.                                               *)
THEOREM CancelSettlesHolds == Spec => CancelSettles
<1>1. TypeOK /\ [Next]_vars =>
        [\A b \in Parent : Settled(b) =>
            /\ Settled(b)'
            /\ \A s \in SchedProc, c \in Child : CreateChild(s, c) => ParentOf[c] # b]_vars
  <2> SUFFICES ASSUME TypeOK, [Next]_vars, NEW b \in Parent, Settled(b)
               PROVE  /\ Settled(b)'
                      /\ \A s \in SchedProc, c \in Child : CreateChild(s, c) => ParentOf[c] # b
    OBVIOUS
  <2>1. Settled(b)'
    BY SettledStep
  <2>2. ASSUME NEW s \in SchedProc, NEW c \in Child, CreateChild(s, c) PROVE ParentOf[c] # b
    BY <2>2, DispatchAssumption DEF DispatchAssumption, CreateChild, Settled
  <2> QED
    BY <2>1, <2>2
<1> QED
  BY <1>1, DispatchTyped, PTL DEF Spec, CancelSettles
=============================================================================
