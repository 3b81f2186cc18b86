---------------------------- MODULE Payments_proofs ----------------------------
(***************************************************************************)
(* Proofs about the payments of plans: UsdtDeposits, for every finite set  *)
(* of transfers, any number of payers, jobs and requests, and any bound on *)
(* the faults; CryptoInvoices, for every number of invoices, jobs and      *)
(* webhook requests, and any bound on the faults.                          *)
(***************************************************************************)
EXTENDS MCProgress, BroadcastDispatch_proofs, FiniteSetTheorems, WellFoundedInduction, TLAPS

-----------------------------------------------------------------------------
(* Transfers: the newest of some of them.                                  *)

(* A set of naturals that has a bound has a greatest member.               *)
LEMMA Greatest ==
    ASSUME NEW S \in SUBSET Nat, S # {}, NEW n \in Nat, \A x \in S : x <= n
    PROVE  \E m \in S : \A x \in S : m >= x
<1> DEFINE T == {n - x : x \in S}
<1>1. T \in SUBSET Nat /\ T # {}
  <2>1. \A x \in S : n - x \in Nat
    OBVIOUS
  <2>2. PICK x \in S : TRUE
    OBVIOUS
  <2>3. n - x \in T
    OBVIOUS
  <2> QED
    BY <2>1, <2>3
<1>2. \E m \in T : \A y \in T : ~ (<<y, m>> \in OpToRel(<, Nat))
  BY <1>1, NatLessThanWellFounded, WFMin
<1>3. PICK m \in T : \A y \in T : ~ (y < m)
  BY <1>1, <1>2 DEF OpToRel
<1>4. PICK x \in S : m = n - x
  OBVIOUS
<1>5. \A z \in S : x >= z
  <2> TAKE z \in S
  <2>1. ~ (n - z < m)
    BY <1>3
  <2> QED
    BY <2>1, <1>4
<1> QED
  BY <1>5

(* The types, in three parts. *)
PayersTyped ==
    /\ sub \in [Payer -> {"active", "expired", "pending", "canceled"}]
    /\ ref \in [Payer -> 0 .. MaxRefs] /\ refs \in 0 .. MaxRefs
    /\ referred \subseteq Payer

RecordsTyped ==
    /\ dep \in [Deposit -> [time : 0 .. Cardinality(Deposit), memo : 0 .. MaxRefs, enough : BOOLEAN]]
    /\ record \in [Deposit -> {"none", "unmatched", "completed"}]
    /\ owner \in [Deposit -> Payer \cup {Nobody}] /\ claimed \in [Deposit -> BOOLEAN]
    /\ activated \in [Deposit -> 0 .. 2] /\ issued \in [Deposit -> 0 .. 2]
    /\ handed \in [Deposit -> 0 .. 2]

ActorsTyped ==
    /\ watch \in [Watcher -> Hand] /\ clerk \in [Clerk -> Hand]
    /\ ufaults \in 0 .. UsdtFaults
    /\ hindered \subseteq Deposit /\ claimRaced \subseteq Deposit

(* An actor past looking a transfer up has one; a clerk has one of its own *)
(* from the start.                                                         *)
InHand ==
    /\ \A w \in Watcher : watch[w].pc \in {"match", "issue"} <=> watch[w].tx # Nobody
    /\ \A w \in Watcher : watch[w].pc = "issue" => watch[w].payer \in Payer
    /\ \A c \in Clerk : clerk[c] = Idle \/ clerk[c].pc \in {"activate", "issue", "claim"}
    /\ \A c \in Clerk : clerk[c].pc \in {"activate", "issue", "claim"} <=> clerk[c].tx # Nobody
    /\ \A c \in Clerk : clerk[c].pc \in {"activate", "issue"} => clerk[c].payer \in Payer

LEMMA DepositsFinite ==
    /\ Cardinality(Deposit) \in Nat
    /\ \A S \in SUBSET Deposit : IsFiniteSet(S) /\ Cardinality(S) \in Nat
                                 /\ Cardinality(S) <= Cardinality(Deposit)
BY UsdtAssumption, FS_CardinalityType, FS_Subset DEF UsdtAssumption

LEMMA IdleTyped == Idle \in Hand /\ Idle.pc = "idle" /\ Idle.tx = Nobody
<1>1. 0 \in 0 .. Cardinality(Deposit)
  BY DepositsFinite
<1> QED
  BY <1>1 DEF Idle, Hand, UPC

LEMMA NewestIsMember ==
    ASSUME RecordsTyped, NEW S \in SUBSET Deposit, S # {}
    PROVE  Newest(S) \in S
<1> DEFINE times == {dep[x].time : x \in S}
<1>1. \A x \in S : dep[x].time \in 0 .. Cardinality(Deposit)
  BY DEF RecordsTyped
<1>2. times \in SUBSET Nat /\ (\A n \in times : n <= Cardinality(Deposit))
  BY <1>1, DepositsFinite
<1>3. times # {}
  <2>1. PICK x \in S : TRUE
    OBVIOUS
  <2>2. dep[x].time \in times
    OBVIOUS
  <2> QED
    BY <2>2
<1> HIDE DEF times
<1>4. PICK m \in times : \A n \in times : m >= n
  BY <1>2, <1>3, DepositsFinite, Greatest
<1>5. PICK x \in S : m = dep[x].time
  BY <1>4 DEF times
<1>6. \A y \in S : dep[y].time \in times
  BY DEF times
<1>7. \A y \in S : dep[y].time <= dep[x].time
  BY <1>1, <1>4, <1>5, <1>6, DepositsFinite
<1> QED
  BY <1>5, <1>7 DEF Newest

LEMMA WatermarkTyped == RecordsTyped => Watermark \in 0 .. Cardinality(Deposit)
<1> SUFFICES ASSUME RecordsTyped PROVE Watermark \in 0 .. Cardinality(Deposit)
  OBVIOUS
<1> DEFINE times == {0} \cup {dep[x].time : x \in {y \in Deposit : record[y] # "none"}}
<1>1. times \in SUBSET (0 .. Cardinality(Deposit))
  BY DepositsFinite DEF RecordsTyped
<1>2. 0 \in times
  OBVIOUS
<1> HIDE DEF times
<1>3. \E m \in times : \A n \in times : m >= n
  <2>1. times \in SUBSET Nat /\ \A n \in times : n <= Cardinality(Deposit)
    BY <1>1, DepositsFinite
  <2> QED
    BY <1>2, <2>1, DepositsFinite, Greatest
<1>4. Max(times) \in times
  BY <1>3 DEF Max
<1>5. Max(times) = Watermark
  BY DEF times, Watermark
<1> QED
  BY <1>1, <1>4, <1>5

(* A transfer comes after those that were sent before it. *)
LEMMA TransferTime ==
    ASSUME NEW x \in Deposit, dep[x] = Unsent
    PROVE  Cardinality(Sent) + 1 \in 0 .. Cardinality(Deposit)
<1>1. x \notin Sent /\ Sent \in SUBSET Deposit
  BY DEF Sent, Unsent
<1>2. IsFiniteSet(Sent) /\ Cardinality(Sent \cup {x}) = Cardinality(Sent) + 1
  BY <1>1, DepositsFinite, FS_AddElement
<1>3. Sent \cup {x} \in SUBSET Deposit
  BY <1>1
<1>4. Cardinality(Sent) \in Nat
  BY <1>1, DepositsFinite
<1>5. Cardinality(Sent \cup {x}) <= Cardinality(Deposit)
  BY <1>3, DepositsFinite
<1> QED
  BY <1>2, <1>4, <1>5, DepositsFinite

PaymentTyped == PayersTyped /\ RecordsTyped /\ ActorsTyped /\ InHand

LEMMA PaymentInitially == UsdtInit => PaymentTyped
BY UsdtAssumption, DepositsFinite
DEF UsdtInit, UsdtAssumption, PaymentTyped, PayersTyped, RecordsTyped, ActorsTyped, InHand,
    Unsent, Idle, Hand, UPC

(* What payers and the chain do. *)
LEMMA PayerTyped ==
    ASSUME PaymentTyped,
           \/ \E t \in Payer : RequestKey(t) \/ CreateUsdtInvoice(t) \/ CancelSubscription(t) \/ PeriodOver(t)
           \/ \E x \in Deposit : Transfer(x)
    PROVE  PaymentTyped'
<1> USE UsdtAssumption DEF UsdtAssumption, PaymentTyped
<1>1. ASSUME NEW t \in Payer,
             RequestKey(t) \/ CreateUsdtInvoice(t) \/ CancelSubscription(t) \/ PeriodOver(t)
      PROVE  PaymentTyped'
  <2>1. UNCHANGED <<dep, recU, watch, clerk, ufaults, histU>>
    BY <1>1 DEF RequestKey, CreateUsdtInvoice, CancelSubscription, PeriodOver
  <2>2. PayersTyped'
    BY <1>1 DEF RequestKey, CreateUsdtInvoice, CancelSubscription, PeriodOver, PayersTyped
  <2>3. RecordsTyped' /\ ActorsTyped' /\ InHand'
    BY <2>1 DEF RecordsTyped, ActorsTyped, InHand, recU, histU
  <2> QED
    BY <2>2, <2>3
<1>2. ASSUME NEW x \in Deposit, Transfer(x) PROVE PaymentTyped'
  <2>1. PayersTyped' /\ ActorsTyped' /\ InHand'
    BY <1>2 DEF Transfer, PayersTyped, ActorsTyped, InHand, rowU, histU
  <2>2. dep[x] = Unsent
    BY <1>2 DEF Transfer
  <2>3. Cardinality(Sent) + 1 \in 0 .. Cardinality(Deposit)
    BY <2>2, TransferTime
  <2>4. RecordsTyped'
    BY <1>2, <2>3 DEF Transfer, RecordsTyped, PayersTyped, recU, histU
  <2> QED
    BY <2>1, <2>4
<1> QED
  BY <1>1, <1>2

(* What the job does before it has a payer. *)
LEMMA LookingTyped ==
    ASSUME PaymentTyped, NEW w \in Watcher,
           ReadWatermark(w) \/ FetchPage(w) \/ FetchFails(w) \/ LookUp(w)
    PROVE  PaymentTyped'
<1> USE UsdtAssumption DEF UsdtAssumption, PaymentTyped
<1>1. UNCHANGED <<rowU, dep, recU, clerk, activated, issued, handed, claimRaced>>
  BY DEF ReadWatermark, FetchPage, FetchFails, LookUp, histU
<1>2. PayersTyped' /\ RecordsTyped'
  BY <1>1 DEF PayersTyped, RecordsTyped, rowU, recU
<1>3. CASE ReadWatermark(w)
  BY <1>2, <1>3, WatermarkTyped DEF ReadWatermark, ActorsTyped, InHand, Idle, Hand, UPC, histU
<1>4. CASE FetchPage(w)
  <2> DEFINE page  == Page(watch[w].mark)
             hand0 == [Idle EXCEPT !.pc = "next", !.todo = page]
  <2>1. page \in SUBSET Deposit
    BY DEF Page, NewestOf, Sent
  <2>2. hand0 \in Hand /\ hand0.pc = "next" /\ hand0.tx = Nobody
    <3> HIDE DEF page
    <3> QED
      BY <2>1, IdleTyped DEF Hand, UPC
  <2>7. watch' = [watch EXCEPT ![w] = hand0]
    BY <1>4 DEF FetchPage
  <2> HIDE DEF hand0
  <2>3. UNCHANGED <<clerk, ufaults, hindered, claimRaced>>
    BY <1>4 DEF FetchPage, histU
  <2>4. ActorsTyped'
    BY <2>2, <2>3, <2>7 DEF ActorsTyped
  <2>5. /\ watch'[w].pc = "next" /\ watch'[w].tx = Nobody
        /\ \A v \in Watcher \ {w} : watch'[v] = watch[v]
    BY <2>2, <2>7 DEF ActorsTyped
  <2>6. InHand'
    BY <2>3, <2>5 DEF InHand
  <2> QED
    BY <1>2, <2>4, <2>6
<1>5. CASE FetchFails(w)
  BY <1>2, <1>5, DepositsFinite DEF FetchFails, ActorsTyped, InHand, Idle, Hand, UPC, histU
<1>6. CASE LookUp(w)
  <2> DEFINE rest == watch[w].todo
             x == Newest(rest)
  <2>1. rest \in SUBSET Deposit /\ watch[w].pc = "next"
    BY <1>6 DEF ActorsTyped, Hand, LookUp
  <2>2. CASE rest = {}
    <3>1. watch' = [watch EXCEPT ![w] = Idle] /\ UNCHANGED <<hindered, clerk, ufaults, claimRaced>>
      BY <1>6, <2>2 DEF LookUp
    <3> QED
      BY <1>2, <2>1, <3>1, DepositsFinite DEF ActorsTyped, InHand, Idle, Hand, UPC
  <2>3. CASE rest # {} /\ Taken(x)
    <3>1. /\ watch' = [watch EXCEPT ![w] = [@ EXCEPT !.todo = rest \ {x}]]
          /\ UNCHANGED <<hindered, clerk, ufaults, claimRaced>>
      BY <1>6, <2>3 DEF LookUp
    <3> QED
      BY <1>2, <2>1, <3>1 DEF ActorsTyped, InHand, Idle, Hand, UPC
  <2>4. CASE rest # {} /\ ~Taken(x)
    <3>1. x \in Deposit
      BY <2>1, <2>4, NewestIsMember
    <3>2. /\ watch' = [watch EXCEPT ![w] = [@ EXCEPT !.pc = "match", !.todo = rest \ {x}, !.tx = x]]
          /\ hindered' \in {hindered, hindered \cup {x}}
          /\ UNCHANGED <<clerk, ufaults, claimRaced>>
      BY <1>6, <2>4 DEF LookUp, NoteTaken
    <3>3. ActorsTyped'
      <4>1. [watch[w] EXCEPT !.pc = "match", !.todo = rest \ {x}, !.tx = x] \in Hand
        BY <2>1, <3>1 DEF ActorsTyped, Hand, UPC
      <4> QED
        BY <3>1, <3>2, <4>1 DEF ActorsTyped
    <3>4. /\ watch'[w].pc = "match" /\ watch'[w].tx = x
          /\ \A v \in Watcher \ {w} : watch'[v] = watch[v]
      BY <3>2 DEF ActorsTyped, Hand
    <3>5. InHand'
      BY <3>1, <3>2, <3>4 DEF InHand
    <3> QED
      BY <1>2, <3>3, <3>5
  <2> QED
    BY <2>2, <2>3, <2>4
<1> QED
  BY <1>3, <1>4, <1>5, <1>6

LEMMA WriteTyped ==
    ASSUME RecordsTyped, NEW x \in Deposit, NEW t \in Payer, WriteRecord(x, t),
           UNCHANGED <<dep, activated, handed>>
    PROVE  RecordsTyped'
<1>1. CASE Taken(x)
  BY <1>1 DEF WriteRecord, RecordsTyped, recU
<1>2. CASE ~Taken(x)
  <2>1. issued' = [issued EXCEPT ![x] = Twice(issued[x])] /\ UNCHANGED claimed
        /\ record' = [record EXCEPT ![x] = "completed"] /\ owner' = [owner EXCEPT ![x] = t]
    BY <1>2 DEF WriteRecord
  <2>2. Twice(issued[x]) \in 0 .. 2
    BY DEF RecordsTyped, Twice
  <2> QED
    BY <2>1, <2>2 DEF RecordsTyped
<1> QED
  BY <1>1, <1>2

(* What the job does with a transfer. *)
LEMMA MatchingTyped ==
    ASSUME PaymentTyped, NEW w \in Watcher,
           Unmatched(w) \/ AmountMismatch(w) \/ ActivatePlan(w) \/ IssueKey(w) \/ WatcherCrash(w)
    PROVE  PaymentTyped'
<1> USE UsdtAssumption DEF UsdtAssumption, PaymentTyped
<1> DEFINE x == watch[w].tx
<1>1. x \in Deposit \cup {Nobody} /\ (watch[w].pc \in {"match", "issue"} => x \in Deposit)
  BY DEF ActorsTyped, InHand, Hand
<1>2. /\ Idle \in Hand /\ Idle.pc = "idle" /\ Idle.tx = Nobody
      /\ [watch[w] EXCEPT !.pc = "next", !.tx = Nobody, !.payer = Nobody] \in Hand
  BY IdleTyped DEF Hand, UPC, ActorsTyped
<1>3. ASSUME NextTx(w) \/ AbortTick(w), UNCHANGED <<clerk, claimRaced>>,
             ufaults' \in 0 .. UsdtFaults, hindered' \subseteq Deposit
      PROVE  ActorsTyped' /\ InHand'
  <2>1. PICK h \in Hand : watch' = [watch EXCEPT ![w] = h] /\ h.pc \in {"next", "idle"} /\ h.tx = Nobody
    BY <1>2, <1>3 DEF NextTx, AbortTick, ActorsTyped, Hand
  <2>2. \A v \in Watcher : watch'[v] = IF v = w THEN h ELSE watch[v]
    BY <2>1 DEF ActorsTyped
  <2> QED
    BY <1>3, <2>1, <2>2 DEF ActorsTyped, InHand
<1>4. CASE Unmatched(w)
  <2>1. PayersTyped' /\ RecordsTyped'
    BY <1>4 DEF Unmatched, PayersTyped, RecordsTyped, rowU, histU
  <2>2. (NextTx(w) \/ AbortTick(w)) /\ UNCHANGED <<clerk, ufaults, hindered, claimRaced>>
    BY <1>4 DEF Unmatched, histU
  <2> QED
    BY <1>3, <2>1, <2>2 DEF ActorsTyped
<1>5. CASE AmountMismatch(w)
  <2>1. PayersTyped' /\ RecordsTyped'
    BY <1>5 DEF AmountMismatch, PayersTyped, RecordsTyped, rowU, recU, histU
  <2>2. NextTx(w) /\ UNCHANGED <<clerk, ufaults, hindered, claimRaced>>
    BY <1>5 DEF AmountMismatch, histU
  <2> QED
    BY <1>3, <2>1, <2>2 DEF ActorsTyped
<1>6. CASE ActivatePlan(w)
  <2>1. PICK t \in Payer : /\ Activate(x, t)
                           /\ watch' = [watch EXCEPT ![w] = [@ EXCEPT !.pc = "issue", !.payer = t]]
    BY <1>6 DEF ActivatePlan, Matching
  <2>2. watch[w].pc = "match" /\ UNCHANGED <<dep, recU, clerk, ufaults>>
    BY <1>6 DEF ActivatePlan
  <2>3. PayersTyped' /\ RecordsTyped'
    BY <1>1, <2>1, <2>2 DEF Activate, PayersTyped, RecordsTyped, recU, Twice
  <2>4. [watch[w] EXCEPT !.pc = "issue", !.payer = t] \in Hand
    BY <2>2 DEF ActorsTyped, Hand, UPC
  <2>5. \A v \in Watcher : watch'[v] = IF v = w THEN [watch[w] EXCEPT !.pc = "issue", !.payer = t]
                                       ELSE watch[v]
    BY <2>1 DEF ActorsTyped
  <2>6. watch'[w].pc = "issue" /\ watch'[w].payer = t /\ watch'[w].tx = x
    BY <2>5 DEF ActorsTyped, Hand
  <2>7. ActorsTyped'
    BY <2>1, <2>2, <2>4 DEF Activate, ActorsTyped
  <2>8. InHand'
    BY <2>2, <2>5, <2>6 DEF InHand
  <2> QED
    BY <2>3, <2>7, <2>8
<1>7. CASE IssueKey(w)
  <2>1. watch[w].pc = "issue" /\ watch[w].payer \in Payer
    BY <1>7 DEF IssueKey, InHand
  <2>2. PayersTyped' /\ RecordsTyped'
    <3>1. PayersTyped' /\ UNCHANGED <<dep, activated, handed>>
      BY <1>7 DEF IssueKey, PayersTyped, rowU
    <3>2. WriteRecord(x, watch[w].payer) \/ UNCHANGED <<recU, issued>>
      BY <1>7 DEF IssueKey
    <3> QED
      BY <1>1, <2>1, <3>1, <3>2, WriteTyped DEF RecordsTyped, recU
  <2>3. /\ NextTx(w) \/ AbortTick(w)
        /\ hindered' \in {hindered, hindered \cup {x}}
        /\ UNCHANGED <<clerk, ufaults, claimRaced>>
    BY <1>7 DEF IssueKey
  <2> QED
    BY <1>1, <1>3, <2>1, <2>2, <2>3 DEF ActorsTyped
<1>8. CASE WatcherCrash(w)
  <2>1. PayersTyped' /\ RecordsTyped'
    BY <1>8 DEF WatcherCrash, PayersTyped, RecordsTyped, rowU, recU
  <2>2. AbortTick(w) /\ UNCHANGED <<clerk, claimRaced>> /\ ufaults' \in 0 .. UsdtFaults
        /\ hindered' \subseteq Deposit
    BY <1>1, <1>8 DEF WatcherCrash, AbortTick, ActorsTyped
  <2> QED
    BY <1>3, <2>1, <2>2
<1> QED
  BY <1>4, <1>5, <1>6, <1>7, <1>8

(* What requests do. *)
LEMMA ClerksTyped ==
    ASSUME PaymentTyped, NEW c \in Clerk,
           \/ \E t \in Payer, x \in Deposit : ConfirmLookUp(c, t, x)
           \/ \E t \in Payer : ClaimRead(c, t)
           \/ ConfirmActivate(c) \/ ConfirmIssue(c) \/ ClaimWrite(c) \/ ClerkFails(c)
    PROVE  PaymentTyped'
<1> USE UsdtAssumption DEF UsdtAssumption, PaymentTyped
<1> DEFINE y == clerk[c].tx
<1>1. /\ clerk[c].pc \in {"activate", "issue", "claim"} => y \in Deposit
      /\ clerk[c] # Idle => y \in Deposit
  BY DEF ActorsTyped, InHand, Hand, UPC
<1>3. ASSUME NEW h \in Hand, clerk' = [clerk EXCEPT ![c] = h], UNCHANGED watch,
             h = Idle \/ h.pc \in {"activate", "issue", "claim"},
             h.pc \in {"activate", "issue", "claim"} <=> h.tx # Nobody,
             h.pc \in {"activate", "issue"} => h.payer \in Payer
      PROVE  clerk' \in [Clerk -> Hand] /\ InHand'
  <2>1. \A d \in Clerk : clerk'[d] = IF d = c THEN h ELSE clerk[d]
    BY <1>3 DEF ActorsTyped
  <2> QED
    BY <1>3, <2>1 DEF ActorsTyped, InHand
<1>4. ASSUME NEW t \in Payer, NEW x \in Deposit, ConfirmLookUp(c, t, x) PROVE PaymentTyped'
  <2> DEFINE h == [Idle EXCEPT !.pc = "activate", !.tx = x, !.payer = t]
  <2>1. h \in Hand /\ h.pc = "activate" /\ h.tx = x /\ h.payer = t
    BY IdleTyped DEF Hand, UPC
  <2>2. clerk' = [clerk EXCEPT ![c] = h] /\ UNCHANGED <<watch, ufaults, claimRaced>>
        /\ hindered' \subseteq Deposit
    BY <1>4 DEF ConfirmLookUp, NoteTaken, ActorsTyped
  <2>3. PayersTyped' /\ RecordsTyped'
    BY <1>4 DEF ConfirmLookUp, PayersTyped, RecordsTyped, rowU, recU
  <2> HIDE DEF h
  <2> QED
    BY <1>3, <2>1, <2>2, <2>3 DEF ActorsTyped
<1>5. ASSUME NEW t \in Payer, ClaimRead(c, t) PROVE PaymentTyped'
  <2>1. PICK x \in Deposit :
            /\ clerk' = [clerk EXCEPT ![c] = [Idle EXCEPT !.pc = "claim", !.tx = x]]
            /\ claimRaced' \in {claimRaced, claimRaced \cup {x}}
    BY <1>5 DEF ClaimRead, Unclaimed
  <2> DEFINE h == [Idle EXCEPT !.pc = "claim", !.tx = x]
  <2>2. h \in Hand /\ h.pc = "claim" /\ h.tx = x
    BY IdleTyped DEF Hand, UPC
  <2>3. UNCHANGED <<rowU, dep, recU, watch, ufaults, activated, issued, handed, hindered>>
    BY <1>5 DEF ClaimRead
  <2>4. PayersTyped' /\ RecordsTyped'
    BY <2>3 DEF PayersTyped, RecordsTyped, rowU, recU
  <2>5. claimRaced' \subseteq Deposit
    BY <2>1 DEF ActorsTyped
  <2>6. clerk' = [clerk EXCEPT ![c] = h]
    BY <2>1
  <2> HIDE DEF h
  <2> QED
    BY <1>3, <2>2, <2>3, <2>4, <2>5, <2>6 DEF ActorsTyped
<1>6. CASE ConfirmActivate(c)
  <2> DEFINE h == [clerk[c] EXCEPT !.pc = "issue"]
  <2>1. clerk[c].pc = "activate" /\ clerk[c].payer \in Payer /\ y \in Deposit
    BY <1>1, <1>6 DEF ConfirmActivate, InHand
  <2>2. h \in Hand /\ h.pc = "issue" /\ h.tx = y /\ h.payer \in Payer
    BY <2>1 DEF ActorsTyped, Hand, UPC
  <2>3. Activate(y, clerk[c].payer) /\ UNCHANGED <<dep, recU, watch, ufaults>>
    BY <1>6 DEF ConfirmActivate
  <2>4. clerk' = [clerk EXCEPT ![c] = h]
    BY <1>6 DEF ConfirmActivate
  <2>5. PayersTyped' /\ RecordsTyped'
    BY <2>1, <2>3 DEF Activate, PayersTyped, RecordsTyped, recU, Twice
  <2>6. UNCHANGED <<hindered, claimRaced>>
    BY <2>3 DEF Activate
  <2> HIDE DEF h
  <2> QED
    BY <1>3, <2>1, <2>2, <2>3, <2>4, <2>5, <2>6 DEF ActorsTyped
<1>7. ASSUME clerk' = [clerk EXCEPT ![c] = Idle], UNCHANGED <<rowU, dep, watch, activated, claimRaced>>,
             RecordsTyped', ufaults' \in 0 .. UsdtFaults, hindered' \subseteq Deposit
      PROVE  PaymentTyped'
  <2>1. PayersTyped'
    BY <1>7 DEF PayersTyped, rowU
  <2> QED
    BY IdleTyped, <1>3, <1>7, <2>1 DEF ActorsTyped
<1>8. CASE ConfirmIssue(c)
  <2>1. clerk[c].payer \in Payer /\ y \in Deposit
    BY <1>1, <1>8 DEF ConfirmIssue, InHand
  <2>2. RecordsTyped'
    BY <1>8, <2>1, WriteTyped DEF ConfirmIssue
  <2> QED
    BY <1>7, <1>8, <2>2 DEF ConfirmIssue, ActorsTyped
<1>9. CASE ClaimWrite(c)
  <2>1. y \in Deposit
    BY <1>1, <1>9 DEF ClaimWrite
  <2>2. RecordsTyped'
    BY <1>9, <2>1 DEF ClaimWrite, RecordsTyped, Twice
  <2> QED
    BY <1>7, <1>9, <2>2 DEF ClaimWrite, ActorsTyped
<1>10. CASE ClerkFails(c)
  <2>1. RecordsTyped'
    BY <1>10 DEF ClerkFails, RecordsTyped, recU
  <2> QED
    BY <1>1, <1>7, <1>10, <2>1 DEF ClerkFails, ActorsTyped
<1> QED
  BY <1>4, <1>5, <1>6, <1>8, <1>9, <1>10

LEMMA PaymentStep == PaymentTyped /\ [UsdtNext]_usdtVars => PaymentTyped'
<1> SUFFICES ASSUME PaymentTyped, [UsdtNext]_usdtVars PROVE PaymentTyped'
  OBVIOUS
<1>1. CASE UNCHANGED usdtVars
  BY <1>1 DEF usdtVars, rowU, recU, histU, PaymentTyped, PayersTyped, RecordsTyped, ActorsTyped, InHand
<1>2. CASE UsdtNext
  BY <1>2, PayerTyped, LookingTyped, MatchingTyped, ClerksTyped DEF UsdtNext, WatcherStep
<1> QED
  BY <1>1, <1>2

LEMMA PaymentHolds == UsdtSpec => []PaymentTyped
BY PaymentInitially, PaymentStep, PTL DEF UsdtSpec

(* Every variable keeps its type; in particular the watermark is a time    *)
(* of a transfer.                                                          *)
THEOREM DepositsTyped == UsdtSpec => []UsdtTypeOK
<1>1. PaymentTyped => UsdtTypeOK
  BY DEF PaymentTyped, PayersTyped, RecordsTyped, ActorsTyped, UsdtTypeOK
<1> QED
  BY <1>1, PaymentHolds, PTL

-----------------------------------------------------------------------------
(* One key per transfer.                                                   *)

(* No key without a record. *)
KeyOnRecord == \A x \in Deposit : issued[x] <= 1 /\ (record[x] = "none" => issued[x] = 0)

(* What may happen to the record of a transfer and to its key. *)
Written(x, t) ==
    \/ UNCHANGED <<record, issued>>
    \/ record[x] = "none" /\ record' = [record EXCEPT ![x] = "unmatched"] /\ UNCHANGED issued
    \/ WriteRecord(x, t)


LEMMA KeyStep == KeyOnRecord /\ PaymentTyped /\ [UsdtNext]_usdtVars => KeyOnRecord'
<1> SUFFICES ASSUME KeyOnRecord, PaymentTyped, [UsdtNext]_usdtVars PROVE KeyOnRecord'
  OBVIOUS
<1>1. ASSUME NEW x, NEW t, Written(x, t) PROVE KeyOnRecord'
  BY <1>1 DEF Written, WriteRecord, Taken, Twice, KeyOnRecord, PaymentTyped, RecordsTyped, recU
<1>2. CASE UNCHANGED usdtVars
  BY <1>2 DEF usdtVars, recU, histU, KeyOnRecord
<1>3. ASSUME NEW t \in Payer,
             RequestKey(t) \/ CreateUsdtInvoice(t) \/ CancelSubscription(t) \/ PeriodOver(t)
      PROVE  KeyOnRecord'
  BY <1>3 DEF RequestKey, CreateUsdtInvoice, CancelSubscription, PeriodOver, recU, histU, KeyOnRecord
<1>4. ASSUME NEW x \in Deposit, Transfer(x) PROVE KeyOnRecord'
  BY <1>4 DEF Transfer, recU, histU, KeyOnRecord
<1>5. ASSUME NEW w \in Watcher, WatcherStep(w) PROVE KeyOnRecord'
  <2>1. CASE ReadWatermark(w) \/ FetchPage(w) \/ LookUp(w) \/ AmountMismatch(w) \/ ActivatePlan(w)
    BY <2>1 DEF ReadWatermark, FetchPage, LookUp, AmountMismatch, ActivatePlan, Activate, recU,
                histU, KeyOnRecord
  <2>2. CASE Unmatched(w)
    BY <2>2, <1>1 DEF Unmatched, Written, Taken, histU
  <2>3. CASE IssueKey(w)
    BY <2>3, <1>1 DEF IssueKey, Written, recU
  <2> QED
    BY <1>5, <2>1, <2>2, <2>3 DEF WatcherStep
<1>6. ASSUME NEW w \in Watcher, FetchFails(w) \/ WatcherCrash(w) PROVE KeyOnRecord'
  BY <1>6 DEF FetchFails, WatcherCrash, recU, histU, KeyOnRecord
<1>7. ASSUME NEW c \in Clerk, NEW t \in Payer, NEW x \in Deposit, ConfirmLookUp(c, t, x) \/ ClaimRead(c, t)
      PROVE  KeyOnRecord'
  BY <1>7 DEF ConfirmLookUp, ClaimRead, recU, KeyOnRecord
<1>8. ASSUME NEW c \in Clerk, ConfirmActivate(c) \/ ClaimWrite(c) \/ ClerkFails(c) PROVE KeyOnRecord'
  BY <1>8 DEF ConfirmActivate, Activate, ClaimWrite, ClerkFails, recU, KeyOnRecord
<1>9. ASSUME NEW c \in Clerk, ConfirmIssue(c) PROVE KeyOnRecord'
  BY <1>9, <1>1 DEF ConfirmIssue, Written
<1>10. ASSUME NEW c \in Clerk, NEW t \in Payer, ClaimRead(c, t) PROVE KeyOnRecord'
  BY <1>10 DEF ClaimRead, recU, KeyOnRecord
<1> QED
  BY <1>2, <1>3, <1>4, <1>5, <1>6, <1>7, <1>8, <1>9, <1>10 DEF UsdtNext

(* A transfer is turned into one key, whoever finds it unrecorded, since   *)
(* the key and the record of its tx_id are written together                *)
(* (app/services/usdt_watcher.py, app/services/purchase_service.py).       *)
THEOREM DepositsKeyedOnce == UsdtSpec => []OneKeyPerDeposit
<1>1. UsdtInit => KeyOnRecord
  BY DEF UsdtInit, KeyOnRecord
<1>2. KeyOnRecord => OneKeyPerDeposit
  BY DEF KeyOnRecord, OneKeyPerDeposit
<1> QED
  BY <1>1, <1>2, KeyStep, PaymentHolds, PTL DEF UsdtSpec

-----------------------------------------------------------------------------
(* One activation per transfer.                                            *)

WatcherHas(w, x) == watch[w].tx = x /\ watch[w].pc \in {"match", "issue"}
ClerkHas(c, x)   == clerk[c].tx = x /\ clerk[c].pc \in {"activate", "issue"}

(* Nobody else has the transfer of a job, or of an administrator ... *)
Alone(x) ==
    /\ \A v, w \in Watcher : WatcherHas(v, x) /\ WatcherHas(w, x) => v = w
    /\ \A c, d \in Clerk : ClerkHas(c, x) /\ ClerkHas(d, x) => c = d
    /\ \A w \in Watcher, c \in Clerk : ~(WatcherHas(w, x) /\ ClerkHas(c, x))

(* ... and it is not on record, nor paid for, before he has activated it.  *)
NotYet(x) ==
    /\ \A w \in Watcher : WatcherHas(w, x) =>
          record[x] = "none" /\ (watch[w].pc = "match" => activated[x] = 0)
    /\ \A c \in Clerk : ClerkHas(c, x) =>
          record[x] = "none" /\ (clerk[c].pc = "activate" => activated[x] = 0)

(* Whoever activated it is there until it is on record. *)
SeenThrough(x) ==
    activated[x] > 0 /\ record[x] = "none" =>
        \/ \E w \in Watcher : WatcherHas(w, x) /\ watch[w].pc = "issue"
        \/ \E c \in Clerk : ClerkHas(c, x) /\ clerk[c].pc = "issue"

PaidOnce(x) == Alone(x) /\ NotYet(x) /\ SeenThrough(x) /\ activated[x] <= 1
PaidInv == \A x \in Deposit : x \notin hindered => PaidOnce(x)

(* Steps of an actor that has something else in hand, before and after.    *)
LEMMA OtherWatcher ==
    ASSUME PaymentTyped, NEW x \in Deposit, PaidOnce(x), NEW w \in Watcher, ~WatcherHas(w, x),
           \A v \in Watcher \ {w} : watch'[v] = watch[v], ~WatcherHas(w, x)',
           clerk' = clerk, record'[x] = record[x], activated'[x] = activated[x]
    PROVE  PaidOnce(x)'
<1>1. \A v \in Watcher \ {w} : WatcherHas(v, x)' = WatcherHas(v, x) /\ watch'[v].pc = watch[v].pc
  BY DEF WatcherHas
<1>2. \A c \in Clerk : ClerkHas(c, x)' = ClerkHas(c, x)
  BY DEF ClerkHas
<1>3. Alone(x)'
  BY <1>1, <1>2 DEF PaidOnce, Alone
<1>4. NotYet(x)'
  BY <1>1, <1>2 DEF PaidOnce, NotYet
<1>5. SeenThrough(x)'
  BY <1>1, <1>2 DEF PaidOnce, SeenThrough
<1> QED
  BY <1>3, <1>4, <1>5 DEF PaidOnce

LEMMA OtherClerk ==
    ASSUME PaymentTyped, NEW x \in Deposit, PaidOnce(x), NEW c \in Clerk, ~ClerkHas(c, x),
           \A d \in Clerk \ {c} : clerk'[d] = clerk[d], ~ClerkHas(c, x)',
           watch' = watch, record'[x] = record[x], activated'[x] = activated[x]
    PROVE  PaidOnce(x)'
<1>1. \A d \in Clerk \ {c} : ClerkHas(d, x)' = ClerkHas(d, x) /\ clerk'[d].pc = clerk[d].pc
  BY DEF ClerkHas
<1>2. \A w \in Watcher : WatcherHas(w, x)' = WatcherHas(w, x)
  BY DEF WatcherHas
<1>3. Alone(x)'
  BY <1>1, <1>2 DEF PaidOnce, Alone
<1>4. NotYet(x)'
  BY <1>1, <1>2 DEF PaidOnce, NotYet
<1>5. SeenThrough(x)'
  BY <1>1, <1>2 DEF PaidOnce, SeenThrough
<1> QED
  BY <1>3, <1>4, <1>5 DEF PaidOnce

(* A transfer that is found unrecorded, while nobody has it, is unpaid.    *)
LEMMA FoundUnpaid ==
    ASSUME PaymentTyped, NEW x \in Deposit, PaidOnce(x), ~Taken(x), Holders(x) = {}
    PROVE  /\ record[x] = "none" /\ activated[x] = 0
           /\ \A w \in Watcher : ~WatcherHas(w, x)
           /\ \A c \in Clerk : ~ClerkHas(c, x)
<1>1. /\ \A w \in Watcher : ~WatcherHas(w, x)
      /\ \A c \in Clerk : ~ClerkHas(c, x)
  BY DEF Holders, WatcherHas, ClerkHas
<1>2. activated[x] \in 0 .. 2
  BY DEF PaymentTyped, RecordsTyped
<1> QED
  BY <1>1, <1>2 DEF PaidOnce, SeenThrough, Taken

LEMMA JobPaysOnce ==
    ASSUME PaymentTyped, NEW x \in Deposit, PaidOnce(x), x \notin hindered', NEW w \in Watcher,
           WatcherStep(w) \/ FetchFails(w) \/ WatcherCrash(w)
    PROVE  PaidOnce(x)'
<1> DEFINE y == watch[w].tx
<1> USE DEF PaymentTyped, ActorsTyped, RecordsTyped, Hand
<1>1. ASSUME NEW h \in Hand, watch' = [watch EXCEPT ![w] = h], h.pc \notin {"match", "issue"},
             watch[w].pc \notin {"match", "issue"} \/ y # x,
             clerk' = clerk, record'[x] = record[x], activated' = activated
      PROVE  PaidOnce(x)'
  <2>1. ~WatcherHas(w, x) /\ ~WatcherHas(w, x)'
    BY <1>1 DEF WatcherHas
  <2>2. \A v \in Watcher \ {w} : watch'[v] = watch[v]
    BY <1>1
  <2> QED
    BY <1>1, <2>1, <2>2, OtherWatcher
<1>2. [watch[w] EXCEPT !.pc = "next", !.tx = Nobody, !.payer = Nobody].pc = "next"
  <2>1. watch[w] \in Hand
    OBVIOUS
  <2> QED
    BY <2>1
<1>3. CASE ReadWatermark(w)
  <2>1. watch[w].pc = "idle" /\ UNCHANGED <<clerk, record, activated>>
    BY <1>3 DEF ReadWatermark, recU, histU
  <2>2. watch'[w].pc = "fetch" /\ \A v \in Watcher \ {w} : watch'[v] = watch[v]
    <3>1. [Idle EXCEPT !.pc = "fetch", !.mark = Watermark].pc = "fetch"
      BY IdleTyped
    <3>2. watch' = [watch EXCEPT ![w] = [Idle EXCEPT !.pc = "fetch", !.mark = Watermark]]
      BY <1>3 DEF ReadWatermark
    <3> QED
      BY <3>1, <3>2
  <2>3. ~WatcherHas(w, x) /\ ~WatcherHas(w, x)'
    BY <2>1, <2>2 DEF WatcherHas
  <2> QED
    BY <2>1, <2>2, <2>3, OtherWatcher
<1>4. CASE FetchPage(w) \/ FetchFails(w)
  <2>1. watch[w].pc = "fetch" /\ UNCHANGED <<clerk, record, activated>>
    BY <1>4 DEF FetchPage, FetchFails, recU, histU
  <2>2. watch'[w].pc \in {"next", "idle"} /\ \A v \in Watcher \ {w} : watch'[v] = watch[v]
    <3> DEFINE page == Page(watch[w].mark)
               h    == [Idle EXCEPT !.pc = "next", !.todo = page]
    <3>1. h.pc = "next"
      BY IdleTyped
    <3>2. watch' = [watch EXCEPT ![w] = h] \/ watch' = [watch EXCEPT ![w] = Idle]
      BY <1>4 DEF FetchPage, FetchFails
    <3> HIDE DEF h
    <3> QED
      BY <3>1, <3>2, IdleTyped
  <2>3. ~WatcherHas(w, x) /\ ~WatcherHas(w, x)'
    BY <2>1, <2>2 DEF WatcherHas
  <2> QED
    BY <2>1, <2>2, <2>3, OtherWatcher
<1>5. CASE LookUp(w)
  <2> DEFINE rest == watch[w].todo
             z == Newest(rest)
  <2>1. watch[w].pc = "next" /\ UNCHANGED <<clerk, record, activated>>
    BY <1>5 DEF LookUp, recU
  <2>2. ~WatcherHas(w, x)
    BY <2>1 DEF WatcherHas
  <2>3. \A v \in Watcher \ {w} : watch'[v] = watch[v]
    BY <1>5 DEF LookUp
  <2>4. CASE rest = {} \/ Taken(z)
    <3>1. watch'[w].pc \in {"idle", "next"}
      BY <1>5, <2>4, <2>1, IdleTyped DEF LookUp
    <3>2. ~WatcherHas(w, x)'
      BY <3>1 DEF WatcherHas
    <3> QED
      BY <2>1, <2>2, <2>3, <3>2, OtherWatcher
  <2>5. CASE rest # {} /\ ~Taken(z)
    <3>1. NoteTaken(z) /\ watch'[w].pc = "match" /\ watch'[w].tx = z
      BY <1>5, <2>5 DEF LookUp
    <3>2. CASE z # x
      <4>1. ~WatcherHas(w, x)'
        BY <3>1, <3>2 DEF WatcherHas
      <4> QED
        BY <2>1, <2>2, <2>3, <4>1, OtherWatcher
    <3>3. CASE z = x
      <4>1. Holders(x) = {} /\ ~Taken(x)
        BY <3>1, <3>3, <2>5 DEF NoteTaken
      <4>2. /\ record[x] = "none" /\ activated[x] = 0
            /\ \A v \in Watcher : ~WatcherHas(v, x)
            /\ \A c \in Clerk : ~ClerkHas(c, x)
        BY <4>1, FoundUnpaid
      <4>3. \A v \in Watcher \ {w} : ~WatcherHas(v, x)'
        BY <2>3, <4>2 DEF WatcherHas
      <4>4. \A c \in Clerk : ~ClerkHas(c, x)'
        BY <2>1, <4>2 DEF ClerkHas
      <4>5. Alone(x)'
        BY <4>3, <4>4 DEF Alone
      <4>6. NotYet(x)' /\ SeenThrough(x)'
        BY <2>1, <4>2, <4>3, <4>4 DEF NotYet, SeenThrough
      <4> QED
        BY <2>1, <4>2, <4>5, <4>6 DEF PaidOnce
    <3> QED
      BY <3>2, <3>3
  <2> QED
    BY <2>4, <2>5
<1>6. ASSUME y = x, watch[w].pc \in {"match", "issue"}
      PROVE  /\ record[x] = "none" /\ WatcherHas(w, x)
             /\ watch[w].pc = "match" => activated[x] = 0
             /\ \A v \in Watcher \ {w} : ~WatcherHas(v, x)
             /\ \A c \in Clerk : ~ClerkHas(c, x)
  BY <1>6 DEF WatcherHas, PaidOnce, Alone, NotYet
<1>7. ASSUME y = x, watch[w].pc \in {"match", "issue"},
             \A v \in Watcher \ {w} : watch'[v] = watch[v], clerk' = clerk
      PROVE  /\ \A v \in Watcher \ {w} : ~WatcherHas(v, x)'
             /\ \A c \in Clerk : ~ClerkHas(c, x)'
  BY <1>6, <1>7 DEF WatcherHas, ClerkHas
<1>8. ASSUME y = x, watch[w].pc \in {"match", "issue"}, ~WatcherHas(w, x)',
             \A v \in Watcher \ {w} : watch'[v] = watch[v], clerk' = clerk, activated' = activated,
             record'[x] # "none" \/ activated[x] = 0
      PROVE  PaidOnce(x)'
  <2>1. /\ \A v \in Watcher : ~WatcherHas(v, x)'
        /\ \A c \in Clerk : ~ClerkHas(c, x)'
    BY <1>7, <1>8
  <2>2. Alone(x)' /\ NotYet(x)'
    BY <2>1 DEF Alone, NotYet
  <2> QED
    BY <1>8, <2>1, <2>2 DEF PaidOnce, SeenThrough
<1>9. CASE Unmatched(w)
  <2>1. watch[w].pc = "match" /\ UNCHANGED <<clerk, activated>>
    BY <1>9 DEF Unmatched, histU
  <2>2. watch'[w].pc \in {"idle", "next"} /\ \A v \in Watcher \ {w} : watch'[v] = watch[v]
    BY <1>9, <1>2, IdleTyped DEF Unmatched, AbortTick, NextTx
  <2>3. ~WatcherHas(w, x)'
    BY <2>2 DEF WatcherHas
  <2>4. y # x => record'[x] = record[x]
    BY <1>9 DEF Unmatched
  <2>5. CASE y = x
    <3>1. record[x] = "none" /\ activated[x] = 0
      BY <1>6, <2>1, <2>5
    <3> QED
      BY <1>8, <2>1, <2>2, <2>3, <2>5, <3>1
  <2>6. CASE y # x
    <3>1. ~WatcherHas(w, x)
      BY <2>6 DEF WatcherHas
    <3> QED
      BY <2>1, <2>2, <2>3, <2>4, <2>6, <3>1, OtherWatcher
  <2> QED
    BY <2>5, <2>6
<1>10. CASE AmountMismatch(w)
  <2>1. watch[w].pc = "match" /\ UNCHANGED <<clerk, activated, record>>
    BY <1>10 DEF AmountMismatch, recU, histU
  <2>2. watch'[w].pc = "next" /\ \A v \in Watcher \ {w} : watch'[v] = watch[v]
    BY <1>10, <1>2 DEF AmountMismatch, NextTx
  <2>3. ~WatcherHas(w, x)'
    BY <2>2 DEF WatcherHas
  <2>4. CASE y = x
    BY <1>6, <1>8, <2>1, <2>2, <2>3, <2>4
  <2>5. CASE y # x
    <3>1. ~WatcherHas(w, x)
      BY <2>5 DEF WatcherHas
    <3> QED
      BY <2>1, <2>2, <2>3, <3>1, OtherWatcher
  <2> QED
    BY <2>4, <2>5
<1>11. CASE ActivatePlan(w)
  <2>1. /\ watch[w].pc = "match" /\ UNCHANGED <<clerk, record>>
        /\ activated' = [activated EXCEPT ![y] = Twice(@)]
        /\ watch'[w].pc = "issue" /\ watch'[w].tx = y
        /\ \A v \in Watcher \ {w} : watch'[v] = watch[v]
    BY <1>11 DEF ActivatePlan, Activate, recU
  <2>2. CASE y = x
    <3>1. activated'[x] = 1 /\ record'[x] = "none"
      BY <1>6, <2>1, <2>2 DEF Twice
    <3>2. WatcherHas(w, x)'
      BY <2>1, <2>2 DEF WatcherHas
    <3>3. /\ \A v \in Watcher \ {w} : ~WatcherHas(v, x)'
          /\ \A c \in Clerk : ~ClerkHas(c, x)'
      BY <1>7, <2>1, <2>2
    <3>4. Alone(x)'
      BY <3>3 DEF Alone
    <3>5. NotYet(x)' /\ SeenThrough(x)'
      BY <2>1, <3>1, <3>2, <3>3 DEF NotYet, SeenThrough
    <3> QED
      BY <3>1, <3>4, <3>5 DEF PaidOnce
  <2>3. CASE y # x
    <3>1. ~WatcherHas(w, x) /\ ~WatcherHas(w, x)'
      BY <2>1, <2>3 DEF WatcherHas
    <3> QED
      BY <2>1, <2>3, <3>1, OtherWatcher
  <2> QED
    BY <2>2, <2>3
<1>12. CASE IssueKey(w)
  <2>1. /\ watch[w].pc = "issue" /\ UNCHANGED <<clerk, activated>>
        /\ watch'[w].pc \in {"idle", "next"} /\ \A v \in Watcher \ {w} : watch'[v] = watch[v]
    BY <1>12, <1>2, IdleTyped DEF IssueKey, AbortTick, NextTx
  <2>2. ~WatcherHas(w, x)'
    BY <2>1 DEF WatcherHas
  <2>3. CASE y = x
    <3>1. watch[w].payer \notin referred /\ record[x] = "none"
      BY <1>6, <1>12, <2>1, <2>3 DEF IssueKey
    <3>2. record'[x] = "completed"
      BY <1>12, <2>3, <3>1 DEF IssueKey, WriteRecord, Taken
    <3> QED
      BY <1>8, <2>1, <2>2, <2>3, <3>2
  <2>4. CASE y # x
    <3>1. ~WatcherHas(w, x)
      BY <2>4 DEF WatcherHas
    <3>2. record'[x] = record[x]
      BY <1>12, <2>4 DEF IssueKey, WriteRecord, recU
    <3> QED
      BY <2>1, <2>2, <3>1, <3>2, OtherWatcher
  <2> QED
    BY <2>3, <2>4
<1>13. CASE WatcherCrash(w)
  <2>1. /\ UNCHANGED <<clerk, activated, record>> /\ watch' = [watch EXCEPT ![w] = Idle]
        /\ hindered' = hindered \cup ({y} \ {Nobody})
    BY <1>13 DEF WatcherCrash, recU
  <2>2. y # x
    BY <2>1, UsdtAssumption DEF UsdtAssumption
  <2> QED
    BY <1>1, <2>1, <2>2, IdleTyped
<1> QED
  BY <1>3, <1>4, <1>5, <1>9, <1>10, <1>11, <1>12, <1>13 DEF WatcherStep

LEMMA ClerksPayOnce ==
    ASSUME PaymentTyped, NEW x \in Deposit, PaidOnce(x), x \notin hindered', NEW c \in Clerk,
           \/ \E t \in Payer, z \in Deposit : ConfirmLookUp(c, t, z)
           \/ \E t \in Payer : ClaimRead(c, t)
           \/ ConfirmActivate(c) \/ ConfirmIssue(c) \/ ClaimWrite(c) \/ ClerkFails(c)
    PROVE  PaidOnce(x)'
<1> DEFINE y == clerk[c].tx
<1> USE DEF PaymentTyped, ActorsTyped, RecordsTyped, Hand
<1>1. /\ watch' = watch
      /\ \A d \in Clerk \ {c} : clerk'[d] = clerk[d]
  BY DEF ConfirmLookUp, ClaimRead, ConfirmActivate, ConfirmIssue, ClaimWrite, ClerkFails
<1>2. ASSUME y = x, clerk[c].pc \in {"activate", "issue"}
      PROVE  /\ record[x] = "none" /\ ClerkHas(c, x)
             /\ clerk[c].pc = "activate" => activated[x] = 0
             /\ \A d \in Clerk \ {c} : ~ClerkHas(d, x)'
             /\ \A w \in Watcher : ~WatcherHas(w, x)'
  BY <1>1, <1>2 DEF WatcherHas, ClerkHas, PaidOnce, Alone, NotYet
<1>3. ASSUME NEW t \in Payer, NEW z \in Deposit, ConfirmLookUp(c, t, z) PROVE PaidOnce(x)'
  <2>1. /\ clerk[c] = Idle /\ ~Taken(z) /\ NoteTaken(z)
        /\ clerk'[c].pc = "activate" /\ clerk'[c].tx = z
        /\ UNCHANGED <<record, activated>>
    BY <1>3, IdleTyped DEF ConfirmLookUp, recU
  <2>2. ~ClerkHas(c, x)
    BY <2>1, IdleTyped DEF ClerkHas
  <2>3. CASE z # x
    <3>1. ~ClerkHas(c, x)'
      BY <2>1, <2>3 DEF ClerkHas
    <3> QED
      BY <1>1, <2>1, <2>2, <3>1, OtherClerk
  <2>4. CASE z = x
    <3>1. Holders(x) = {} /\ ~Taken(x)
      BY <2>1, <2>4 DEF NoteTaken
    <3>2. /\ record[x] = "none" /\ activated[x] = 0
          /\ \A w \in Watcher : ~WatcherHas(w, x)
          /\ \A d \in Clerk : ~ClerkHas(d, x)
      BY <3>1, FoundUnpaid
    <3>3. /\ \A w \in Watcher : ~WatcherHas(w, x)'
          /\ \A d \in Clerk \ {c} : ~ClerkHas(d, x)'
      BY <1>1, <3>2 DEF WatcherHas, ClerkHas
    <3>4. Alone(x)'
      BY <3>3 DEF Alone
    <3>5. NotYet(x)' /\ SeenThrough(x)'
      BY <2>1, <3>2, <3>3 DEF NotYet, SeenThrough
    <3> QED
      BY <2>1, <3>2, <3>4, <3>5 DEF PaidOnce
  <2> QED
    BY <2>3, <2>4
<1>4. ASSUME NEW t \in Payer, ClaimRead(c, t) PROVE PaidOnce(x)'
  <2>0. PICK z \in Deposit : clerk' = [clerk EXCEPT ![c] = [Idle EXCEPT !.pc = "claim", !.tx = z]]
    BY <1>4 DEF ClaimRead, Unclaimed
  <2>1. clerk[c] = Idle /\ clerk'[c].pc = "claim" /\ UNCHANGED <<record, activated>>
    BY <1>4, <2>0, IdleTyped DEF ClaimRead, recU
  <2>2. ~ClerkHas(c, x) /\ ~ClerkHas(c, x)'
    BY <2>1, IdleTyped DEF ClerkHas
  <2> QED
    BY <1>1, <2>1, <2>2, OtherClerk
<1>5. CASE ConfirmActivate(c)
  <2>1. /\ clerk[c].pc = "activate" /\ UNCHANGED record
        /\ activated' = [activated EXCEPT ![y] = Twice(@)]
        /\ clerk'[c].pc = "issue" /\ clerk'[c].tx = y
    BY <1>5 DEF ConfirmActivate, Activate, recU
  <2>2. CASE y = x
    <3>1. activated'[x] = 1 /\ record'[x] = "none"
      BY <1>2, <2>1, <2>2 DEF Twice
    <3>2. ClerkHas(c, x)'
      BY <2>1, <2>2 DEF ClerkHas
    <3>3. /\ \A w \in Watcher : ~WatcherHas(w, x)'
          /\ \A d \in Clerk \ {c} : ~ClerkHas(d, x)'
      BY <1>2, <2>1, <2>2
    <3>4. Alone(x)'
      BY <3>3 DEF Alone
    <3>5. NotYet(x)' /\ SeenThrough(x)'
      BY <2>1, <3>1, <3>2, <3>3 DEF NotYet, SeenThrough
    <3> QED
      BY <3>1, <3>4, <3>5 DEF PaidOnce
  <2>3. CASE y # x
    <3>1. ~ClerkHas(c, x) /\ ~ClerkHas(c, x)'
      BY <2>1, <2>3 DEF ClerkHas
    <3> QED
      BY <1>1, <2>1, <2>3, <3>1, OtherClerk
  <2> QED
    BY <2>2, <2>3
<1>6. CASE ConfirmIssue(c)
  <2>1. /\ clerk[c].pc = "issue" /\ UNCHANGED activated
        /\ clerk'[c] = Idle /\ WriteRecord(y, clerk[c].payer)
    BY <1>6 DEF ConfirmIssue
  <2>2. ~ClerkHas(c, x)'
    BY <2>1, IdleTyped DEF ClerkHas
  <2>3. CASE y = x
    <3>1. /\ \A w \in Watcher : ~WatcherHas(w, x)'
          /\ \A d \in Clerk : ~ClerkHas(d, x)'
      BY <1>2, <2>1, <2>2, <2>3
    <3>2. record'[x] = "completed"
      BY <1>2, <2>1, <2>3 DEF WriteRecord, Taken
    <3>3. Alone(x)' /\ NotYet(x)'
      BY <3>1 DEF Alone, NotYet
    <3> QED
      BY <2>1, <3>1, <3>2, <3>3 DEF PaidOnce, SeenThrough
  <2>4. CASE y # x
    <3>1. ~ClerkHas(c, x) /\ record'[x] = record[x]
      BY <2>1, <2>4 DEF ClerkHas, WriteRecord, recU
    <3> QED
      BY <1>1, <2>1, <2>2, <3>1, OtherClerk
  <2> QED
    BY <2>3, <2>4
<1>7. CASE ClaimWrite(c)
  <2>1. clerk[c].pc = "claim" /\ clerk'[c] = Idle /\ UNCHANGED <<record, activated>>
    BY <1>7 DEF ClaimWrite
  <2>2. ~ClerkHas(c, x) /\ ~ClerkHas(c, x)'
    BY <2>1, IdleTyped DEF ClerkHas
  <2> QED
    BY <1>1, <2>1, <2>2, OtherClerk
<1>8. CASE ClerkFails(c)
  <2>1. /\ clerk'[c] = Idle /\ UNCHANGED <<record, activated>>
        /\ y # x
    BY <1>8 DEF ClerkFails, recU
  <2>2. ~ClerkHas(c, x) /\ ~ClerkHas(c, x)'
    BY <2>1, IdleTyped DEF ClerkHas
  <2> QED
    BY <1>1, <2>1, <2>2, OtherClerk
<1> QED
  BY <1>3, <1>4, <1>5, <1>6, <1>7, <1>8

LEMMA PaidStep == PaidInv /\ PaymentTyped /\ [UsdtNext]_usdtVars => PaidInv'
<1> SUFFICES ASSUME PaidInv, PaymentTyped, [UsdtNext]_usdtVars, NEW x \in Deposit, x \notin hindered'
             PROVE  PaidOnce(x)'
  BY DEF PaidInv
<1>1. ASSUME UNCHANGED <<watch, clerk, record, activated, hindered>> PROVE PaidOnce(x)'
  BY <1>1 DEF PaidInv, PaidOnce, Alone, NotYet, SeenThrough, WatcherHas, ClerkHas
<1>2. CASE UNCHANGED usdtVars
  BY <1>1, <1>2 DEF usdtVars, recU, histU
<1>3. ASSUME NEW t \in Payer,
             RequestKey(t) \/ CreateUsdtInvoice(t) \/ CancelSubscription(t) \/ PeriodOver(t)
      PROVE  PaidOnce(x)'
  BY <1>1, <1>3 DEF RequestKey, CreateUsdtInvoice, CancelSubscription, PeriodOver, recU, histU
<1>4. ASSUME NEW z \in Deposit, Transfer(z) PROVE PaidOnce(x)'
  BY <1>1, <1>4 DEF Transfer, recU, histU
<1>5. ASSUME NEW w \in Watcher, WatcherStep(w) \/ FetchFails(w) \/ WatcherCrash(w)
      PROVE  PaidOnce(x)'
  <2>1. x \notin hindered
    BY <1>5 DEF WatcherStep, ReadWatermark, FetchPage, LookUp, NoteTaken, Unmatched, AmountMismatch,
                ActivatePlan, Activate, IssueKey, FetchFails, WatcherCrash, histU
  <2> QED
    BY <1>5, <2>1, JobPaysOnce DEF PaidInv
<1>6. ASSUME NEW c \in Clerk,
             \/ \E t \in Payer, z \in Deposit : ConfirmLookUp(c, t, z)
             \/ \E t \in Payer : ClaimRead(c, t)
             \/ ConfirmActivate(c) \/ ConfirmIssue(c) \/ ClaimWrite(c) \/ ClerkFails(c)
      PROVE  PaidOnce(x)'
  <2>1. x \notin hindered
    BY <1>6 DEF ConfirmLookUp, NoteTaken, ClaimRead, ConfirmActivate, Activate, ConfirmIssue,
                ClaimWrite, ClerkFails
  <2> QED
    BY <1>6, <2>1, ClerksPayOnce DEF PaidInv
<1> QED
  BY <1>2, <1>3, <1>4, <1>5, <1>6 DEF UsdtNext

(* A transfer activates a plan once, unless two actors had it in hand or   *)
(* one failed with it: whoever finds it unrecorded alone leaves it         *)
(* recorded, or unpaid (process_incoming_tx, confirm_usdt_payment).        *)
THEOREM DepositsPaidOnce == UsdtSpec => []DepositPaysOnce
<1>1. UsdtInit => PaidInv
  BY IdleTyped DEF UsdtInit, PaidInv, PaidOnce, Alone, NotYet, SeenThrough, WatcherHas, ClerkHas
<1>2. PaidInv /\ PaymentTyped => DepositPaysOnce
  BY DEF PaidInv, PaidOnce, PaymentTyped, RecordsTyped, DepositPaysOnce
<1> QED
  BY <1>1, <1>2, PaidStep, PaymentHolds, PTL DEF UsdtSpec

-----------------------------------------------------------------------------
(* The key is handed out once.                                             *)

Earned(x)    == activated[x] > 0 /\ dep[x].enough
HasClaim(c, x) == clerk[c].tx = x /\ clerk[c].pc = "claim"

(* Records, and what leads to them. *)
RecordSound(x) ==
    /\ record[x] = "completed" => Earned(x)
    /\ \A w \in Watcher : watch[w].tx = x /\ watch[w].pc = "issue" => Earned(x)
    /\ \A c \in Clerk : clerk[c].tx = x =>
          /\ clerk[c].pc = "activate" => dep[x].enough
          /\ clerk[c].pc = "issue" => Earned(x)
          /\ clerk[c].pc = "claim" => record[x] = "completed"
    /\ handed[x] > 0 => claimed[x] /\ record[x] = "completed"

ClaimedOnce(x) ==
    x \notin claimRaced =>
        /\ \A c, d \in Clerk : HasClaim(c, x) /\ HasClaim(d, x) => c = d
        /\ \A c \in Clerk : HasClaim(c, x) => handed[x] = 0
        /\ handed[x] <= 1

ClaimInv == \A x \in Deposit : RecordSound(x) /\ ClaimedOnce(x)

(* What has been reached stays. *)
LEMMA Lasting ==
    ASSUME PaymentTyped, [UsdtNext]_usdtVars, NEW x \in Deposit
    PROVE  /\ Earned(x) => Earned(x)'
           /\ dep[x].enough => dep'[x].enough
           /\ record[x] = "completed" => record'[x] = "completed"
           /\ claimed[x] => claimed'[x]
<1> DEFINE Lasts == /\ Earned(x) => Earned(x)'
                    /\ dep[x].enough => dep'[x].enough
                    /\ record[x] = "completed" => record'[x] = "completed"
                    /\ claimed[x] => claimed'[x]
<1> USE DEF PaymentTyped, RecordsTyped, Earned
<1> SUFFICES Lasts
  OBVIOUS
<1>1. ASSUME NEW z, activated' = [activated EXCEPT ![z] = Twice(@)], UNCHANGED <<dep, record, claimed>>
      PROVE  Lasts
  BY <1>1 DEF Twice
<1>9. ASSUME NEW z, NEW t, WriteRecord(z, t), UNCHANGED <<dep, activated>> PROVE Lasts
  <2>1. CASE Taken(z)
    BY <1>9, <2>1 DEF WriteRecord, recU
  <2>2. CASE ~Taken(z)
    BY <1>9, <2>2 DEF WriteRecord, Taken
  <2> QED
    BY <2>1, <2>2
<1>2. CASE UNCHANGED usdtVars
  BY <1>2 DEF usdtVars, recU, histU
<1>3. ASSUME NEW t \in Payer,
             RequestKey(t) \/ CreateUsdtInvoice(t) \/ CancelSubscription(t) \/ PeriodOver(t)
      PROVE  Lasts
  BY <1>3 DEF RequestKey, CreateUsdtInvoice, CancelSubscription, PeriodOver, recU, histU
<1>4. ASSUME NEW z \in Deposit, Transfer(z) PROVE Lasts
  <2>1. ~dep[z].enough /\ \A v \in Deposit \ {z} : dep'[v] = dep[v]
    BY <1>4 DEF Transfer, Unsent
  <2> QED
    BY <1>4, <2>1 DEF Transfer, recU, histU
<1>5. ASSUME NEW w \in Watcher, WatcherStep(w) \/ FetchFails(w) \/ WatcherCrash(w) PROVE Lasts
  <2>1. CASE ReadWatermark(w) \/ FetchPage(w) \/ LookUp(w) \/ AmountMismatch(w) \/ FetchFails(w)
             \/ WatcherCrash(w)
    BY <2>1 DEF ReadWatermark, FetchPage, LookUp, AmountMismatch, FetchFails, WatcherCrash, recU, histU
  <2>2. CASE Unmatched(w)
    BY <2>2 DEF Unmatched, Taken, histU
  <2>3. CASE ActivatePlan(w)
    <3>1. activated' = [activated EXCEPT ![watch[w].tx] = Twice(@)] /\ UNCHANGED <<dep, record, claimed>>
      BY <2>3 DEF ActivatePlan, Activate, recU
    <3> QED
      BY <3>1, <1>1
  <2>4. CASE IssueKey(w)
    BY <2>4, <1>9 DEF IssueKey, recU
  <2> QED
    BY <1>5, <2>1, <2>2, <2>3, <2>4 DEF WatcherStep
<1>6. ASSUME NEW c \in Clerk, NEW t \in Payer,
             ClaimRead(c, t) \/ \E z \in Deposit : ConfirmLookUp(c, t, z)
      PROVE  Lasts
  BY <1>6 DEF ClaimRead, ConfirmLookUp, recU
<1>7. ASSUME NEW c \in Clerk, ConfirmActivate(c) PROVE Lasts
  <2>1. activated' = [activated EXCEPT ![clerk[c].tx] = Twice(@)] /\ UNCHANGED <<dep, record, claimed>>
    BY <1>7 DEF ConfirmActivate, Activate, recU
  <2> QED
    BY <2>1, <1>1
<1>8. ASSUME NEW c \in Clerk, ConfirmIssue(c) \/ ClaimWrite(c) \/ ClerkFails(c) PROVE Lasts
  BY <1>8, <1>9 DEF ConfirmIssue, ClaimWrite, ClerkFails, recU
<1> QED
  BY <1>2, <1>3, <1>4, <1>5, <1>6, <1>7, <1>8 DEF UsdtNext

(* What a step has to be for the records to stay sound.                    *)
SoundStep(x) ==
    /\ record'[x] = "completed" => record[x] = "completed" \/ Earned(x)
    /\ \A w \in Watcher : watch'[w].tx = x /\ watch'[w].pc = "issue" =>
          (watch[w].tx = x /\ watch[w].pc = "issue") \/ Earned(x)'
    /\ \A c \in Clerk : clerk'[c].tx = x =>
          \/ clerk'[c] = clerk[c]
          \/ /\ clerk'[c].pc = "activate" => dep'[x].enough
             /\ clerk'[c].pc = "issue" => Earned(x)'
             /\ clerk'[c].pc = "claim" => record'[x] = "completed"
    /\ handed'[x] > 0 => handed[x] > 0 \/ (claimed'[x] /\ record'[x] = "completed")

LEMMA SoundKept ==
    ASSUME PaymentTyped, [UsdtNext]_usdtVars, NEW x \in Deposit, RecordSound(x), SoundStep(x)
    PROVE  RecordSound(x)'
BY Lasting DEF RecordSound, SoundStep

LEMMA OnceKept ==
    ASSUME NEW x \in Deposit, ClaimedOnce(x), claimRaced \subseteq claimRaced', handed'[x] = handed[x],
           \A c \in Clerk : HasClaim(c, x)' => HasClaim(c, x)
    PROVE  ClaimedOnce(x)'
BY DEF ClaimedOnce

LEMMA JobSound ==
    ASSUME ClaimInv, PaymentTyped, NEW x \in Deposit, NEW w \in Watcher, [UsdtNext]_usdtVars,
           WatcherStep(w) \/ FetchFails(w) \/ WatcherCrash(w)
    PROVE  RecordSound(x)' /\ ClaimedOnce(x)'
<1> DEFINE y == watch[w].tx
<1>6. watch \in [Watcher -> Hand]
  BY DEF PaymentTyped, ActorsTyped
<1>1. UNCHANGED <<clerk, handed, claimed, claimRaced>> /\ \A v \in Watcher \ {w} : watch'[v] = watch[v]
  <2>1. CASE ReadWatermark(w) \/ FetchPage(w) \/ LookUp(w) \/ FetchFails(w) \/ WatcherCrash(w)
    BY <1>6, <2>1 DEF ReadWatermark, FetchPage, LookUp, FetchFails, WatcherCrash, recU, histU
  <2>2. CASE Unmatched(w) \/ AmountMismatch(w)
    BY <1>6, <2>2 DEF Unmatched, AmountMismatch, NextTx, AbortTick, recU, histU
  <2>3. CASE ActivatePlan(w)
    BY <1>6, <2>3 DEF ActivatePlan, Activate, recU
  <2>4. CASE IssueKey(w)
    <3>1. UNCHANGED <<clerk, handed, claimRaced>> /\ (NextTx(w) \/ AbortTick(w))
      BY <2>4 DEF IssueKey
    <3>2. UNCHANGED claimed
      BY <2>4 DEF IssueKey, WriteRecord, recU
    <3> QED
      BY <1>6, <3>1, <3>2 DEF NextTx, AbortTick
  <2> QED
    BY <2>1, <2>2, <2>3, <2>4 DEF WatcherStep
<1>2. ClaimedOnce(x)'
  BY <1>1, OnceKept DEF ClaimInv, HasClaim
<1>3. ASSUME watch'[w].pc = "issue" /\ watch'[w].tx = x => Earned(x)',
             record'[x] = "completed" => record[x] = "completed" \/ Earned(x)
      PROVE  RecordSound(x)'
  <2>1. SoundStep(x)
    BY <1>1, <1>3 DEF SoundStep
  <2> QED
    BY <2>1, SoundKept DEF ClaimInv
<1>4. watch[w] \in Hand
  BY DEF PaymentTyped, ActorsTyped
<1>5. [watch[w] EXCEPT !.pc = "next", !.tx = Nobody, !.payer = Nobody].pc = "next"
  BY <1>4 DEF Hand
<1>7. CASE ReadWatermark(w) \/ FetchPage(w) \/ LookUp(w) \/ FetchFails(w) \/ WatcherCrash(w)
  <2>1. record' = record
    BY <1>7 DEF ReadWatermark, FetchPage, LookUp, FetchFails, WatcherCrash, recU
  <2>2. watch'[w].pc # "issue"
    <3>1. CASE ReadWatermark(w)
      <4>1. [Idle EXCEPT !.pc = "fetch", !.mark = Watermark].pc = "fetch"
        BY IdleTyped DEF Hand
      <4> QED
        BY <3>1, <4>1, <1>6 DEF ReadWatermark
    <3>2. CASE FetchPage(w)
      <4>1. [Idle EXCEPT !.pc = "next", !.todo = Page(watch[w].mark)].pc = "next"
        BY IdleTyped DEF Hand
      <4> QED
        BY <3>2, <4>1, <1>6 DEF FetchPage
    <3>3. CASE FetchFails(w) \/ WatcherCrash(w)
      BY <3>3, <1>6, IdleTyped DEF FetchFails, WatcherCrash
    <3>4. CASE LookUp(w)
      BY <3>4, <1>4, <1>6, IdleTyped DEF LookUp, Hand
    <3> QED
      BY <1>7, <3>1, <3>2, <3>3, <3>4
  <2> QED
    BY <1>2, <1>3, <2>1, <2>2
<1>8. CASE Unmatched(w)
  <2>1. watch'[w].pc # "issue"
    BY <1>8, <1>5, <1>6, IdleTyped DEF Unmatched, AbortTick, NextTx
  <2>2. record'[x] = "completed" => record[x] = "completed"
    BY <1>8 DEF Unmatched, PaymentTyped, RecordsTyped
  <2> QED
    BY <1>2, <1>3, <2>1, <2>2
<1>9. CASE AmountMismatch(w)
  <2>1. watch'[w].pc # "issue" /\ record' = record
    BY <1>9, <1>5, <1>6 DEF AmountMismatch, NextTx, recU
  <2> QED
    BY <1>2, <1>3, <2>1
<1>10. CASE ActivatePlan(w)
  <2>1. /\ watch'[w].tx = y /\ record' = record /\ dep' = dep /\ dep[y].enough
        /\ activated' = [activated EXCEPT ![y] = Twice(@)] /\ watch[w].pc = "match"
    BY <1>10, <1>4, <1>6 DEF ActivatePlan, Activate, recU, Hand
  <2>2. y \in Deposit
    BY <2>1 DEF PaymentTyped, ActorsTyped, InHand, Hand
  <2>3. activated'[y] > 0
    BY <2>1, <2>2 DEF PaymentTyped, RecordsTyped, Twice
  <2>4. y = x => Earned(x)'
    BY <2>1, <2>3 DEF Earned
  <2> QED
    BY <1>2, <1>3, <2>1, <2>4
<1>11. CASE IssueKey(w)
  <2>1. watch'[w].pc # "issue" /\ watch[w].pc = "issue"
    BY <1>11, <1>5, <1>6, IdleTyped DEF IssueKey, AbortTick, NextTx
  <2>2. y \in Deposit /\ Earned(y)
    BY <2>1, <1>6 DEF PaymentTyped, ActorsTyped, InHand, Hand, ClaimInv, RecordSound
  <2>3. record' = record \/ record' = [record EXCEPT ![y] = "completed"]
    BY <1>11 DEF IssueKey, WriteRecord, recU
  <2>4. record'[x] = "completed" => record[x] = "completed" \/ x = y
    BY <2>3 DEF PaymentTyped, RecordsTyped
  <2> QED
    BY <1>2, <1>3, <2>1, <2>2, <2>4
<1> QED
  BY <1>2, <1>7, <1>8, <1>9, <1>10, <1>11 DEF WatcherStep

LEMMA ClerkSound ==
    ASSUME ClaimInv, PaymentTyped, NEW x \in Deposit, NEW c \in Clerk, [UsdtNext]_usdtVars,
           \/ \E t \in Payer, z \in Deposit : ConfirmLookUp(c, t, z)
           \/ ConfirmActivate(c) \/ ConfirmIssue(c) \/ ClerkFails(c)
    PROVE  RecordSound(x)' /\ ClaimedOnce(x)'
<1> DEFINE y == clerk[c].tx
<1>1. clerk \in [Clerk -> Hand] /\ clerk[c] \in Hand
  BY DEF PaymentTyped, ActorsTyped
<1>2. UNCHANGED <<watch, handed, claimed, claimRaced>> /\ \A d \in Clerk \ {c} : clerk'[d] = clerk[d]
  BY <1>1 DEF ConfirmLookUp, ConfirmActivate, Activate, ConfirmIssue, WriteRecord, ClerkFails, recU
<1>3. ASSUME clerk'[c].pc # "claim",
             clerk'[c].tx = x => /\ clerk'[c].pc = "activate" => dep'[x].enough
                                 /\ clerk'[c].pc = "issue" => Earned(x)',
             record'[x] = "completed" => record[x] = "completed" \/ Earned(x)
      PROVE  RecordSound(x)' /\ ClaimedOnce(x)'
  <2>1. SoundStep(x)
    BY <1>2, <1>3 DEF SoundStep
  <2>2. \A d \in Clerk : HasClaim(d, x)' => HasClaim(d, x)
    BY <1>2, <1>3 DEF HasClaim
  <2> QED
    BY <1>2, <2>1, <2>2, SoundKept, OnceKept DEF ClaimInv
<1>4. ASSUME NEW t \in Payer, NEW z \in Deposit, ConfirmLookUp(c, t, z)
      PROVE  RecordSound(x)' /\ ClaimedOnce(x)'
  <2> DEFINE h == [Idle EXCEPT !.pc = "activate", !.tx = z, !.payer = t]
  <2>1. h.pc = "activate" /\ h.tx = z
    BY IdleTyped DEF Hand
  <2>2. clerk' = [clerk EXCEPT ![c] = h] /\ dep' = dep /\ record' = record /\ dep[z].enough
    BY <1>4 DEF ConfirmLookUp, recU
  <2> HIDE DEF h
  <2>3. clerk'[c] = h
    BY <1>1, <2>2
  <2> QED
    BY <1>3, <2>1, <2>2, <2>3
<1>5. CASE ConfirmActivate(c)
  <2>1. /\ clerk[c].pc = "activate" /\ record' = record /\ dep' = dep
        /\ activated' = [activated EXCEPT ![y] = Twice(@)]
        /\ clerk' = [clerk EXCEPT ![c].pc = "issue"]
    BY <1>5 DEF ConfirmActivate, Activate, recU
  <2>2. y \in Deposit
    BY <2>1, <1>1 DEF PaymentTyped, InHand, Hand
  <2>3. clerk'[c].pc = "issue" /\ clerk'[c].tx = y
    BY <2>1, <1>1 DEF Hand
  <2>4. activated'[y] > 0
    BY <2>1, <2>2 DEF PaymentTyped, RecordsTyped, Twice
  <2>5. dep[y].enough
    BY <2>1, <2>2 DEF ClaimInv, RecordSound
  <2>6. y = x => Earned(x)'
    BY <2>1, <2>4, <2>5 DEF Earned
  <2> QED
    BY <1>3, <2>1, <2>3, <2>6
<1>6. CASE ConfirmIssue(c)
  <2>1. clerk[c].pc = "issue" /\ clerk' = [clerk EXCEPT ![c] = Idle] /\ WriteRecord(y, clerk[c].payer)
    BY <1>6 DEF ConfirmIssue
  <2>2. clerk'[c].pc = "idle"
    BY <1>1, <2>1, IdleTyped
  <2>3. y \in Deposit /\ Earned(y)
    BY <2>1, <1>1 DEF PaymentTyped, InHand, Hand, ClaimInv, RecordSound
  <2>4. record' = record \/ record' = [record EXCEPT ![y] = "completed"]
    BY <2>1 DEF WriteRecord, recU
  <2>5. record'[x] = "completed" => record[x] = "completed" \/ x = y
    BY <2>4 DEF PaymentTyped, RecordsTyped
  <2> QED
    BY <1>3, <2>2, <2>3, <2>5
<1>7. CASE ClerkFails(c)
  <2>1. clerk' = [clerk EXCEPT ![c] = Idle] /\ record' = record
    BY <1>7 DEF ClerkFails, recU
  <2>2. clerk'[c].pc = "idle"
    BY <1>1, <2>1, IdleTyped
  <2> QED
    BY <1>3, <2>1, <2>2
<1> QED
  BY <1>4, <1>5, <1>6, <1>7

(* The two steps of a claim.                                               *)
LEMMA ClaimSound ==
    ASSUME ClaimInv, PaymentTyped, NEW x \in Deposit, NEW c \in Clerk, [UsdtNext]_usdtVars,
           ClaimWrite(c) \/ \E t \in Payer : ClaimRead(c, t)
    PROVE  RecordSound(x)' /\ ClaimedOnce(x)'
<1> DEFINE y == clerk[c].tx
<1>1. clerk \in [Clerk -> Hand] /\ clerk[c] \in Hand
  BY DEF PaymentTyped, ActorsTyped
<1>2. UNCHANGED <<watch, record>> /\ \A d \in Clerk \ {c} : clerk'[d] = clerk[d]
  BY <1>1 DEF ClaimRead, ClaimWrite, recU
<1>3. ASSUME NEW t \in Payer, ClaimRead(c, t) PROVE RecordSound(x)' /\ ClaimedOnce(x)'
  <2>1. PICK z \in Unclaimed(t) :
            /\ clerk' = [clerk EXCEPT ![c] = [Idle EXCEPT !.pc = "claim", !.tx = z]]
            /\ claimRaced' = IF \E d \in Clerk : clerk[d].pc = "claim" /\ clerk[d].tx = z
                             THEN claimRaced \cup {z} ELSE claimRaced
    BY <1>3 DEF ClaimRead
  <2> DEFINE h == [Idle EXCEPT !.pc = "claim", !.tx = z]
  <2>2. h.pc = "claim" /\ h.tx = z
    BY IdleTyped DEF Hand
  <2>3. clerk'[c] = h
    BY <1>1, <2>1
  <2> HIDE DEF h
  <2>4. UNCHANGED <<handed, claimed, dep>>
    BY <1>3 DEF ClaimRead, recU
  <2>5. z \in Deposit /\ record[z] = "completed" /\ ~claimed[z]
    BY DEF Unclaimed
  <2>6. RecordSound(x)'
    <3>1. SoundStep(x)
      BY <1>2, <2>2, <2>3, <2>4, <2>5 DEF SoundStep
    <3> QED
      BY <3>1, SoundKept DEF ClaimInv
  <2>7. CASE z = x
    <3>1. ~(handed[x] > 0)
      BY <2>5, <2>7 DEF ClaimInv, RecordSound
    <3>2. handed[x] = 0
      BY <3>1 DEF PaymentTyped, RecordsTyped
    <3>3. x \notin claimRaced' => \A d \in Clerk : ~HasClaim(d, x)
      BY <2>1, <2>7 DEF HasClaim
    <3>4. \A d \in Clerk \ {c} : HasClaim(d, x)' = HasClaim(d, x)
      BY <1>2 DEF HasClaim
    <3> QED
      BY <2>4, <2>6, <3>2, <3>3, <3>4 DEF ClaimedOnce
  <2>8. CASE z # x
    <3>1. ~HasClaim(c, x)'
      BY <2>2, <2>3, <2>8 DEF HasClaim
    <3>2. \A d \in Clerk : HasClaim(d, x)' => HasClaim(d, x)
      BY <1>2, <3>1 DEF HasClaim
    <3>3. claimRaced \subseteq claimRaced'
      BY <2>1
    <3> QED
      BY <2>4, <2>6, <3>2, <3>3, OnceKept DEF ClaimInv
  <2> QED
    BY <2>7, <2>8
<1>4. CASE ClaimWrite(c)
  <2>1. /\ clerk[c].pc = "claim" /\ clerk' = [clerk EXCEPT ![c] = Idle]
        /\ claimed' = [claimed EXCEPT ![y] = TRUE]
        /\ handed' = [handed EXCEPT ![y] = Twice(@)]
        /\ claimRaced' = claimRaced
    BY <1>4 DEF ClaimWrite
  <2>2. y \in Deposit
    BY <2>1, <1>1 DEF PaymentTyped, InHand, Hand
  <2>3. record[y] = "completed" /\ claimed'[y]
    BY <2>1, <2>2 DEF ClaimInv, RecordSound, PaymentTyped, RecordsTyped
  <2>4. clerk'[c].pc = "idle"
    BY <1>1, <2>1, IdleTyped
  <2>5. RecordSound(x)'
    <3>1. handed'[x] > 0 => handed[x] > 0 \/ x = y
      BY <2>1
    <3>2. SoundStep(x)
      BY <1>2, <2>1, <2>3, <2>4, <3>1 DEF SoundStep
    <3> QED
      BY <3>2, SoundKept DEF ClaimInv
  <2>6. ~HasClaim(c, x)' /\ \A d \in Clerk \ {c} : HasClaim(d, x)' = HasClaim(d, x)
    BY <1>2, <2>4 DEF HasClaim
  <2>7. CASE y = x
    <3>1. HasClaim(c, x)
      BY <2>1, <2>7 DEF HasClaim
    <3>2. x \notin claimRaced => handed[x] = 0 /\ \A d \in Clerk : ~HasClaim(d, x)'
      BY <2>6, <3>1 DEF ClaimInv, ClaimedOnce
    <3>3. handed[x] = 0 => handed'[x] = 1
      BY <2>1, <2>7 DEF PaymentTyped, RecordsTyped, Twice
    <3> QED
      BY <2>1, <2>5, <3>2, <3>3 DEF ClaimedOnce
  <2>8. CASE y # x
    BY <2>1, <2>5, <2>6, <2>8, OnceKept DEF ClaimInv
  <2> QED
    BY <2>7, <2>8
<1> QED
  BY <1>3, <1>4

LEMMA ClaimStep == ClaimInv /\ PaymentTyped /\ [UsdtNext]_usdtVars => ClaimInv'
<1> SUFFICES ASSUME ClaimInv, PaymentTyped, [UsdtNext]_usdtVars, NEW x \in Deposit
             PROVE  RecordSound(x)' /\ ClaimedOnce(x)'
  BY DEF ClaimInv
<1>1. ASSUME UNCHANGED <<watch, clerk, record, handed, claimRaced>>
      PROVE  RecordSound(x)' /\ ClaimedOnce(x)'
  <2>1. SoundStep(x)
    BY <1>1 DEF SoundStep
  <2> QED
    BY <1>1, <2>1, SoundKept, OnceKept DEF ClaimInv, HasClaim
<1>2. CASE UNCHANGED usdtVars
  BY <1>1, <1>2 DEF usdtVars, recU, histU
<1>3. ASSUME NEW t \in Payer,
             RequestKey(t) \/ CreateUsdtInvoice(t) \/ CancelSubscription(t) \/ PeriodOver(t)
      PROVE  RecordSound(x)' /\ ClaimedOnce(x)'
  BY <1>1, <1>3 DEF RequestKey, CreateUsdtInvoice, CancelSubscription, PeriodOver, recU, histU
<1>4. ASSUME NEW z \in Deposit, Transfer(z) PROVE RecordSound(x)' /\ ClaimedOnce(x)'
  BY <1>1, <1>4 DEF Transfer, recU, histU
<1> QED
  BY <1>2, <1>3, <1>4, JobSound, ClerkSound, ClaimSound DEF UsdtNext

(* A record says completed only of a transfer that was enough and          *)
(* activated a plan; its key is handed out once, unless two requests read  *)
(* it before either marked it claimed (claim_api_key).                     *)
THEOREM KeysClaimedOnce == UsdtSpec => []KeyClaimedOnce
<1>1. UsdtInit => ClaimInv
  BY IdleTyped DEF UsdtInit, ClaimInv, RecordSound, ClaimedOnce, HasClaim
<1>2. ClaimInv /\ PaymentTyped => KeyClaimedOnce
  BY DEF ClaimInv, RecordSound, ClaimedOnce, Earned, PaymentTyped, RecordsTyped, KeyClaimedOnce
<1> QED
  BY <1>1, <1>2, ClaimStep, PaymentHolds, PTL DEF UsdtSpec

-----------------------------------------------------------------------------
(* Invoices of the two other providers.                                    *)

Handler == Hook \cup Job
AtWork(h, i, pcs) == hand[h].inv = i /\ hand[h].pc \in pcs

(* The types, but for the sets that only record. *)
InvoiceTyped ==
    /\ row \in [Invoice -> {"absent", "open", "fulfilled"}]
    /\ pay \in [Invoice -> Paid \cup {"unpaid", "expired", "short"}]
    /\ hand \in [Handler -> [pc : {"free", "verify", "claim", "key", "commission"},
                             inv : Invoice \cup {NoInvoice}]]
    /\ plans \in [Invoice -> 0 .. 2] /\ keys \in [Invoice -> 0 .. 2]
    /\ commissions \in [Invoice -> 0 .. 1]

InvoiceMarked ==
    /\ legacy \subseteq Invoice /\ coded \subseteq Invoice /\ cut \subseteq Invoice
    /\ ipn \subseteq Invoice \X (Paid \cup {"expired", "short"})
    /\ ifaults \in 0 .. InvoiceFaults

(* A handler that is at work has an invoice, and claims only what is paid. *)
HandlersKnow ==
    \A h \in Handler :
        /\ hand[h].pc # "free" => hand[h].inv \in Invoice
        /\ hand[h].pc = "claim" => pay[hand[h].inv] \in Paid

(* The claim of the row goes with the plan. *)
ClaimedWithPlan ==
    \A i \in Invoice :
        /\ row[i] = "fulfilled" => plans[i] = 1 /\ pay[i] \in Paid
        /\ row[i] # "fulfilled" => plans[i] = 0 /\ keys[i] = 0 /\ commissions[i] = 0
        /\ keys[i] <= 1

(* One handler finishes what it claimed ... *)
OneFinisher ==
    \A i \in Invoice, g, h \in Handler :
        AtWork(g, i, {"key", "commission"}) /\ AtWork(h, i, {"key", "commission"}) => g = h

(* ... in order, and is not missed while it does. *)
Finishing ==
    \A i \in Invoice, h \in Handler :
        /\ AtWork(h, i, {"key"}) => row[i] = "fulfilled" /\ keys[i] = 0
        /\ AtWork(h, i, {"commission"}) => row[i] = "fulfilled" /\ keys[i] = 1

NothingMissing ==
    \A i \in Invoice :
        row[i] = "fulfilled" /\ i \notin cut
        /\ (\A h \in Handler : ~AtWork(h, i, {"key", "commission"})) =>
            keys[i] = 1 /\ (i \in coded => commissions[i] = 1)

InvoiceInv ==
    InvoiceTyped /\ HandlersKnow /\ ClaimedWithPlan /\ OneFinisher /\ Finishing /\ NothingMissing

LEMMA InvoiceInitially == InvoiceInit => InvoiceInv /\ InvoiceMarked
BY InvoiceAssumption
DEF InvoiceInit, InvoiceAssumption, InvoiceInv, InvoiceMarked, InvoiceTyped, HandlersKnow,
    ClaimedWithPlan, OneFinisher, Finishing, NothingMissing, AtWork, Handler, Free, Paid

(* The steps that leave the rows and what was bought alone.                *)
LEMMA InvoiceQuiet ==
    ASSUME InvoiceInv,
           UNCHANGED <<coded, plans, keys, commissions, cut>>,
           \/ \E i \in Invoice : CreatePayment(i) \/ PaymentMoves(i)
           \/ \E h \in Hook, i \in Invoice : WebhookArrives(h, i)
           \/ \E j \in Job, i \in Invoice : JobPicks(j, i)
           \/ \E h \in Handler : Verify(h) \/ ProviderFails(h)
           \/ UNCHANGED invoiceVars
    PROVE  InvoiceInv'
<1> USE DEF InvoiceInv, InvoiceTyped, HandlersKnow, ClaimedWithPlan, OneFinisher, Finishing,
            NothingMissing, AtWork, Handler, Free, Paid
<1>1. ASSUME NEW i \in Invoice, CreatePayment(i) PROVE InvoiceInv'
  BY <1>1 DEF CreatePayment
<1>2. ASSUME NEW i \in Invoice, PaymentMoves(i) PROVE InvoiceInv'
  BY <1>2 DEF PaymentMoves, Announce
<1>3. ASSUME NEW h \in Hook, NEW i \in Invoice, WebhookArrives(h, i) PROVE InvoiceInv'
  BY <1>3 DEF WebhookArrives, Take
<1>4. ASSUME NEW j \in Job, NEW i \in Invoice, JobPicks(j, i) PROVE InvoiceInv'
  BY <1>4 DEF JobPicks, Take
<1>5. ASSUME NEW h \in Handler, Verify(h) PROVE InvoiceInv'
  <2>1. CASE pay[hand[h].inv] \in Paid
    BY <1>5, <2>1 DEF Verify, Take
  <2>2. CASE pay[hand[h].inv] \notin Paid
    <3>1. hand' = [hand EXCEPT ![h] = Free] /\ UNCHANGED <<row, pay>>
      BY <1>5, <2>2 DEF Verify, Drop
    <3> QED
      BY <1>5, <3>1 DEF Verify
  <2> QED
    BY <2>1, <2>2
<1>6. ASSUME NEW h \in Handler, ProviderFails(h) PROVE InvoiceInv'
  BY <1>6 DEF ProviderFails, Drop
<1>7. CASE UNCHANGED invoiceVars
  BY <1>7 DEF invoiceVars, grantsV
<1> QED
  BY <1>1, <1>2, <1>3, <1>4, <1>5, <1>6, <1>7

(* The claim: the row is open, so nobody finishes it yet.                  *)
LEMMA InvoiceClaims ==
    ASSUME InvoiceInv, NEW h \in Handler, Claim(h)
    PROVE  InvoiceInv'
<1> USE DEF InvoiceInv, InvoiceTyped, HandlersKnow, ClaimedWithPlan, OneFinisher, Finishing,
            NothingMissing, AtWork, Handler, Free, Paid
<1> DEFINE i == hand[h].inv
<1>1. i \in Invoice /\ pay[i] \in Paid
  BY DEF Claim
<1>2. CASE Claims(i)
  <2>1. row[i] = "open" /\ plans[i] = 0 /\ keys[i] = 0
    BY <1>1, <1>2 DEF Claims
  <2>2. \A g \in Handler : ~AtWork(g, i, {"key", "commission"})
    BY <1>1, <2>1
  <2>3. /\ row' = [row EXCEPT ![i] = "fulfilled"]
        /\ plans' = [plans EXCEPT ![i] = UpTo2(@)]
        /\ hand' = [hand EXCEPT ![h] = [pc |-> "key", inv |-> i]]
        /\ UNCHANGED <<coded, pay, keys, commissions, cut>>
    BY <1>2 DEF Claim, Take
  <2>4. UpTo2(plans[i]) = 1
    BY <2>1 DEF UpTo2
  <2>5. InvoiceTyped' /\ HandlersKnow' /\ ClaimedWithPlan'
    BY <1>1, <2>1, <2>3, <2>4
  <2>6. OneFinisher' /\ Finishing' /\ NothingMissing'
    BY <1>1, <2>1, <2>2, <2>3
  <2> QED
    BY <2>5, <2>6
<1>3. CASE ~Claims(i)
  <2>1. /\ hand' = [hand EXCEPT ![h] = Free]
        /\ UNCHANGED <<coded, row, pay, plans, keys, commissions, cut>>
    BY <1>3 DEF Claim, Drop
  <2>2. hand[h].pc = "claim"
    BY DEF Claim
  <2> QED
    BY <2>1, <2>2
<1> QED
  BY <1>2, <1>3

LEMMA InvoiceFinishes ==
    ASSUME InvoiceInv, NEW h \in Handler, IssueInvoiceKey(h) \/ Commission(h) \/ HandlerDies(h)
    PROVE  InvoiceInv'
<1> USE DEF InvoiceInv, InvoiceTyped, HandlersKnow, ClaimedWithPlan, OneFinisher, Finishing,
            NothingMissing, AtWork, Handler, Free, Paid
<1> DEFINE i == hand[h].inv
<1>1. CASE IssueInvoiceKey(h)
  <2>1. i \in Invoice /\ row[i] = "fulfilled" /\ keys[i] = 0
    BY <1>1 DEF IssueInvoiceKey
  <2>2. UpTo2(keys[i]) = 1
    BY <2>1 DEF UpTo2
  <2>3. /\ keys' = [keys EXCEPT ![i] = 1]
        /\ hand' = [hand EXCEPT ![h] = [pc |-> "commission", inv |-> i]]
        /\ UNCHANGED <<coded, row, pay, plans, commissions, cut>>
    BY <1>1, <2>2 DEF IssueInvoiceKey, Take
  <2>4. InvoiceTyped' /\ HandlersKnow' /\ ClaimedWithPlan'
    BY <2>1, <2>3
  <2>5. OneFinisher' /\ Finishing' /\ NothingMissing'
    BY <1>1, <2>1, <2>3 DEF IssueInvoiceKey
  <2> QED
    BY <2>4, <2>5
<1>2. CASE Commission(h)
  <2>1. i \in Invoice /\ row[i] = "fulfilled" /\ keys[i] = 1
    BY <1>2 DEF Commission
  <2>2. /\ commissions' = [commissions EXCEPT ![i] = IF i \in coded /\ @ = 0 THEN 1 ELSE @]
        /\ hand' = [hand EXCEPT ![h] = Free]
        /\ UNCHANGED <<coded, row, pay, plans, keys, cut>>
    BY <1>2 DEF Commission, Drop
  <2>3. i \in coded => commissions'[i] = 1
    BY <2>1, <2>2
  <2>4. InvoiceTyped' /\ HandlersKnow' /\ ClaimedWithPlan'
    BY <2>1, <2>2
  <2>5. OneFinisher' /\ Finishing'
    BY <2>1, <2>2
  <2>6. \A k \in Invoice \ {i} : commissions'[k] = commissions[k]
    BY <2>2
  <2>7. \A k \in Invoice \ {i}, g \in Handler :
            AtWork(g, k, {"key", "commission"}) => g # h /\ AtWork(g, k, {"key", "commission"})'
    BY <2>2
  <2>8. NothingMissing'
    BY <2>1, <2>2, <2>3, <2>6, <2>7
  <2> QED
    BY <2>4, <2>5, <2>8
<1>3. CASE HandlerDies(h)
  <2>1. /\ cut' = cut \cup {i}
        /\ hand' = [hand EXCEPT ![h] = Free]
        /\ UNCHANGED <<coded, row, pay, plans, keys, commissions>>
    BY <1>3 DEF HandlerDies, Drop
  <2>2. \A k \in Invoice \ {i}, g \in Handler :
            AtWork(g, k, {"key", "commission"}) => g # h /\ AtWork(g, k, {"key", "commission"})'
    BY <2>1
  <2> QED
    BY <2>1, <2>2
<1> QED
  BY <1>1, <1>2, <1>3

LEMMA InvoiceStep == InvoiceInv /\ [InvoiceNext]_invoiceVars => InvoiceInv'
<1> SUFFICES ASSUME InvoiceInv, [InvoiceNext]_invoiceVars PROVE InvoiceInv'
  OBVIOUS
<1>1. ASSUME NEW i \in Invoice, CreatePayment(i) \/ PaymentMoves(i) PROVE InvoiceInv'
  BY <1>1, InvoiceQuiet DEF CreatePayment, PaymentMoves, Announce, grantsV
<1>2. ASSUME NEW h \in Hook, NEW i \in Invoice, WebhookArrives(h, i) PROVE InvoiceInv'
  BY <1>2, InvoiceQuiet DEF WebhookArrives, grantsV
<1>3. ASSUME NEW j \in Job, NEW i \in Invoice, JobPicks(j, i) PROVE InvoiceInv'
  BY <1>3, InvoiceQuiet DEF JobPicks, grantsV
<1>4. ASSUME NEW h \in Handler, Fulfilling(h) PROVE InvoiceInv'
  BY <1>4, InvoiceQuiet, InvoiceClaims, InvoiceFinishes DEF Fulfilling, Verify, grantsV
<1>5. ASSUME NEW h \in Handler, ProviderFails(h) \/ HandlerDies(h) PROVE InvoiceInv'
  BY <1>5, InvoiceQuiet, InvoiceFinishes DEF ProviderFails, grantsV
<1>6. CASE UNCHANGED invoiceVars
  BY <1>6, InvoiceQuiet DEF invoiceVars, grantsV
<1> QED
  BY <1>1, <1>2, <1>3, <1>4, <1>5, <1>6 DEF InvoiceNext, JobStep, Handler

LEMMA InvoiceMarks == InvoiceInv /\ InvoiceMarked /\ [InvoiceNext]_invoiceVars => InvoiceMarked'
<1> SUFFICES ASSUME InvoiceInv, InvoiceMarked, [InvoiceNext]_invoiceVars PROVE InvoiceMarked'
  OBVIOUS
<1> USE InvoiceAssumption DEF InvoiceMarked, InvoiceAssumption
<1>1. ASSUME NEW i \in Invoice, CreatePayment(i) \/ PaymentMoves(i) PROVE InvoiceMarked'
  BY <1>1 DEF CreatePayment, PaymentMoves, Announce, grantsV, Paid
<1>2. ASSUME NEW h \in Handler, NEW i \in Invoice, WebhookArrives(h, i) \/ JobPicks(h, i)
      PROVE  InvoiceMarked'
  BY <1>2 DEF WebhookArrives, JobPicks, grantsV
<1>3. ASSUME NEW h \in Handler, Fulfilling(h) \/ ProviderFails(h) PROVE InvoiceMarked'
  BY <1>3 DEF Fulfilling, Verify, Claim, IssueInvoiceKey, Commission, ProviderFails, grantsV
<1>4. ASSUME NEW h \in Handler, HandlerDies(h) PROVE InvoiceMarked'
  BY <1>4 DEF HandlerDies, InvoiceInv, InvoiceTyped, HandlersKnow, Handler, Free
<1>5. CASE UNCHANGED invoiceVars
  BY <1>5 DEF invoiceVars, grantsV
<1> QED
  BY <1>1, <1>2, <1>3, <1>4, <1>5 DEF InvoiceNext, JobStep, Handler

(* Every variable keeps its type. *)
THEOREM InvoicesTyped == InvoiceSpec => []InvoiceTypeOK
<1>1. InvoiceInv /\ InvoiceMarked => InvoiceTypeOK
  BY DEF InvoiceInv, InvoiceTyped, InvoiceMarked, InvoiceTypeOK, Handler
<1> QED
  BY <1>1, InvoiceInitially, InvoiceStep, InvoiceMarks, PTL DEF InvoiceSpec

(* A payment is turned into one plan, one key and one commission however   *)
(* many webhooks and jobs handle it and die: _fulfill_transaction claims   *)
(* the row and sets the plan in one commit.                                *)
THEOREM InvoicesFulfilledOnce == InvoiceSpec => []FulfilledOnce
<1>1. InvoiceInv => FulfilledOnce
  <2> SUFFICES ASSUME InvoiceInv, NEW i \in Invoice
               PROVE  /\ plans[i] <= 1 /\ keys[i] <= 1
                      /\ plans[i] = 1 => row[i] = "fulfilled" /\ pay[i] \in Paid
                      /\ row[i] = "fulfilled" /\ i \notin cut
                         /\ Underway(i, {"key", "commission"}) = {} =>
                            keys[i] = 1 /\ (i \in coded => commissions[i] = 1)
    BY DEF FulfilledOnce
  <2>1. plans[i] <= 1 /\ keys[i] <= 1 /\ (plans[i] = 1 => row[i] = "fulfilled" /\ pay[i] \in Paid)
    BY DEF InvoiceInv, InvoiceTyped, ClaimedWithPlan
  <2>2. Underway(i, {"key", "commission"}) = {} =>
            \A h \in Handler : ~AtWork(h, i, {"key", "commission"})
    BY DEF Underway, AtWork, Handler
  <2> QED
    BY <2>1, <2>2 DEF InvoiceInv, NothingMissing
<1> QED
  BY <1>1, InvoiceInitially, InvoiceStep, PTL DEF InvoiceSpec

-----------------------------------------------------------------------------
(* Broadcasts and payments together, for every value of all their          *)
(* constants.  MCProgress follows one part in each behaviour; here all of  *)
(* them are at work and interleave as they please.                         *)
allProgressVars == <<vars, usdtVars, invoiceVars>>

AllProgressNext ==
    \/ Next /\ UNCHANGED <<usdtVars, invoiceVars>>
    \/ UsdtNext /\ UNCHANGED <<vars, invoiceVars>>
    \/ InvoiceNext /\ UNCHANGED <<vars, usdtVars>>

AllProgressSpec == Init /\ UsdtInit /\ InvoiceInit /\ [][AllProgressNext]_allProgressVars

(* A step of the whole is a step of every part, or leaves the part alone.  *)
LEMMA AllProgressStep ==
    [AllProgressNext]_allProgressVars =>
        [Next]_vars /\ [UsdtNext]_usdtVars /\ [InvoiceNext]_invoiceVars
BY DEF AllProgressNext, allProgressVars

LEMMA AllProgressKeepsSpecs == AllProgressSpec => Spec /\ UsdtSpec /\ InvoiceSpec
BY AllProgressStep, PTL DEF AllProgressSpec, Spec, UsdtSpec, InvoiceSpec

(* What the run follows is one of these behaviours, so that whatever is    *)
(* proved of the whole holds of the run, whatever instance it checks.      *)
LEMMA ProgressIsFollowed == ProgressSpec => AllProgressSpec
<1>1. ProgressInit => Init /\ UsdtInit /\ InvoiceInit
  BY DEF ProgressInit
<1>2. [ProgressNext]_progressVars => [AllProgressNext]_allProgressVars
  BY DEF ProgressNext, progressVars, AllProgressNext, allProgressVars
<1> QED
  BY <1>1, <1>2, PTL DEF ProgressSpec, AllProgressSpec

(* What is promised of payments and of broadcasts holds while all of them  *)
(* are at work: a transfer activates one plan, makes one key and hands it  *)
(* out once, an invoice is fulfilled once, a broadcast has one run and     *)
(* none once it is settled, a failed one has nobody on record as served,   *)
(* and a paused series starts at most one more occurrence.                 *)
THEOREM ProgressIsSafe ==
    ASSUME OneSchedulerOrNoSeries
    PROVE  AllProgressSpec => /\ [](OneKeyPerDeposit /\ DepositPaysOnce /\ KeyClaimedOnce)
                              /\ []FulfilledOnce
                              /\ [](SoleRunner /\ TerminalIsQuiet /\ RunDiscipline /\ FailedMeansUnlogged)
                              /\ []PauseStopsSeries
<1>1. /\ Spec => []SoleRunner
      /\ Spec => []TerminalIsQuiet
      /\ Spec => []RunDiscipline
      /\ Spec => []FailedMeansUnlogged
      /\ Spec => []PauseStopsSeries
  BY SoleRunnerHolds, TerminalIsQuietHolds, RunDisciplineHolds, FailedMeansUnloggedHolds, PauseStopsSeriesHolds
<1> QED
  BY <1>1, AllProgressKeepsSpecs, DepositsKeyedOnce, DepositsPaidOnce, KeysClaimedOnce, InvoicesFulfilledOnce, PTL
=============================================================================
