---------------------------- MODULE UsdtDeposits ----------------------------
(***************************************************************************)
(* Paying a plan in USDT (app/services/usdt_watcher.py, app/api/           *)
(* usdt_payment.py, app/services/purchase_service.py and the USDT half of  *)
(* app/services/billing.py).  The payer is told a reference to put into    *)
(* the memo of a transfer; a scheduled job reads the transfers of the      *)
(* wallet, newest first, and activates the plan; an administrator may      *)
(* confirm a transfer by hand; the payer fetches the key once.             *)
(*                                                                         *)
(* apply_plan_limits commits, so the plan is active before the key and the *)
(* payment_records row are written, in a second transaction.  Building the *)
(* commission of a referred payer raises (the columns named do not exist), *)
(* after the first of the two.                                             *)
(***************************************************************************)
EXTENDS Integers, FiniteSets, FiniteSetsExt

CONSTANTS
    Deposit,        \* transfers (a bound)
    Payer,          \* tenants
    Watcher,        \* processes whose scheduler runs check_usdt_payments
    Clerk,          \* requests: confirming a transfer, claiming a key
    PageSize,       \* limit of get_usdt_transactions
    MaxRefs,        \* bound on references issued
    UsdtFaults,     \* bound on crashes and failed calls of the chain API
    Nobody

ASSUME UsdtAssumption ==
    /\ Nobody \notin Deposit \cup Payer
    /\ IsFiniteSet(Deposit)
    /\ PageSize \in Nat \ {0} /\ MaxRefs \in Nat /\ UsdtFaults \in Nat

VARIABLES
    sub, ref,           \* tenants: subscription_status, payment_ref
    referred,           \* tenants with referred_by set and not rewarded
    refs,               \* references handed out so far
    dep,                \* transfers in the chain
    record, owner, claimed,  \* payment_records
    watch,              \* check_usdt_payments of each process
    clerk,              \* requests in progress
    ufaults,
    \* history: activations and keys per transfer, keys handed out per
    \* transfer, transfers that two actors had in hand or one failed with,
    \* keys that two requests read at once
    activated, issued, handed, hindered, claimRaced

rowU  == <<sub, ref, referred, refs>>
recU  == <<record, owner, claimed>>
histU == <<activated, issued, handed, hindered, claimRaced>>
usdtVars == <<rowU, dep, recU, watch, clerk, ufaults, histU>>

Unsent == [time |-> 0, memo |-> 0, enough |-> FALSE]
Idle   == [pc |-> "idle", mark |-> 0, todo |-> {}, tx |-> Nobody, payer |-> Nobody]

UsdtInit ==
    /\ sub \in [Payer -> {"active", "expired"}]
    /\ ref = [t \in Payer |-> 0] /\ refs = 0 /\ referred \in SUBSET Payer
    /\ dep = [x \in Deposit |-> Unsent]
    /\ record = [x \in Deposit |-> "none"]
    /\ owner = [x \in Deposit |-> Nobody]
    /\ claimed = [x \in Deposit |-> FALSE]
    /\ watch = [w \in Watcher |-> Idle]
    /\ clerk = [c \in Clerk |-> Idle]
    /\ ufaults = 0
    /\ activated = [x \in Deposit |-> 0] /\ issued = [x \in Deposit |-> 0]
    /\ handed = [x \in Deposit |-> 0]
    /\ hindered = {} /\ claimRaced = {}

Sent       == {x \in Deposit : dep[x].time > 0}
Newest(S)  == CHOOSE x \in S : \A y \in S : dep[y].time <= dep[x].time
NewestOf(S, n) == {x \in S : Cardinality({y \in S : dep[y].time > dep[x].time}) < n}
Matching(x) == {t \in Payer : ref[t] > 0 /\ ref[t] = dep[x].memo}
Twice(n)   == IF n < 2 THEN n + 1 ELSE 2

(* Actors that have a transfer in hand and have seen it unrecorded. *)
Holders(x) == {w \in Watcher : watch[w].tx = x} \cup {c \in Clerk : clerk[c].tx = x}

(* Mutant: what is on record is not looked at. *)
NeverTaken(x) == FALSE
Taken(x) == record[x] # "none"

(* History: a second actor takes it in hand. *)
NoteTaken(x) == hindered' = IF Holders(x) # {} THEN hindered \cup {x} ELSE hindered

-----------------------------------------------------------------------------
(* The payer.                                                              *)

(* request_api_key: refused while a subscription is active. *)
RequestKey(t) ==
    /\ sub[t] # "active" /\ refs < MaxRefs
    /\ refs' = refs + 1
    /\ ref' = [ref EXCEPT ![t] = refs + 1]
    /\ sub' = [sub EXCEPT ![t] = "pending"]
    /\ UNCHANGED <<referred, dep, recU, watch, clerk, ufaults, histU>>

(* create_usdt_invoice: the reference is not stored, and an active         *)
(* subscription becomes pending.                                           *)
CreateUsdtInvoice(t) ==
    /\ refs < MaxRefs
    /\ refs' = refs + 1
    /\ sub' = [sub EXCEPT ![t] = "pending"]
    /\ UNCHANGED <<ref, referred, dep, recU, watch, clerk, ufaults, histU>>

Transfer(x) ==
    /\ dep[x] = Unsent
    /\ \E memo \in 0 .. refs, enough \in BOOLEAN :
          dep' = [dep EXCEPT ![x] = [time |-> Cardinality(Sent) + 1, memo |-> memo,
                                     enough |-> enough]]
    /\ UNCHANGED <<rowU, recU, watch, clerk, ufaults, histU>>

CancelSubscription(t) ==
    /\ sub[t] # "canceled"
    /\ sub' = [sub EXCEPT ![t] = "canceled"]
    /\ UNCHANGED <<ref, referred, refs, dep, recU, watch, clerk, ufaults, histU>>

(* downgrade_expired_tenants, for a tenant whose period is over. *)
PeriodOver(t) ==
    /\ sub[t] \notin {"expired", "canceled"}
    /\ sub' = [sub EXCEPT ![t] = "expired"]
    /\ UNCHANGED <<ref, referred, refs, dep, recU, watch, clerk, ufaults, histU>>

-----------------------------------------------------------------------------
(* What the two ways of confirming share.                                  *)

(* The first commit: the plan. *)
Activate(x, t) ==
    /\ sub' = [sub EXCEPT ![t] = "active"]
    /\ activated' = [activated EXCEPT ![x] = Twice(@)]
    /\ UNCHANGED <<ref, referred, refs, issued, handed, hindered, claimRaced>>

(* The second: key and record, or neither, since tx_id is unique. *)
WriteRecord(x, t) ==
    IF Taken(x)
    THEN UNCHANGED <<recU, issued>>
    ELSE /\ record' = [record EXCEPT ![x] = "completed"]
         /\ owner' = [owner EXCEPT ![x] = t]
         /\ issued' = [issued EXCEPT ![x] = Twice(@)]
         /\ UNCHANGED claimed

-----------------------------------------------------------------------------
(* The job: check_usdt_payments, process_incoming_tx.                      *)

Watermark == Max({0} \cup {dep[x].time : x \in {y \in Deposit : record[y] # "none"}})

ReadWatermark(w) ==
    /\ watch[w].pc = "idle" /\ Sent # {}
    /\ watch' = [watch EXCEPT ![w] = [Idle EXCEPT !.pc = "fetch", !.mark = Watermark]]
    /\ UNCHANGED <<rowU, dep, recU, clerk, ufaults, histU>>

(* Mutant: the page holds the oldest transfers. *)
OldestOf(S, n) == {x \in S : Cardinality({y \in S : dep[y].time < dep[x].time}) < n}
PageOldest(mark) == OldestOf(Sent, PageSize)
Page(mark) == NewestOf({x \in Sent : dep[x].time >= mark}, PageSize)

FetchPage(w) ==
    /\ watch[w].pc = "fetch"
    /\ watch' = [watch EXCEPT ![w] = [Idle EXCEPT !.pc = "next", !.todo = Page(watch[w].mark)]]
    /\ UNCHANGED <<rowU, dep, recU, clerk, ufaults, histU>>

FetchFails(w) ==
    /\ watch[w].pc = "fetch" /\ ufaults < UsdtFaults
    /\ ufaults' = ufaults + 1
    /\ watch' = [watch EXCEPT ![w] = Idle]
    /\ UNCHANGED <<rowU, dep, recU, clerk, histU>>

(* A transfer is looked up first; nothing of it is known at the end.       *)
LookUp(w) ==
    /\ watch[w].pc = "next"
    /\ LET todo == watch[w].todo
           x    == Newest(todo)
       IN  /\ watch' = [watch EXCEPT ![w] =
                  IF todo = {} THEN Idle
                  ELSE IF Taken(x) THEN [@ EXCEPT !.todo = todo \ {x}]
                  ELSE [@ EXCEPT !.pc = "match", !.todo = todo \ {x}, !.tx = x]]
           /\ IF todo # {} /\ ~Taken(x) THEN NoteTaken(x) ELSE UNCHANGED hindered
    /\ UNCHANGED <<rowU, dep, recU, clerk, ufaults, activated, issued, handed, claimRaced>>

(* An exception leaves check_usdt_payments at once. *)
NextTx(w)   == watch' = [watch EXCEPT ![w] = [@ EXCEPT !.pc = "next", !.tx = Nobody, !.payer = Nobody]]
AbortTick(w) == watch' = [watch EXCEPT ![w] = Idle]

Unmatched(w) ==
    /\ watch[w].pc = "match" /\ Matching(watch[w].tx) = {}
    /\ LET x == watch[w].tx IN
       IF Taken(x) THEN AbortTick(w) /\ UNCHANGED record
       ELSE NextTx(w) /\ record' = [record EXCEPT ![x] = "unmatched"]
    /\ UNCHANGED <<rowU, dep, owner, claimed, clerk, ufaults, histU>>

(* A wrong amount is not recorded. *)
AmountMismatch(w) ==
    /\ watch[w].pc = "match" /\ Matching(watch[w].tx) # {} /\ ~dep[watch[w].tx].enough
    /\ NextTx(w)
    /\ UNCHANGED <<rowU, dep, recU, clerk, ufaults, histU>>

ActivatePlan(w) ==
    /\ watch[w].pc = "match" /\ dep[watch[w].tx].enough
    /\ \E t \in Matching(watch[w].tx) :
          /\ Activate(watch[w].tx, t)
          /\ watch' = [watch EXCEPT ![w] = [@ EXCEPT !.pc = "issue", !.payer = t]]
    /\ UNCHANGED <<dep, recU, clerk, ufaults>>

IssueKey(w) ==
    /\ watch[w].pc = "issue"
    /\ LET x == watch[w].tx
           t == watch[w].payer
       IN  IF t \in referred
           THEN AbortTick(w) /\ hindered' = hindered \cup {x} /\ UNCHANGED <<recU, issued>>
           ELSE /\ WriteRecord(x, t)
                /\ IF Taken(x) THEN AbortTick(w) ELSE NextTx(w)
                /\ UNCHANGED hindered
    /\ UNCHANGED <<rowU, dep, clerk, ufaults, activated, handed, claimRaced>>

WatcherCrash(w) ==
    /\ watch[w].pc # "idle" /\ ufaults < UsdtFaults
    /\ ufaults' = ufaults + 1
    /\ watch' = [watch EXCEPT ![w] = Idle]
    /\ hindered' = hindered \cup ({watch[w].tx} \ {Nobody})
    /\ UNCHANGED <<rowU, dep, recU, clerk, activated, issued, handed, claimRaced>>

-----------------------------------------------------------------------------
(* Requests: confirm_usdt_payment and claim_api_key.                       *)

ConfirmLookUp(c, t, x) ==
    /\ clerk[c] = Idle
    /\ ~Taken(x) /\ x \in NewestOf(Sent, PageSize) /\ dep[x].enough
    /\ clerk' = [clerk EXCEPT ![c] = [Idle EXCEPT !.pc = "activate", !.tx = x, !.payer = t]]
    /\ NoteTaken(x)
    /\ UNCHANGED <<rowU, dep, recU, watch, ufaults, activated, issued, handed, claimRaced>>

ConfirmActivate(c) ==
    /\ clerk[c].pc = "activate"
    /\ Activate(clerk[c].tx, clerk[c].payer)
    /\ clerk' = [clerk EXCEPT ![c].pc = "issue"]
    /\ UNCHANGED <<dep, recU, watch, ufaults>>

ConfirmIssue(c) ==
    /\ clerk[c].pc = "issue"
    /\ WriteRecord(clerk[c].tx, clerk[c].payer)
    /\ clerk' = [clerk EXCEPT ![c] = Idle]
    /\ UNCHANGED <<rowU, dep, watch, ufaults, activated, handed, hindered, claimRaced>>

(* Mutant: a key that was claimed is still there. *)
AnyPayment(t) == {x \in Deposit : record[x] = "completed" /\ owner[x] = t}
Unclaimed(t) == {x \in Deposit : record[x] = "completed" /\ owner[x] = t /\ ~claimed[x]}

(* The payment is read ... *)
ClaimRead(c, t) ==
    /\ clerk[c] = Idle
    /\ ref[t] > 0 /\ sub[t] = "active"
    /\ \E x \in Unclaimed(t) :
          /\ clerk' = [clerk EXCEPT ![c] = [Idle EXCEPT !.pc = "claim", !.tx = x]]
          /\ claimRaced' = IF \E d \in Clerk : clerk[d].pc = "claim" /\ clerk[d].tx = x
                           THEN claimRaced \cup {x} ELSE claimRaced
    /\ UNCHANGED <<rowU, dep, recU, watch, ufaults, activated, issued, handed, hindered>>

(* ... and marked, and the key returned. *)
ClaimWrite(c) ==
    /\ clerk[c].pc = "claim"
    /\ claimed' = [claimed EXCEPT ![clerk[c].tx] = TRUE]
    /\ handed' = [handed EXCEPT ![clerk[c].tx] = Twice(@)]
    /\ clerk' = [clerk EXCEPT ![c] = Idle]
    /\ UNCHANGED <<rowU, dep, record, owner, watch, ufaults, activated, issued, hindered, claimRaced>>

ClerkFails(c) ==
    /\ clerk[c] # Idle /\ ufaults < UsdtFaults
    /\ ufaults' = ufaults + 1
    /\ clerk' = [clerk EXCEPT ![c] = Idle]
    /\ hindered' = hindered \cup {clerk[c].tx}
    /\ UNCHANGED <<rowU, dep, recU, watch, activated, issued, handed, claimRaced>>

WatcherStep(w) ==
    \/ ReadWatermark(w) \/ FetchPage(w) \/ LookUp(w) \/ Unmatched(w)
    \/ AmountMismatch(w) \/ ActivatePlan(w) \/ IssueKey(w)

UsdtNext ==
    \/ \E t \in Payer : RequestKey(t) \/ CreateUsdtInvoice(t) \/ CancelSubscription(t) \/ PeriodOver(t)
    \/ \E x \in Deposit : Transfer(x)
    \/ \E w \in Watcher : WatcherStep(w) \/ FetchFails(w) \/ WatcherCrash(w)
    \/ \E c \in Clerk, t \in Payer, x \in Deposit : ConfirmLookUp(c, t, x)
    \/ \E c \in Clerk, t \in Payer : ClaimRead(c, t)
    \/ \E c \in Clerk : ConfirmActivate(c) \/ ConfirmIssue(c) \/ ClaimWrite(c) \/ ClerkFails(c)

UsdtSpec == UsdtInit /\ [][UsdtNext]_usdtVars

(* The job keeps running; the chain API answers but for UsdtFaults times.  *)
UsdtFairness == \A w \in Watcher : WF_usdtVars(WatcherStep(w))

-----------------------------------------------------------------------------
(* Correctness.                                                            *)

UPC == {"idle", "fetch", "next", "match", "activate", "issue", "claim"}
Hand == [pc : UPC, mark : 0 .. Cardinality(Deposit), todo : SUBSET Deposit,
         tx : Deposit \cup {Nobody}, payer : Payer \cup {Nobody}]

(* Every variable has its type. *)
UsdtTypeOK ==
    /\ sub \in [Payer -> {"active", "expired", "pending", "canceled"}]
    /\ ref \in [Payer -> 0 .. MaxRefs] /\ refs \in 0 .. MaxRefs
    /\ referred \subseteq Payer
    /\ dep \in [Deposit -> [time : 0 .. Cardinality(Deposit), memo : 0 .. MaxRefs, enough : BOOLEAN]]
    /\ record \in [Deposit -> {"none", "unmatched", "completed"}]
    /\ owner \in [Deposit -> Payer \cup {Nobody}] /\ claimed \in [Deposit -> BOOLEAN]
    /\ watch \in [Watcher -> Hand] /\ clerk \in [Clerk -> Hand]
    /\ ufaults \in 0 .. UsdtFaults
    /\ activated \in [Deposit -> 0 .. 2] /\ issued \in [Deposit -> 0 .. 2]
    /\ handed \in [Deposit -> 0 .. 2]
    /\ hindered \subseteq Deposit /\ claimRaced \subseteq Deposit

(* A transfer is turned into one key, though the job of two processes and  *)
(* an administrator may all have found it unrecorded.                      *)
OneKeyPerDeposit == \A x \in Deposit : issued[x] <= 1

(* A transfer activates a plan once, unless two actors had it in hand, or  *)
(* one of them died with it or raised: the plan is committed before the    *)
(* record is.                                                              *)
DepositPaysOnce == \A x \in Deposit : activated[x] > 1 => x \in hindered

(* A record says completed only of a transfer that was enough and activated *)
(* a plan; a key is only handed out of such a record, and once, unless two  *)
(* requests read it at once.                                                *)
KeyClaimedOnce ==
    \A x \in Deposit :
        /\ record[x] = "completed" => activated[x] > 0 /\ dep[x].enough
        /\ handed[x] > 0 => record[x] = "completed" /\ claimed[x]
        /\ handed[x] > 1 => x \in claimRaced

(* A newer transfer is on record: the watermark has passed this one.       *)
Overtaken(x) == \E y \in Deposit : dep[y].time > dep[x].time /\ record[y] # "none"

(* A newer transfer of a referred payer ends every tick before this one.   *)
Blocked(x) == \E y \in Sent : dep[y].time >= dep[x].time /\ Matching(y) \cap referred # {}

(* A transfer is recorded in the end, unless its amount is wrong, a newer  *)
(* one was recorded first, or more than a page of newer ones is waiting.   *)
DepositRecorded ==
    \A x \in Deposit :
        (x \in Sent) ~> \/ record[x] # "none" \/ Overtaken(x) \/ Blocked(x)
                        \/ ~dep[x].enough \/ x \notin NewestOf(Sent, PageSize)
=============================================================================
