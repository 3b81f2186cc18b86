---------------------------- MODULE CryptoInvoices ----------------------------
(***************************************************************************)
(* Paying a plan through NOWPayments (app/services/nowpayments.py, app/    *)
(* api/nowpayments.py, activate_tenant_plan of app/services/cryptomus.py,  *)
(* create_commission of app/services/referral.py).                         *)
(*                                                                         *)
(* An invoice is stored under the invoice id; the provider gives the       *)
(* payment another id, which only its webhooks carry.  Rows made by the    *)
(* older payment endpoint (`legacy`) hold the payment id itself.  Webhooks *)
(* may be lost, repeated, delayed and reordered; a scheduled job looks at  *)
(* every unfulfilled row again.  The claim of a row and the plan are one   *)
(* commit (apply_plan_limits), the key a second, the commission a third.   *)
(***************************************************************************)
EXTENDS Integers, FiniteSets

CONSTANTS
    Invoice,        \* rows of nowpayments_transactions (a bound)
    Hook,           \* webhook requests handled at once
    Job,            \* processes whose scheduler runs reconcile_pending
    InvoiceFaults,  \* bound on crashes and on failed calls of the provider
    NoInvoice

ASSUME InvoiceAssumption ==
    /\ NoInvoice \notin Invoice
    /\ InvoiceFaults \in Nat

VARIABLES
    legacy,     \* rows whose stored id is the payment id
    coded,      \* rows of a tenant whose referred_by is the id of a code
    row,        \* "absent", "open" or "fulfilled"
    pay,        \* the payment at the provider
    ipn,        \* notices sent by the provider, never consumed
    hand,       \* what each request and each job has in hand
    ifaults,
    \* history: plans, keys and commissions per row, rows someone died with
    plans, keys, commissions, cut

grantsV == <<plans, keys, commissions, cut>>
invoiceVars == <<legacy, coded, row, pay, ipn, hand, ifaults, grantsV>>

Free == [pc |-> "free", inv |-> NoInvoice]
Paid == {"finished", "confirmed"}

InvoiceInit ==
    /\ legacy \in SUBSET Invoice /\ coded \in {{}, Invoice}
    /\ row = [i \in Invoice |-> IF i \in legacy THEN "open" ELSE "absent"]
    /\ pay = [i \in Invoice |-> "unpaid"]
    /\ ipn = {}
    /\ hand = [h \in Hook \cup Job |-> Free]
    /\ ifaults = 0
    /\ plans = [i \in Invoice |-> 0] /\ keys = [i \in Invoice |-> 0]
    /\ commissions = [i \in Invoice |-> 0] /\ cut = {}

UpTo2(n) == IF n < 2 THEN n + 1 ELSE 2
Take(h, pc, i) == hand' = [hand EXCEPT ![h] = [pc |-> pc, inv |-> i]]
Drop(h)        == hand' = [hand EXCEPT ![h] = Free]

-----------------------------------------------------------------------------
(* The tenant and the provider.                                            *)

CreatePayment(i) ==
    /\ row[i] = "absent"
    /\ row' = [row EXCEPT ![i] = "open"]
    /\ UNCHANGED <<legacy, coded, pay, ipn, hand, ifaults, grantsV>>

(* The payment goes through states, each announced by a notice.  A wrong   *)
(* amount may be made up for later.                                        *)
Announce(i, s) ==
    /\ pay' = [pay EXCEPT ![i] = s]
    /\ ipn' = ipn \cup {<<i, s>>}
    /\ UNCHANGED <<legacy, coded, row, hand, ifaults, grantsV>>

PaymentMoves(i) ==
    /\ row[i] # "absent"
    /\ \/ pay[i] = "unpaid" /\ \E s \in {"expired", "short", "confirmed"} : Announce(i, s)
       \/ pay[i] = "short" /\ Announce(i, "confirmed")
       \/ pay[i] = "confirmed" /\ Announce(i, "finished")

-----------------------------------------------------------------------------
(* process_webhook and reconcile_pending, up to _fulfill_transaction.      *)

(* A notice that does not say paid only changes payment_status and note.   *)
(* "short" is announced as finished too, with another amount.              *)
WebhookArrives(h, i) ==
    /\ hand[h] = Free
    /\ \E s \in Paid \cup {"short"} : <<i, s>> \in ipn
    /\ row[i] = "open"
    /\ Take(h, "verify", i)
    /\ UNCHANGED <<legacy, coded, row, pay, ipn, ifaults, grantsV>>

(* Mutant: the job asks by the id of the invoice. *)
InvoiceIdKnown(i) == i \notin legacy
(* The job asks the provider by the stored id: 404 for an invoice id.      *)
StoredIdKnown(i) == i \in legacy

JobPicks(j, i) ==
    /\ hand[j] = Free
    /\ row[i] = "open" /\ StoredIdKnown(i)
    /\ pay[i] \in Paid \cup {"short"}
    /\ Take(j, "verify", i)
    /\ UNCHANGED <<legacy, coded, row, pay, ipn, ifaults, grantsV>>

-----------------------------------------------------------------------------
(* _fulfill_transaction.                                                   *)

(* The provider is asked again, and the amount compared. *)
Verify(h) ==
    /\ hand[h].pc = "verify"
    /\ IF pay[hand[h].inv] \in Paid THEN Take(h, "claim", hand[h].inv) ELSE Drop(h)
    /\ UNCHANGED <<legacy, coded, row, pay, ipn, ifaults, grantsV>>

ProviderFails(h) ==
    /\ hand[h].pc = "verify" /\ ifaults < InvoiceFaults
    /\ ifaults' = ifaults + 1
    /\ Drop(h)
    /\ UNCHANGED <<legacy, coded, row, pay, ipn, grantsV>>

(* Mutant: the row is not required to be unfulfilled. *)
ClaimsAgain(i) == i \in legacy
(* UPDATE ... WHERE payment_id = <the payment id> AND NOT fulfilled.       *)
Claims(i) == i \in legacy /\ row[i] = "open"

(* The claim is committed with the plan, by apply_plan_limits. *)
Claim(h) ==
    /\ hand[h].pc = "claim"
    /\ LET i == hand[h].inv IN
       IF Claims(i)
       THEN /\ row' = [row EXCEPT ![i] = "fulfilled"]
            /\ plans' = [plans EXCEPT ![i] = UpTo2(@)]
            /\ Take(h, "key", i)
       ELSE Drop(h) /\ UNCHANGED <<row, plans>>
    /\ UNCHANGED <<legacy, coded, pay, ipn, ifaults, keys, commissions, cut>>

IssueInvoiceKey(h) ==
    /\ hand[h].pc = "key"
    /\ keys' = [keys EXCEPT ![hand[h].inv] = UpTo2(@)]
    /\ Take(h, "commission", hand[h].inv)
    /\ UNCHANGED <<legacy, coded, row, pay, ipn, ifaults, plans, commissions, cut>>

(* create_commission: once per payment, and only through a code. *)
Commission(h) ==
    /\ hand[h].pc = "commission"
    /\ LET i == hand[h].inv IN
       commissions' = [commissions EXCEPT ![i] = IF i \in coded /\ @ = 0 THEN 1 ELSE @]
    /\ Drop(h)
    /\ UNCHANGED <<legacy, coded, row, pay, ipn, ifaults, plans, keys, cut>>

HandlerDies(h) ==
    /\ hand[h] # Free /\ ifaults < InvoiceFaults
    /\ ifaults' = ifaults + 1
    /\ cut' = cut \cup {hand[h].inv}
    /\ Drop(h)
    /\ UNCHANGED <<legacy, coded, row, pay, ipn, plans, keys, commissions>>

-----------------------------------------------------------------------------
Fulfilling(h) == Verify(h) \/ Claim(h) \/ IssueInvoiceKey(h) \/ Commission(h)
JobStep(j)    == Fulfilling(j) \/ \E i \in Invoice : JobPicks(j, i)

InvoiceNext ==
    \/ \E i \in Invoice : CreatePayment(i) \/ PaymentMoves(i)
    \/ \E h \in Hook, i \in Invoice : WebhookArrives(h, i)
    \/ \E j \in Job : JobStep(j)
    \/ \E h \in Hook : Fulfilling(h)
    \/ \E h \in Hook \cup Job : ProviderFails(h) \/ HandlerDies(h)

InvoiceSpec == InvoiceInit /\ [][InvoiceNext]_invoiceVars

(* The job runs every few minutes and a request in hand goes on; nothing   *)
(* makes a webhook arrive.                                                 *)
InvoiceFairness ==
    /\ \A j \in Job : \A i \in Invoice : SF_invoiceVars(JobPicks(j, i))
    /\ \A h \in Hook \cup Job : WF_invoiceVars(Fulfilling(h))
InvoiceFairSpec == InvoiceSpec /\ InvoiceFairness

-----------------------------------------------------------------------------
(* Correctness.                                                            *)

(* Every variable has its type. *)
InvoiceTypeOK ==
    /\ legacy \subseteq Invoice /\ coded \subseteq Invoice
    /\ row \in [Invoice -> {"absent", "open", "fulfilled"}]
    /\ pay \in [Invoice -> Paid \cup {"unpaid", "expired", "short"}]
    /\ ipn \subseteq Invoice \X (Paid \cup {"expired", "short"})
    /\ hand \in [Hook \cup Job -> [pc : {"free", "verify", "claim", "key", "commission"},
                                   inv : Invoice \cup {NoInvoice}]]
    /\ ifaults \in 0 .. InvoiceFaults
    /\ plans \in [Invoice -> 0 .. 2] /\ keys \in [Invoice -> 0 .. 2]
    /\ commissions \in [Invoice -> 0 .. 1] /\ cut \subseteq Invoice

Underway(i, pcs) == {h \in Hook \cup Job : hand[h].inv = i /\ hand[h].pc \in pcs}

(* However often its webhook comes and whatever the job does meanwhile, a  *)
(* payment is turned into one plan, one key and one commission, only once  *)
(* the provider has it paid; what is missing of a fulfilled payment is in  *)
(* the hands of one handler, or of one that died.                          *)
FulfilledOnce ==
    \A i \in Invoice :
        /\ plans[i] <= 1 /\ keys[i] <= 1
        /\ plans[i] = 1 => row[i] = "fulfilled" /\ pay[i] \in Paid
        /\ row[i] = "fulfilled" /\ i \notin cut /\ Underway(i, {"key", "commission"}) = {} =>
              keys[i] = 1 /\ (i \in coded => commissions[i] = 1)

(* A paid row of the older kind is fulfilled in the end, though no webhook *)
(* of it ever arrives, the provider fails or a handler dies.               *)
LegacyServed ==
    \A i \in Invoice : (i \in legacy /\ pay[i] \in Paid) ~> row[i] = "fulfilled"

(* reconcile_pending: any payment that is now finished or confirmed is     *)
(* fulfilled.  A row created from an invoice never is.                     *)
PaidInvoiceServed ==
    \A i \in Invoice : pay[i] \in Paid ~> row[i] = "fulfilled"
=============================================================================
