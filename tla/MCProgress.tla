------------------------------- MODULE MCProgress -------------------------------
(***************************************************************************)
(* What must come to an end: small instances of the broadcasts and of the  *)
(* two modules about payments of plans, in one state space.  They share no *)
(* variable, so that a property of one holds of all their interleavings if *)
(* it holds while the others rest: each behaviour follows the one named by *)
(* focus.  The transfers are followed twice, with two transfers and no     *)
(* request, and with one transfer and two requests.                        *)
(***************************************************************************)
EXTENDS MCDispatch, UsdtDeposits, CryptoInvoices

CONSTANTS d1, t1, i1

VARIABLE focus

progressVars == <<focus, vars, usdtVars, invoiceVars>>

ProgressInit ==
    /\ focus \in {"broadcasts", "deposits", "claims", "invoices"}
    /\ Init /\ UsdtInit /\ InvoiceInit
    /\ focus \notin {"deposits", "claims"} => sub[t1] = "expired" /\ referred = {}
    /\ legacy \subseteq {i1}
    /\ focus # "invoices" => legacy = {} /\ coded = {}

NoClerk == \A c \in Clerk : clerk'[c] = Idle
OneSent == \A x \in Deposit \ {d1} : dep'[x] = Unsent

Follows(part) == focus = part /\ UNCHANGED focus

ProgressNext ==
    \/ Follows("broadcasts") /\ Next /\ UNCHANGED <<usdtVars, invoiceVars>>
    \/ Follows("deposits") /\ UsdtNext /\ NoClerk /\ UNCHANGED <<vars, invoiceVars>>
    \/ Follows("claims") /\ UsdtNext /\ OneSent /\ UNCHANGED <<vars, invoiceVars>>
    \/ Follows("invoices") /\ InvoiceNext /\ UNCHANGED <<vars, usdtVars>>

(* The fairness of BroadcastDispatch while it is followed.  Of the         *)
(* payments no fair action is enabled while they rest.                     *)
BroadcastFairness ==
    /\ \A p \in Proc : WF_vars(focus = "broadcasts" /\ \E b \in Immediate : CreateImmediate(p, b))
    /\ \A p \in Proc : WF_vars(focus = "broadcasts" /\ WriteSeries(p))
    /\ \A p \in Proc, b \in Bcast : WF_vars(focus = "broadcasts" /\ RunStep(p, b))
    /\ \A s \in SchedProc : WF_vars(focus = "broadcasts" /\ SchedStep(s))
    /\ WF_vars(focus = "broadcasts" /\ TimePasses)
    /\ \A b \in Bcast : WF_vars(focus = "broadcasts" /\ ComesDue(b))

ProgressSpec ==
    /\ ProgressInit /\ [][ProgressNext]_progressVars
    /\ BroadcastFairness /\ UsdtFairness /\ InvoiceFairness
=============================================================================
