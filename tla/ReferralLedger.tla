----------------------------- MODULE ReferralLedger -----------------------------
(***************************************************************************)
(* Commissions of a referrer and the payouts made of them (app/services/   *)
(* referral.py, app/api/referral.py).  A payout is a sum: it does not name *)
(* the commissions it counted, making one leaves them pending, and         *)
(* approving one marks paid whatever is pending by then.                   *)
(***************************************************************************)
EXTENDS Integers, FiniteSetsExt

CONSTANTS
    Referrer,       \* tenants that own a code
    Commissioned,   \* commissions (a bound)
    Payout,         \* payouts (a bound)
    Admin,          \* approvals in progress at once
    Amounts,        \* what a commission may be worth
    MinPayouts,     \* values min_payout is set to
    NoPayout

ASSUME LedgerAssumption ==
    /\ NoPayout \notin Payout
    /\ Amounts \subseteq Nat \ {0} /\ MinPayouts \subseteq Nat /\ MinPayouts # {}
    /\ IsFiniteSet(Commissioned) /\ IsFiniteSet(Payout)

VARIABLES
    com,        \* referral_commissions
    payout,     \* referral_payouts
    minPayout,  \* referral_config
    approving,  \* the payout each administrator has read as pending
    loose       \* history: referrers whose ledger was touched in between

ledgerVars == <<com, payout, minPayout, approving, loose>>

NoRow == [status |-> "none", who |-> "none", amount |-> 0]

LedgerInit ==
    /\ com = [c \in Commissioned |-> NoRow]
    /\ payout = [p \in Payout |-> NoRow]
    /\ minPayout \in MinPayouts
    /\ approving = [a \in Admin |-> NoPayout]
    /\ loose = {}

ComOf(r, st)  == {c \in Commissioned : com[c].who = r /\ com[c].status = st}
PaysOf(r, st) == {p \in Payout : payout[p].who = r /\ payout[p].status = st}
Owed(r)       == MapThenSumSet(LAMBDA c : com[c].amount, ComOf(r, "pending"))

(* A payout of the referrer is waiting, or is being approved. *)
Settling(r) ==
    \/ PaysOf(r, "pending") # {}
    \/ \E a \in Admin : approving[a] # NoPayout /\ payout[approving[a]].who = r
Touch(r, really) == loose' = IF really THEN loose \cup {r} ELSE loose

-----------------------------------------------------------------------------
(* create_commission, the amount being a rate of the payment. *)
CreateCommission(c, r) ==
    /\ com[c] = NoRow
    /\ \E n \in Amounts : com' = [com EXCEPT ![c] = [status |-> "pending", who |-> r, amount |-> n]]
    /\ Touch(r, Settling(r))
    /\ UNCHANGED <<payout, minPayout, approving>>

(* process_payouts: one payout per referrer that is owed enough. *)
Payable == {r \in Referrer : ComOf(r, "pending") # {} /\ Owed(r) >= minPayout}

ProcessPayouts ==
    /\ Payable # {}
    /\ \E new \in [Payable -> {p \in Payout : payout[p] = NoRow}] :
          /\ \A q, r \in Payable : q # r => new[q] # new[r]
          /\ payout' = [p \in Payout |->
                 IF \E r \in Payable : new[r] = p
                 THEN LET r == CHOOSE r \in Payable : new[r] = p
                      IN  [status |-> "pending", who |-> r, amount |-> Owed(r)]
                 ELSE payout[p]]
    /\ loose' = loose \cup {r \in Payable : Settling(r)}
    /\ UNCHANGED <<com, minPayout, approving>>

(* approve_payout: the payout is read ... *)
ApproveRead(a, p) ==
    /\ approving[a] = NoPayout /\ payout[p].status = "pending"
    /\ approving' = [approving EXCEPT ![a] = p]
    /\ UNCHANGED <<com, payout, minPayout, loose>>

(* Mutant: whatever became of them, the referrer's commissions are paid.   *)
CoversAll(r) == {c \in Commissioned : com[c].who = r}
Covered(r)    == ComOf(r, "pending")

(* ... and completed, with what is pending. *)
ApproveWrite(a) ==
    /\ approving[a] # NoPayout
    /\ LET p == approving[a]
           r == payout[p].who
       IN  /\ payout' = [payout EXCEPT ![p].status = "completed"]
           /\ com' = [c \in Commissioned |->
                  IF c \in Covered(r) THEN [com[c] EXCEPT !.status = "paid"] ELSE com[c]]
    /\ approving' = [approving EXCEPT ![a] = NoPayout]
    /\ UNCHANGED <<minPayout, loose>>

(* cancel_commission, of a paid one too. *)
CancelCommission(c) ==
    /\ com[c].status \in {"pending", "paid"}
    /\ com' = [com EXCEPT ![c].status = "cancelled"]
    /\ Touch(com[c].who, com[c].status = "paid" \/ Settling(com[c].who))
    /\ UNCHANGED <<payout, minPayout, approving>>

(* mark_commission_paid, of a cancelled one too. *)
MarkPaid(c) ==
    /\ com[c].status \in {"pending", "cancelled"}
    /\ com' = [com EXCEPT ![c].status = "paid"]
    /\ Touch(com[c].who, TRUE)
    /\ UNCHANGED <<payout, minPayout, approving>>

(* update_admin_settings *)
SetMinPayout(n) ==
    /\ n # minPayout /\ minPayout' = n
    /\ UNCHANGED <<com, payout, approving, loose>>

LedgerNext ==
    \/ \E c \in Commissioned, r \in Referrer : CreateCommission(c, r)
    \/ \E c \in Commissioned : CancelCommission(c) \/ MarkPaid(c)
    \/ ProcessPayouts
    \/ \E a \in Admin, p \in Payout : ApproveRead(a, p)
    \/ \E a \in Admin : ApproveWrite(a)
    \/ \E n \in MinPayouts : SetMinPayout(n)

LedgerSpec == LedgerInit /\ [][LedgerNext]_ledgerVars

-----------------------------------------------------------------------------
(* Correctness.                                                            *)

(* Every variable has its type. *)
LedgerTypeOK ==
    /\ \A c \in Commissioned : /\ com[c].status \in {"none", "pending", "paid", "cancelled"}
                               /\ com[c].who \in Referrer \cup {"none"} /\ com[c].amount \in Nat
    /\ \A p \in Payout : /\ payout[p].status \in {"none", "pending", "completed"}
                         /\ payout[p].who \in Referrer \cup {"none"} /\ payout[p].amount \in Nat
    /\ minPayout \in MinPayouts /\ approving \in [Admin -> Payout \cup {NoPayout}]
    /\ loose \subseteq Referrer

PaidOut(r) == MapThenSumSet(LAMBDA p : payout[p].amount, PaysOf(r, "completed"))
Earned(r)  == MapThenSumSet(LAMBDA c : com[c].amount, ComOf(r, "paid"))

(* What a referrer was paid is what the commissions marked paid were worth *)
(* - as long as nobody makes a second payout, adds, cancels or marks one   *)
(* of its commissions while a payout waits for its approval.               *)
LedgerBalanced == \A r \in Referrer : r \notin loose => PaidOut(r) = Earned(r)
=============================================================================
