------------------------------ MODULE StarsWallet ------------------------------
(***************************************************************************)
(* Telegram Stars: payments that Telegram may deliver twice (app/services/ *)
(* billing.py, app/services/telegram_bot_service.py, app/bot/service.py)   *)
(* and the wallet they fill (app/services/usage_tracker.py, app/services/  *)
(* bot_account_service.py, app/api/ai_agent.py, app/api/billing.py).       *)
(*                                                                         *)
(* Every operation on a wallet reads stars_balance into a session and      *)
(* commits the value it computed: what was written in between is lost.     *)
(***************************************************************************)
EXTENDS Integers, FiniteSets

CONSTANTS
    Holder,         \* tenants
    Charge,         \* telegram_payment_charge_id (a bound)
    Update,         \* requests and updates handled at once
    Seller,         \* owner of the agent template on sale
    TopUp, Price, CheckIn,  \* amounts
    MaxDay,         \* bound on days
    MaxStars,       \* bound: a wallet this full receives nothing more
    StarsFaults,    \* bound on crashes
    NoCharge

ASSUME StarsAssumption ==
    /\ Seller \in Holder /\ NoCharge \notin Charge
    /\ TopUp \in Nat \ {0} /\ Price \in Nat \ {0} /\ CheckIn \in Nat \ {0}
    /\ MaxDay \in Nat \ {0} /\ MaxStars \in Nat /\ StarsFaults \in Nat

VARIABLES
    wallet,     \* stars_balance
    charged,    \* stars_payment_records
    lastCheck,  \* last_checkin_at, the day
    day,
    legacyRef,  \* tenants with an unrewarded referred_by: the commission raises
    plan,       \* of a tenant: none, "limits" (not active) or "active"
    req,        \* requests in progress
    sfaults,
    \* history: what a wallet should hold, what each charge bought, charges
    \* whose handler failed half way, wallets two requests had in hand
    book, bought, broken, overlapped

histS == <<book, bought, broken, overlapped>>
starsVars == <<wallet, charged, lastCheck, day, legacyRef, plan, req, sfaults, histS>>

Rest == [kind |-> "rest", who |-> Seller, seen |-> 0, charge |-> NoCharge]
Kinds == {"rest", "topup", "spend", "buy", "pay", "checkin", "grant"}

StarsInit ==
    /\ wallet = [t \in Holder |-> 0]
    /\ charged = {} /\ day = 1
    /\ lastCheck = [t \in Holder |-> 0]
    /\ legacyRef \in {{}, {Seller}}
    /\ plan = [t \in Holder |-> "none"]
    /\ req = [r \in Update |-> Rest]
    /\ sfaults = 0
    /\ book = [t \in Holder |-> 0]
    /\ bought = [x \in Charge |-> 0] /\ broken = {} /\ overlapped = {}

Once(n) == IF n < 2 THEN n + 1 ELSE 2

-----------------------------------------------------------------------------
(* Reading a wallet, and writing it.                                       *)

ReadWallet(r, kind, t, x) ==
    /\ req' = [req EXCEPT ![r] = [kind |-> kind, who |-> t, seen |-> wallet[t], charge |-> x]]
    /\ overlapped' = IF \E q \in Update \ {r} : req[q].kind \notin {"rest", "grant"} /\ req[q].who = t
                     THEN overlapped \cup {t} ELSE overlapped
    /\ UNCHANGED <<wallet, charged, lastCheck, day, legacyRef, plan, sfaults, book, bought, broken>>

(* Mutant: the balance becomes the amount. *)
AmountAlone(seen, delta) == delta
(* The value computed from what was read, not from what is there. *)
NewBalance(seen, delta) == seen + delta

WriteWallet(r, delta) ==
    LET t == req[r].who IN
    /\ wallet' = [wallet EXCEPT ![t] = NewBalance(req[r].seen, delta)]
    /\ book' = [book EXCEPT ![t] = @ + delta]

Handled(r) == req' = [req EXCEPT ![r] = Rest]
Room(t) == wallet[t] < MaxStars   \* the bound

(* credit_stars_from_telegram_payment, on each delivery of the update. *)
TopUpRead(r, t, x) ==
    /\ req[r] = Rest /\ Room(t)
    /\ x \notin charged
    /\ ReadWallet(r, "topup", t, x)

(* Mutant: the charge id is not unique. *)
NeverCharged(x) == TRUE
(* The record and the balance are one commit; the charge id is unique. *)
NotCharged(x) == x \notin charged

TopUpWrite(r) ==
    /\ req[r].kind = "topup"
    /\ LET x == req[r].charge IN
       IF NotCharged(x)
       THEN /\ WriteWallet(r, TopUp)
            /\ charged' = charged \cup {x}
            /\ bought' = [bought EXCEPT ![x] = Once(@)]
       ELSE UNCHANGED <<wallet, book, charged, bought>>
    /\ Handled(r)
    /\ UNCHANGED <<lastCheck, day, legacyRef, plan, sfaults, broken, overlapped>>

(* Mutant: the balance is compared with the wrong sign. *)
EnoughLess(t) == wallet[t] < Price
Enough(t) == wallet[t] >= Price

(* process_stars_payment, and spend_stars of a template. *)
SpendRead(r, t, kind) ==
    /\ req[r] = Rest /\ Enough(t)
    /\ kind = "buy" => t # Seller /\ Room(Seller)
    /\ ReadWallet(r, kind, t, NoCharge)

SpendWrite(r) ==
    /\ req[r].kind = "spend"
    /\ WriteWallet(r, -Price)
    /\ Handled(r)
    /\ UNCHANGED <<charged, lastCheck, day, legacyRef, plan, sfaults, bought, broken, overlapped>>

(* purchase_template: the price is committed, then the seller's share is   *)
(* read and committed, 70 % rounded down.                                  *)
BuyWrite(r) ==
    /\ req[r].kind = "buy"
    /\ WriteWallet(r, -Price)
    /\ req' = [req EXCEPT ![r] = [Rest EXCEPT !.kind = "pay", !.seen = wallet[Seller]]]
    /\ overlapped' = IF \E q \in Update \ {r} : req[q].kind \notin {"rest", "grant"} /\ req[q].who = Seller
                     THEN overlapped \cup {Seller} ELSE overlapped
    /\ UNCHANGED <<charged, lastCheck, day, legacyRef, plan, sfaults, bought, broken>>

PaySeller(r) ==
    /\ req[r].kind = "pay"
    /\ WriteWallet(r, (7 * Price) \div 10)
    /\ Handled(r)
    /\ UNCHANGED <<charged, lastCheck, day, legacyRef, plan, sfaults, bought, broken, overlapped>>

(* do_checkin: once a day, the day and the balance in one commit. *)
CheckInRead(r, t) ==
    /\ req[r] = Rest /\ Room(t)
    /\ lastCheck[t] # day
    /\ ReadWallet(r, "checkin", t, NoCharge)

CheckInWrite(r) ==
    /\ req[r].kind = "checkin"
    /\ WriteWallet(r, CheckIn)
    /\ lastCheck' = [lastCheck EXCEPT ![req[r].who] = day]
    /\ Handled(r)
    /\ UNCHANGED <<charged, day, legacyRef, plan, sfaults, bought, broken, overlapped>>

NextDay ==
    /\ day < MaxDay /\ day' = day + 1
    /\ UNCHANGED <<wallet, charged, lastCheck, legacyRef, plan, req, sfaults, histS>>

-----------------------------------------------------------------------------
(* _handle_successful_payment: plans and AI calls bought for Stars.        *)

(* AI calls are one transaction; an exception rolls all of it back.        *)
BuyCalls(r, t, x) ==
    /\ req[r] = Rest
    /\ NotCharged(x) /\ t \notin legacyRef
    /\ charged' = charged \cup {x}
    /\ bought' = [bought EXCEPT ![x] = Once(@)]
    /\ UNCHANGED <<wallet, lastCheck, day, legacyRef, plan, req, sfaults, book, broken, overlapped>>

(* apply_plan_limits commits the record with the limits of the plan ...    *)
BuyPlan(r, t, x) ==
    /\ req[r] = Rest
    /\ NotCharged(x)
    /\ charged' = charged \cup {x}
    /\ plan' = [plan EXCEPT ![t] = IF @ = "active" THEN "active" ELSE "limits"]
    /\ req' = [req EXCEPT ![r] = [Rest EXCEPT !.kind = "grant", !.who = t, !.charge = x]]
    /\ UNCHANGED <<wallet, lastCheck, day, legacyRef, sfaults, histS>>

(* ... and the status and the period come after, or never. *)
GrantPlan(r) ==
    /\ req[r].kind = "grant"
    /\ LET t == req[r].who
           x == req[r].charge
       IN  IF t \in legacyRef
           THEN broken' = broken \cup {x} /\ UNCHANGED <<plan, bought>>
           ELSE /\ plan' = [plan EXCEPT ![t] = "active"]
                /\ bought' = [bought EXCEPT ![x] = Once(@)]
                /\ UNCHANGED broken
    /\ Handled(r)
    /\ UNCHANGED <<wallet, charged, lastCheck, day, legacyRef, sfaults, book, overlapped>>

(* A process dies; a seller not yet paid stays unpaid. *)
RequestDies(r) ==
    /\ req[r] # Rest /\ sfaults < StarsFaults
    /\ sfaults' = sfaults + 1
    /\ broken' = broken \cup (IF req[r].kind = "grant" THEN {req[r].charge} ELSE {})
    /\ Handled(r)
    /\ UNCHANGED <<wallet, charged, lastCheck, day, legacyRef, plan, book, bought, overlapped>>

StarsNext ==
    \/ \E r \in Update, t \in Holder, x \in Charge : TopUpRead(r, t, x) \/ BuyCalls(r, t, x) \/ BuyPlan(r, t, x)
    \/ \E r \in Update, t \in Holder : CheckInRead(r, t) \/ \E kind \in {"spend", "buy"} : SpendRead(r, t, kind)
    \/ \E r \in Update :
          \/ TopUpWrite(r) \/ SpendWrite(r) \/ BuyWrite(r) \/ PaySeller(r)
          \/ CheckInWrite(r) \/ GrantPlan(r) \/ RequestDies(r)
    \/ NextDay

StarsSpec == StarsInit /\ [][StarsNext]_starsVars

-----------------------------------------------------------------------------
(* Correctness.                                                            *)

Handling(x) == \E r \in Update : req[r].kind = "grant" /\ req[r].charge = x

(* Every variable has its type; a balance may be wrong, never negative. *)
StarsTypeOK ==
    /\ wallet \in [Holder -> Nat]
    /\ charged \subseteq Charge /\ day \in 1 .. MaxDay
    /\ lastCheck \in [Holder -> 0 .. MaxDay] /\ legacyRef \subseteq Holder
    /\ plan \in [Holder -> {"none", "limits", "active"}]
    /\ \A r \in Update : req[r].kind \in Kinds /\ req[r].who \in Holder
                          /\ req[r].charge \in Charge \cup {NoCharge}
    /\ sfaults \in 0 .. StarsFaults
    /\ book \in [Holder -> Int]
    /\ bought \in [Charge -> 0 .. 2] /\ broken \subseteq Charge /\ overlapped \subseteq Holder

(* However often Telegram delivers a payment, and to however many          *)
(* handlers, it buys one thing; it bought it if it is on record, unless    *)
(* its handler is at it, died or raised between its two commits.           *)
ChargeGrantedOnce ==
    \A x \in Charge :
        /\ bought[x] <= 1
        /\ bought[x] = 1 => x \in charged
        /\ x \in charged => bought[x] = 1 \/ x \in broken \/ Handling(x)

(* A wallet holds what was put in and taken out of it, unless two requests *)
(* had it in hand at once.                                                 *)
WalletBalanced == \A t \in Holder : t \notin overlapped => wallet[t] = book[t]
=============================================================================
