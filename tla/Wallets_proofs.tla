----------------------------- MODULE Wallets_proofs -----------------------------
(***************************************************************************)
(* Proofs about Telegram Stars (StarsWallet), AI credits (ChatCredits) and *)
(* commissions (ReferralLedger): a charge buys one thing, a wallet         *)
(* balances as long as nobody races for it, a streamed turn costs what it  *)
(* used, and a referrer is paid what its commissions were worth.           *)
(***************************************************************************)
EXTENDS StarsWallet, ChatCredits, ReferralLedger, FiniteSums_proofs, SequenceTheorems, TLAPS

(* Requests that have a wallet in hand. *)
WalletKinds == {"topup", "spend", "buy", "pay", "checkin"}
ReqRow == [kind : Kinds, who : Holder, seen : Nat, charge : Charge \cup {NoCharge}]

(* What a request holds, by what it is. *)
ReqOK(q) ==
    /\ q.kind \in {"topup", "grant"} => q.charge \in Charge
    /\ q.kind = "buy" => q.who # Seller
    /\ q.kind \in {"spend", "buy"} => q.seen >= Price

StarsTyped ==
    /\ wallet \in [Holder -> Nat]
    /\ charged \subseteq Charge /\ day \in 1 .. MaxDay
    /\ lastCheck \in [Holder -> 0 .. MaxDay] /\ legacyRef \subseteq Holder
    /\ plan \in [Holder -> {"none", "limits", "active"}]
    /\ req \in [Update -> ReqRow] /\ \A r \in Update : ReqOK(req[r])
    /\ sfaults \in 0 .. StarsFaults
    /\ book \in [Holder -> Int]
    /\ bought \in [Charge -> 0 .. 2] /\ broken \subseteq Charge /\ overlapped \subseteq Holder

LEMMA RestRow ==
    /\ Rest \in ReqRow /\ ReqOK(Rest) /\ Rest.kind = "rest" /\ Rest.who = Seller
    /\ Seller \in Holder /\ TopUp \in Nat /\ Price \in Nat /\ CheckIn \in Nat
    /\ MaxDay \in Nat \ {0} /\ StarsFaults \in Nat
BY StarsAssumption DEF StarsAssumption, Rest, ReqRow, Kinds, ReqOK

(* A request with new hands. *)
LEMMA HandsTyped ==
    ASSUME StarsTyped, NEW r \in Update, NEW q \in ReqRow, ReqOK(q), req' = [req EXCEPT ![r] = q]
    PROVE  /\ req' \in [Update -> ReqRow] /\ \A s \in Update : ReqOK(req'[s])
           /\ req'[r] = q /\ \A s \in Update \ {r} : req'[s] = req[s]
BY DEF StarsTyped

LEMMA WriteTyped ==
    ASSUME StarsTyped, NEW r \in Update, NEW delta \in Int, req[r].seen + delta >= 0, WriteWallet(r, delta)
    PROVE  wallet' \in [Holder -> Nat] /\ book' \in [Holder -> Int]
<1>1. req[r].who \in Holder /\ req[r].seen + delta \in Nat
  BY DEF StarsTyped, ReqRow
<1> QED
  BY <1>1 DEF StarsTyped, WriteWallet, NewBalance

LEMMA ReadTyped ==
    ASSUME StarsTyped, NEW r \in Update, NEW kind \in {"topup", "spend", "buy", "checkin"}, NEW t \in Holder,
           NEW x \in Charge \cup {NoCharge}, ReadWallet(r, kind, t, x),
           kind = "topup" => x \in Charge, kind = "buy" => t # Seller,
           kind \in {"spend", "buy"} => wallet[t] >= Price
    PROVE  StarsTyped'
<1> DEFINE q == [kind |-> kind, who |-> t, seen |-> wallet[t], charge |-> x]
<1>1. q \in ReqRow /\ ReqOK(q)
  BY DEF StarsTyped, ReqRow, Kinds, ReqOK
<1>2. req' = [req EXCEPT ![r] = q]
  BY DEF ReadWallet
<1> HIDE DEF q
<1>3. req' \in [Update -> ReqRow] /\ \A s \in Update : ReqOK(req'[s])
  BY <1>1, <1>2, HandsTyped
<1>4. overlapped' \subseteq Holder
  BY DEF ReadWallet, StarsTyped
<1> QED
  BY <1>3, <1>4 DEF ReadWallet, StarsTyped

LEMMA OnceTyped == \A n \in 0 .. 2 : Once(n) \in 0 .. 2 /\ (n = 0 => Once(n) = 1)
BY DEF Once

LEMMA HandledTyped ==
    ASSUME StarsTyped, NEW r \in Update, Handled(r)
    PROVE  /\ req' \in [Update -> ReqRow] /\ \A s \in Update : ReqOK(req'[s])
           /\ req'[r] = Rest /\ \A s \in Update \ {r} : req'[s] = req[s]
BY RestRow, HandsTyped DEF Handled

LEMMA StarsStep == StarsTyped /\ [StarsNext]_starsVars => StarsTyped'
<1> SUFFICES ASSUME StarsTyped, [StarsNext]_starsVars PROVE StarsTyped'
  OBVIOUS
<1> USE RestRow
<1>1. ASSUME NEW r \in Update, NEW t \in Holder, NEW x \in Charge, TopUpRead(r, t, x) PROVE StarsTyped'
  BY <1>1, ReadTyped DEF TopUpRead
<1>2. ASSUME NEW r \in Update, NEW t \in Holder, NEW x \in Charge, BuyCalls(r, t, x) PROVE StarsTyped'
  BY <1>2, OnceTyped DEF BuyCalls, StarsTyped
<1>3. ASSUME NEW r \in Update, NEW t \in Holder, NEW x \in Charge, BuyPlan(r, t, x) PROVE StarsTyped'
  <2> DEFINE q == [Rest EXCEPT !.kind = "grant", !.who = t, !.charge = x]
  <2>1. q \in ReqRow /\ ReqOK(q)
    BY DEF ReqRow, Kinds, ReqOK
  <2>2. req' = [req EXCEPT ![r] = q]
    BY <1>3 DEF BuyPlan
  <2> HIDE DEF q
  <2>3. req' \in [Update -> ReqRow] /\ \A s \in Update : ReqOK(req'[s])
    BY <2>1, <2>2, HandsTyped
  <2>4. plan' \in [Holder -> {"none", "limits", "active"}]
    BY <1>3 DEF BuyPlan, StarsTyped
  <2> QED
    BY <1>3, <2>3, <2>4 DEF BuyPlan, StarsTyped, histS
<1>4. ASSUME NEW r \in Update, NEW t \in Holder, CheckInRead(r, t) PROVE StarsTyped'
  BY <1>4, ReadTyped DEF CheckInRead
<1>5. ASSUME NEW r \in Update, NEW t \in Holder, NEW kind \in {"spend", "buy"}, SpendRead(r, t, kind)
      PROVE  StarsTyped'
  BY <1>5, ReadTyped DEF SpendRead, Enough
<1>6. ASSUME NEW r \in Update, TopUpWrite(r) PROVE StarsTyped'
  <2>1. req[r] \in ReqRow /\ req[r].charge \in Charge
    BY <1>6 DEF TopUpWrite, StarsTyped, ReqOK
  <2>2. wallet' \in [Holder -> Nat] /\ book' \in [Holder -> Int]
    <3>1. req[r].seen + TopUp >= 0
      BY <2>1 DEF ReqRow
    <3> QED
      BY <1>6, <3>1, WriteTyped DEF TopUpWrite, StarsTyped
  <2>3. bought' \in [Charge -> 0 .. 2] /\ charged' \subseteq Charge
    BY <1>6, <2>1, OnceTyped DEF TopUpWrite, StarsTyped
  <2> QED
    BY <1>6, <2>2, <2>3, HandledTyped DEF TopUpWrite, StarsTyped
<1>7. ASSUME NEW r \in Update, SpendWrite(r) PROVE StarsTyped'
  <2>1. -Price \in Int /\ req[r].seen + (-Price) >= 0
    BY <1>7 DEF SpendWrite, StarsTyped, ReqOK, ReqRow
  <2>2. wallet' \in [Holder -> Nat] /\ book' \in [Holder -> Int]
    BY <1>7, <2>1, WriteTyped DEF SpendWrite
  <2> QED
    BY <1>7, <2>2, HandledTyped DEF SpendWrite, StarsTyped
<1>8. ASSUME NEW r \in Update, BuyWrite(r) PROVE StarsTyped'
  <2>1. -Price \in Int /\ req[r].seen + (-Price) >= 0
    BY <1>8 DEF BuyWrite, StarsTyped, ReqOK, ReqRow
  <2>2. wallet' \in [Holder -> Nat] /\ book' \in [Holder -> Int]
    BY <1>8, <2>1, WriteTyped DEF BuyWrite
  <2> DEFINE q == [Rest EXCEPT !.kind = "pay", !.seen = wallet[Seller]]
  <2>3. q \in ReqRow /\ ReqOK(q)
    BY DEF ReqRow, Kinds, ReqOK, StarsTyped
  <2>4. req' = [req EXCEPT ![r] = q]
    BY <1>8 DEF BuyWrite
  <2> HIDE DEF q
  <2>5. req' \in [Update -> ReqRow] /\ \A s \in Update : ReqOK(req'[s])
    BY <2>3, <2>4, HandsTyped
  <2>6. overlapped' \subseteq Holder
    BY <1>8 DEF BuyWrite, StarsTyped
  <2> QED
    BY <1>8, <2>2, <2>5, <2>6 DEF BuyWrite, StarsTyped
<1>9. ASSUME NEW r \in Update, PaySeller(r) PROVE StarsTyped'
  <2>1. (7 * Price) \div 10 \in Nat
    OBVIOUS
  <2>2. req[r].seen + ((7 * Price) \div 10) >= 0
    BY <2>1 DEF StarsTyped, ReqRow
  <2>3. wallet' \in [Holder -> Nat] /\ book' \in [Holder -> Int]
    BY <1>9, <2>1, <2>2, WriteTyped DEF PaySeller
  <2> QED
    BY <1>9, <2>3, HandledTyped DEF PaySeller, StarsTyped
<1>10. ASSUME NEW r \in Update, CheckInWrite(r) PROVE StarsTyped'
  <2>1. req[r].seen + CheckIn >= 0 /\ req[r].who \in Holder
    BY DEF StarsTyped, ReqRow
  <2>2. wallet' \in [Holder -> Nat] /\ book' \in [Holder -> Int]
    BY <1>10, <2>1, WriteTyped DEF CheckInWrite
  <2>3. lastCheck' \in [Holder -> 0 .. MaxDay]
    BY <1>10, <2>1 DEF CheckInWrite, StarsTyped
  <2> QED
    BY <1>10, <2>2, <2>3, HandledTyped DEF CheckInWrite, StarsTyped
<1>11. ASSUME NEW r \in Update, GrantPlan(r) PROVE StarsTyped'
  <2>1. req[r].charge \in Charge /\ req[r].who \in Holder
    BY <1>11 DEF GrantPlan, StarsTyped, ReqOK, ReqRow
  <2>2. /\ plan' \in [Holder -> {"none", "limits", "active"}] /\ bought' \in [Charge -> 0 .. 2]
        /\ broken' \subseteq Charge
    BY <1>11, <2>1, OnceTyped DEF GrantPlan, StarsTyped
  <2> QED
    BY <1>11, <2>2, HandledTyped DEF GrantPlan, StarsTyped
<1>12. ASSUME NEW r \in Update, RequestDies(r) PROVE StarsTyped'
  BY <1>12, HandledTyped DEF RequestDies, StarsTyped, ReqOK
<1>13. CASE NextDay
  BY <1>13 DEF NextDay, StarsTyped, histS
<1>14. CASE UNCHANGED starsVars
  BY <1>14 DEF starsVars, StarsTyped, histS
<1> QED
  BY <1>1, <1>2, <1>3, <1>4, <1>5, <1>6, <1>7, <1>8, <1>9, <1>10, <1>11, <1>12, <1>13, <1>14 DEF StarsNext

LEMMA StarsHold == StarsSpec => []StarsTyped
<1>1. StarsInit => StarsTyped
  BY RestRow DEF StarsInit, StarsTyped
<1> QED
  BY <1>1, StarsStep, PTL DEF StarsSpec

(* Every variable has its type; a balance is never negative.               *)
THEOREM StarsKeepType == StarsSpec => []StarsTypeOK
<1>1. StarsTyped => StarsTypeOK
  BY DEF StarsTyped, StarsTypeOK, ReqRow
<1> QED
  BY <1>1, StarsHold, PTL

-----------------------------------------------------------------------------
(* A charge.                                                               *)

Grants(r, x) == req[r].kind = "grant" /\ req[r].charge = x

(* One handler has a charge whose plan is not granted yet, and a charge    *)
(* that is on record has bought its thing, or is with it, or was broken.   *)
ChargeOK(x) ==
    /\ bought[x] <= 1
    /\ bought[x] = 1 => x \in charged
    /\ x \in charged => bought[x] = 1 \/ x \in broken \/ Handling(x)
    /\ \A r \in Update : Grants(r, x) => x \in charged /\ bought[x] = 0
    /\ \A r, s \in Update : Grants(r, x) /\ Grants(s, x) => r = s

ChargeInv == \A x \in Charge : ChargeOK(x)

(* A step that grants nothing and puts nothing on record. *)
LEMMA ChargeFrame ==
    ASSUME NEW x \in Charge, ChargeOK(x), bought'[x] = bought[x], x \in charged' <=> x \in charged,
           broken \subseteq broken', \A r \in Update : Grants(r, x)' => Grants(r, x),
           \A r \in Update : Grants(r, x) => Grants(r, x)' \/ x \in broken'
    PROVE  ChargeOK(x)'
BY DEF ChargeOK, Handling, Grants

(* A charge is put on record with what it buys. *)
LEMMA ChargeBuys ==
    ASSUME StarsTyped, NEW x \in Charge, ChargeOK(x), x \notin charged, charged' = charged \cup {x},
           bought' = [bought EXCEPT ![x] = Once(bought[x])],
           \A r \in Update : Grants(r, x)' => Grants(r, x)
    PROVE  ChargeOK(x)'
<1>1. bought[x] = 0 /\ bought'[x] = 1
  BY OnceTyped DEF ChargeOK, StarsTyped
<1>2. \A r \in Update : ~Grants(r, x)'
  BY DEF ChargeOK
<1> QED
  BY <1>1, <1>2 DEF ChargeOK

(* A request without a grant does not get one for x. *)
LEMMA NoGrant ==
    ASSUME NEW r \in Update, NEW x \in Charge, req[r].kind # "grant", req'[r].kind # "grant",
           \A s \in Update \ {r} : req'[s] = req[s]
    PROVE  \A s \in Update : Grants(s, x)' <=> Grants(s, x)
BY DEF Grants

LEMMA ReadHands ==
    ASSUME StarsTyped, NEW r \in Update, NEW kind, NEW t, NEW x, ReadWallet(r, kind, t, x)
    PROVE  /\ req'[r].kind = kind /\ req'[r].who = t /\ req'[r].seen = wallet[t]
           /\ \A s \in Update \ {r} : req'[s] = req[s]
BY DEF ReadWallet, StarsTyped

LEMMA ChargeStep == ChargeInv /\ StarsTyped /\ [StarsNext]_starsVars => ChargeInv'
<1> SUFFICES ASSUME ChargeInv, StarsTyped, [StarsNext]_starsVars, NEW y \in Charge PROVE ChargeOK(y)'
  BY DEF ChargeInv
<1>0. ChargeOK(y)
  BY DEF ChargeInv
<1> USE RestRow
<1>a. ASSUME NEW r \in Update, NEW kind \in {"topup", "spend", "buy", "checkin"}, NEW t, NEW x,
             req[r] = Rest, ReadWallet(r, kind, t, x)
      PROVE  ChargeOK(y)'
  <2>1. \A s \in Update : Grants(s, y)' <=> Grants(s, y)
    BY <1>a, ReadHands, NoGrant
  <2> QED
    BY <1>0, <1>a, <2>1, ChargeFrame DEF ReadWallet
<1>b. ASSUME NEW r \in Update, req[r].kind # "grant", req'[r].kind # "grant",
             \A s \in Update \ {r} : req'[s] = req[s], UNCHANGED <<charged, bought, broken>>
      PROVE  ChargeOK(y)'
  <2>1. \A s \in Update : Grants(s, y)' <=> Grants(s, y)
    BY <1>b, NoGrant
  <2> QED
    BY <1>0, <1>b, <2>1, ChargeFrame
<1>1. ASSUME NEW r \in Update, NEW t \in Holder, NEW x \in Charge, TopUpRead(r, t, x) PROVE ChargeOK(y)'
  BY <1>1, <1>a DEF TopUpRead
<1>2. ASSUME NEW r \in Update, NEW t \in Holder, NEW x \in Charge, BuyCalls(r, t, x) PROVE ChargeOK(y)'
  <2>1. /\ x \notin charged /\ charged' = charged \cup {x} /\ UNCHANGED <<req, broken>>
        /\ bought' = [bought EXCEPT ![x] = Once(bought[x])]
    BY <1>2 DEF BuyCalls, NotCharged
  <2>2. \A s \in Update : Grants(s, y)' <=> Grants(s, y)
    BY <2>1 DEF Grants
  <2>3. CASE x = y
    BY <1>0, <2>1, <2>2, <2>3, ChargeBuys
  <2>4. CASE x # y
    <3>1. bought'[y] = bought[y] /\ (y \in charged' <=> y \in charged)
      BY <2>1, <2>4 DEF StarsTyped
    <3> QED
      BY <1>0, <2>1, <2>2, <3>1, ChargeFrame
  <2> QED
    BY <2>3, <2>4
<1>3. ASSUME NEW r \in Update, NEW t \in Holder, NEW x \in Charge, BuyPlan(r, t, x) PROVE ChargeOK(y)'
  <2>1. /\ x \notin charged /\ charged' = charged \cup {x} /\ UNCHANGED <<bought, broken>>
        /\ req[r] = Rest /\ req'[r].kind = "grant" /\ req'[r].charge = x
        /\ \A s \in Update \ {r} : req'[s] = req[s]
    BY <1>3 DEF BuyPlan, NotCharged, histS, StarsTyped, Rest
  <2>2. CASE x = y
    <3>1. bought[y] = 0 /\ \A s \in Update : ~Grants(s, y)
      BY <1>0, <2>1, <2>2 DEF ChargeOK, StarsTyped
    <3>2. \A s \in Update : Grants(s, y)' <=> s = r
      BY <2>1, <2>2, <3>1 DEF Grants
    <3> QED
      BY <2>1, <2>2, <3>1, <3>2 DEF ChargeOK, Handling, Grants
  <2>3. CASE x # y
    <3>1. \A s \in Update : Grants(s, y)' <=> Grants(s, y)
      BY <2>1, <2>3 DEF Grants
    <3> QED
      BY <1>0, <2>1, <2>3, <3>1, ChargeFrame
  <2> QED
    BY <2>2, <2>3
<1>4. ASSUME NEW r \in Update, NEW t \in Holder, CheckInRead(r, t) PROVE ChargeOK(y)'
  BY <1>4, <1>a DEF CheckInRead
<1>5. ASSUME NEW r \in Update, NEW t \in Holder, NEW kind \in {"spend", "buy"}, SpendRead(r, t, kind)
      PROVE  ChargeOK(y)'
  BY <1>5, <1>a DEF SpendRead
<1>6. ASSUME NEW r \in Update, TopUpWrite(r) PROVE ChargeOK(y)'
  <2> DEFINE x == req[r].charge
  <2>1. /\ req[r].kind = "topup" /\ x \in Charge /\ req'[r].kind = "rest" /\ UNCHANGED broken
        /\ \A s \in Update \ {r} : req'[s] = req[s]
    BY <1>6, HandledTyped DEF TopUpWrite, StarsTyped, ReqOK
  <2>2. \A s \in Update : Grants(s, y)' <=> Grants(s, y)
    BY <2>1, NoGrant
  <2>3. CASE NotCharged(x) /\ x = y
    <3>1. y \notin charged /\ charged' = charged \cup {y} /\ bought' = [bought EXCEPT ![y] = Once(bought[y])]
      BY <1>6, <2>3 DEF TopUpWrite, NotCharged
    <3> QED
      BY <1>0, <2>2, <3>1, ChargeBuys
  <2>4. CASE ~(NotCharged(x) /\ x = y)
    <3>1. bought'[y] = bought[y] /\ (y \in charged' <=> y \in charged)
      BY <1>6, <2>1, <2>4 DEF TopUpWrite, StarsTyped
    <3> QED
      BY <1>0, <2>1, <2>2, <3>1, ChargeFrame
  <2> QED
    BY <2>3, <2>4
<1>7. ASSUME NEW r \in Update, SpendWrite(r) PROVE ChargeOK(y)'
  BY <1>7, <1>b, HandledTyped DEF SpendWrite
<1>8. ASSUME NEW r \in Update, BuyWrite(r) PROVE ChargeOK(y)'
  <2>1. /\ req[r].kind = "buy" /\ req'[r].kind = "pay" /\ \A s \in Update \ {r} : req'[s] = req[s]
        /\ UNCHANGED <<charged, bought, broken>>
    BY <1>8 DEF BuyWrite, StarsTyped, Rest
  <2> QED
    BY <1>b, <2>1
<1>9. ASSUME NEW r \in Update, PaySeller(r) PROVE ChargeOK(y)'
  BY <1>9, <1>b, HandledTyped DEF PaySeller
<1>10. ASSUME NEW r \in Update, CheckInWrite(r) PROVE ChargeOK(y)'
  BY <1>10, <1>b, HandledTyped DEF CheckInWrite
<1>11. ASSUME NEW r \in Update, GrantPlan(r) PROVE ChargeOK(y)'
  <2> DEFINE x == req[r].charge
  <2>1. /\ Grants(r, x) /\ x \in Charge /\ req'[r].kind = "rest" /\ UNCHANGED charged
        /\ \A s \in Update \ {r} : req'[s] = req[s]
    BY <1>11, HandledTyped DEF GrantPlan, StarsTyped, ReqOK, Grants
  <2>2. \/ broken' = broken \cup {x} /\ UNCHANGED bought
        \/ bought' = [bought EXCEPT ![x] = Once(bought[x])] /\ UNCHANGED broken
    BY <1>11 DEF GrantPlan
  <2>3. ChargeOK(x) /\ x \in charged /\ bought[x] = 0 /\ \A s \in Update : Grants(s, x) => s = r
    BY <2>1 DEF ChargeInv, ChargeOK
  <2>4. CASE x # y
    <3>1. (\A s \in Update : Grants(s, y)' <=> Grants(s, y)) /\ bought'[y] = bought[y]
      BY <2>1, <2>2, <2>4 DEF Grants, StarsTyped
    <3> QED
      BY <1>0, <2>1, <2>2, <3>1, ChargeFrame
  <2>5. CASE x = y
    <3>1. \A s \in Update : ~Grants(s, y)'
      BY <2>1, <2>3, <2>5 DEF Grants
    <3>2. CASE UNCHANGED bought
      BY <2>1, <2>2, <2>3, <2>5, <3>1, <3>2, OnceTyped DEF ChargeOK, StarsTyped
    <3>3. CASE bought' = [bought EXCEPT ![x] = Once(bought[x])]
      <4>1. bought'[y] = 1
        BY <2>1, <2>3, <2>5, <3>3, OnceTyped DEF StarsTyped
      <4> QED
        BY <2>1, <2>3, <2>5, <3>1, <4>1 DEF ChargeOK
    <3> QED
      BY <2>2, <3>2, <3>3
  <2> QED
    BY <2>4, <2>5
<1>12. ASSUME NEW r \in Update, RequestDies(r) PROVE ChargeOK(y)'
  <2>1. /\ req'[r].kind = "rest" /\ UNCHANGED <<charged, bought>> /\ broken \subseteq broken'
        /\ req[r].kind = "grant" => req[r].charge \in broken'
        /\ \A s \in Update \ {r} : req'[s] = req[s]
    BY <1>12, HandledTyped DEF RequestDies
  <2>2. \A s \in Update : (Grants(s, y)' => Grants(s, y)) /\ (Grants(s, y) => Grants(s, y)' \/ y \in broken')
    BY <2>1 DEF Grants
  <2> QED
    BY <1>0, <2>1, <2>2, ChargeFrame
<1>13. CASE UNCHANGED <<req, charged, bought, broken>>
  BY <1>0, <1>13, ChargeFrame DEF Grants
<1> QED
  BY <1>1, <1>2, <1>3, <1>4, <1>5, <1>6, <1>7, <1>8, <1>9, <1>10, <1>11, <1>12, <1>13
     DEF StarsNext, starsVars, NextDay, histS

(* However often a payment is delivered, it buys one thing, and what is on *)
(* record has bought it unless its handler is at it or was cut off.        *)
THEOREM ChargeBuysOnce == StarsSpec => []ChargeGrantedOnce
<1>1. StarsInit => ChargeInv
  BY RestRow DEF StarsInit, ChargeInv, ChargeOK, Grants
<1>2. ChargeInv => ChargeGrantedOnce
  BY DEF ChargeInv, ChargeOK, ChargeGrantedOnce
<1> QED
  BY <1>1, <1>2, ChargeStep, StarsHold, PTL DEF StarsSpec

-----------------------------------------------------------------------------
(* A wallet.                                                               *)

Holds(r, t) == req[r].kind \in WalletKinds /\ req[r].who = t

(* Until two requests hold it at once, who holds a wallet has read what is *)
(* in it.                                                                  *)
WalletOK(t) ==
    /\ wallet[t] = book[t]
    /\ \A r \in Update : Holds(r, t) => req[r].seen = wallet[t]
    /\ \A r, s \in Update : Holds(r, t) /\ Holds(s, t) => r = s

WalletInv == \A t \in Holder : t \in overlapped \/ WalletOK(t)

(* A request gets hold of the wallet of t, and reads it as it is now. *)
LEMMA HandTaken ==
    ASSUME StarsTyped, NEW u \in Holder, u \notin overlapped', overlapped \subseteq overlapped',
           u \in overlapped \/ WalletOK(u), NEW r \in Update, NEW t \in Holder,
           (\E q \in Update \ {r} : req[q].kind \notin {"rest", "grant"} /\ req[q].who = t) => t \in overlapped',
           wallet'[u] = book'[u], \A s \in Update \ {r} : req'[s] = req[s],
           u = t => req'[r].seen = wallet'[u], req'[r].who = t,
           \A s \in Update \ {r} : Holds(s, u) => wallet'[u] = wallet[u]
    PROVE  WalletOK(u)'
<1>1. WalletOK(u)
  OBVIOUS
<1>2. CASE u = t
  <2>1. \A s \in Update \ {r} : ~Holds(s, u)'
    BY <1>2 DEF Holds, WalletKinds
  <2> QED
    BY <1>2, <2>1 DEF WalletOK, Holds
<1>3. CASE u # t
  <2>1. \A s \in Update : Holds(s, u)' => s # r /\ Holds(s, u) /\ req'[s] = req[s]
    BY <1>3 DEF Holds
  <2> QED
    BY <1>1, <2>1 DEF WalletOK
<1> QED
  BY <1>2, <1>3

(* A request writes the wallet it holds. *)
LEMMA WalletWritten ==
    ASSUME StarsTyped, NEW u \in Holder, WalletOK(u), NEW r \in Update, NEW delta \in Int, WriteWallet(r, delta),
           req[r].kind \in WalletKinds
    PROVE  /\ wallet'[u] = book'[u]
           /\ \A s \in Update \ {r} : Holds(s, u) => wallet'[u] = wallet[u]
           /\ \A t \in Holder : t # req[r].who => wallet'[t] = wallet[t]
<1>1. /\ wallet' = [wallet EXCEPT ![req[r].who] = req[r].seen + delta]
      /\ book' = [book EXCEPT ![req[r].who] = book[req[r].who] + delta]
  BY DEF WriteWallet, NewBalance
<1>2. req[r].who \in Holder /\ wallet \in [Holder -> Nat] /\ book \in [Holder -> Int]
  BY DEF StarsTyped, ReqRow
<1>3. CASE req[r].who = u
  <2>1. req[r].seen = wallet[u] /\ \A s \in Update \ {r} : ~Holds(s, u)
    BY <1>3 DEF WalletOK, Holds
  <2>2. wallet'[u] = wallet[u] + delta /\ book'[u] = book[u] + delta
    BY <1>1, <1>2, <1>3, <2>1
  <2> QED
    BY <1>1, <1>2, <1>3, <2>1, <2>2 DEF WalletOK
<1>4. CASE req[r].who # u
  BY <1>1, <1>2, <1>4 DEF WalletOK
<1> QED
  BY <1>3, <1>4

(* A request lets go of what it held. *)
LEMMA HandEmptied ==
    ASSUME NEW u \in Holder, WalletOK(u), NEW r \in Update, Handled(r), StarsTyped,
           wallet'[u] = book'[u], \A s \in Update \ {r} : Holds(s, u) => wallet'[u] = wallet[u]
    PROVE  WalletOK(u)'
<1>1. \A s \in Update : Holds(s, u)' => s # r /\ Holds(s, u) /\ req'[s] = req[s]
  BY HandledTyped, RestRow DEF Holds, WalletKinds
<1> QED
  BY <1>1 DEF WalletOK

LEMMA WalletStep == WalletInv /\ StarsTyped /\ [StarsNext]_starsVars => WalletInv'
<1> SUFFICES ASSUME WalletInv, StarsTyped, [StarsNext]_starsVars, NEW u \in Holder, u \notin overlapped'
             PROVE  WalletOK(u)'
  BY DEF WalletInv
<1>0. u \in overlapped \/ WalletOK(u)
  BY DEF WalletInv
<1> USE RestRow
<1>a. ASSUME NEW r \in Update, NEW kind, NEW t \in Holder, NEW x, ReadWallet(r, kind, t, x) PROVE WalletOK(u)'
  <2>1. /\ overlapped \subseteq overlapped' /\ UNCHANGED <<wallet, book>>
        /\ (\E q \in Update \ {r} : req[q].kind \notin {"rest", "grant"} /\ req[q].who = t) => t \in overlapped'
    BY <1>a DEF ReadWallet
  <2>2. req'[r].who = t /\ req'[r].seen = wallet[t] /\ \A s \in Update \ {r} : req'[s] = req[s]
    BY <1>a, ReadHands
  <2>3. wallet'[u] = book'[u]
    BY <1>0, <2>1 DEF WalletOK
  <2> QED
    BY <1>0, <2>1, <2>2, <2>3, HandTaken
<1>b. ASSUME NEW r \in Update, NEW delta \in Int, WriteWallet(r, delta), Handled(r), req[r].kind \in WalletKinds,
             UNCHANGED overlapped
      PROVE  WalletOK(u)'
  BY <1>0, <1>b, WalletWritten, HandEmptied
<1>c. ASSUME NEW r \in Update, Handled(r), UNCHANGED <<wallet, book, overlapped>> PROVE WalletOK(u)'
  <2>1. wallet'[u] = book'[u]
    BY <1>0, <1>c DEF WalletOK
  <2> QED
    BY <1>0, <1>c, <2>1, HandEmptied
<1>1. ASSUME NEW r \in Update, NEW t \in Holder, NEW x \in Charge, TopUpRead(r, t, x) PROVE WalletOK(u)'
  BY <1>1, <1>a DEF TopUpRead
<1>2. ASSUME NEW r \in Update, NEW t \in Holder, NEW x \in Charge, BuyCalls(r, t, x) PROVE WalletOK(u)'
  BY <1>0, <1>2 DEF BuyCalls, WalletOK, Holds
<1>3. ASSUME NEW r \in Update, NEW t \in Holder, NEW x \in Charge, BuyPlan(r, t, x) PROVE WalletOK(u)'
  <2>1. UNCHANGED <<wallet, book, overlapped>> /\ req'[r].kind = "grant" /\ \A s \in Update \ {r} : req'[s] = req[s]
    BY <1>3 DEF BuyPlan, histS, StarsTyped, Rest
  <2>2. \A s \in Update : Holds(s, u)' => s # r /\ Holds(s, u) /\ req'[s] = req[s]
    BY <2>1 DEF Holds, WalletKinds
  <2> QED
    BY <1>0, <2>1, <2>2 DEF WalletOK
<1>4. ASSUME NEW r \in Update, NEW t \in Holder, CheckInRead(r, t) PROVE WalletOK(u)'
  BY <1>4, <1>a DEF CheckInRead
<1>5. ASSUME NEW r \in Update, NEW t \in Holder, NEW kind \in {"spend", "buy"}, SpendRead(r, t, kind)
      PROVE  WalletOK(u)'
  BY <1>5, <1>a DEF SpendRead
<1>6. ASSUME NEW r \in Update, TopUpWrite(r) PROVE WalletOK(u)'
  <2>1. /\ req[r].kind \in WalletKinds /\ Handled(r) /\ UNCHANGED overlapped
        /\ WriteWallet(r, TopUp) \/ UNCHANGED <<wallet, book>>
    BY <1>6 DEF TopUpWrite, WalletKinds
  <2> QED
    BY <1>b, <1>c, <2>1
<1>7. ASSUME NEW r \in Update, SpendWrite(r) PROVE WalletOK(u)'
  BY <1>7, <1>b DEF SpendWrite, WalletKinds
<1>8. ASSUME NEW r \in Update, BuyWrite(r) PROVE WalletOK(u)'
  <2>1. /\ overlapped \subseteq overlapped' /\ WriteWallet(r, -Price) /\ req[r].kind = "buy"
        /\ (\E q \in Update \ {r} : req[q].kind \notin {"rest", "grant"} /\ req[q].who = Seller) =>
              Seller \in overlapped'
        /\ req' = [req EXCEPT ![r] = [Rest EXCEPT !.kind = "pay", !.seen = wallet[Seller]]]
    BY <1>8 DEF BuyWrite
  <2>2. /\ req'[r].who = Seller /\ req'[r].seen = wallet[Seller] /\ \A s \in Update \ {r} : req'[s] = req[s]
        /\ req[r].who # Seller
    BY <2>1 DEF StarsTyped, Rest, ReqOK
  <2>3. WalletOK(u) /\ req[r].kind \in WalletKinds /\ -Price \in Int
    BY <1>0, <2>1 DEF WalletKinds
  <2>4. /\ wallet'[u] = book'[u] /\ wallet'[Seller] = wallet[Seller]
        /\ \A s \in Update \ {r} : Holds(s, u) => wallet'[u] = wallet[u]
    BY <2>1, <2>2, <2>3, WalletWritten
  <2> QED
    BY <1>0, <2>1, <2>2, <2>4, HandTaken
<1>9. ASSUME NEW r \in Update, PaySeller(r) PROVE WalletOK(u)'
  <2>1. (7 * Price) \div 10 \in Int
    OBVIOUS
  <2> QED
    BY <1>9, <1>b, <2>1 DEF PaySeller, WalletKinds
<1>10. ASSUME NEW r \in Update, CheckInWrite(r) PROVE WalletOK(u)'
  BY <1>10, <1>b DEF CheckInWrite, WalletKinds
<1>11. ASSUME NEW r \in Update, GrantPlan(r) \/ RequestDies(r) PROVE WalletOK(u)'
  BY <1>11, <1>c DEF GrantPlan, RequestDies
<1>12. CASE UNCHANGED <<wallet, book, req, overlapped>>
  BY <1>0, <1>12 DEF WalletOK, Holds
<1> QED
  BY <1>1, <1>2, <1>3, <1>4, <1>5, <1>6, <1>7, <1>8, <1>9, <1>10, <1>11, <1>12
     DEF StarsNext, starsVars, NextDay, histS

(* A wallet holds what was put in and taken out of it, until two requests  *)
(* have it in hand at once.                                                *)
THEOREM WalletsBalance == StarsSpec => []WalletBalanced
<1>1. StarsInit => WalletInv
  BY RestRow DEF StarsInit, WalletInv, WalletOK, Holds, WalletKinds
<1>2. WalletInv => WalletBalanced
  BY DEF WalletInv, WalletOK, WalletBalanced
<1> QED
  BY <1>1, <1>2, WalletStep, StarsHold, PTL DEF StarsSpec

-----------------------------------------------------------------------------
(* Credits: the rows.                                                      *)

TurnPC  == {"new", "estimate", "refused", "save", "history", "generate", "answered", "done", "failed"}
TurnRow == [pc : TurnPC, stream : BOOLEAN, used : Usages \cup {0}, short : BOOLEAN, copy : Row]
CallRow == [pc : {"new", "loaded", "done"}, copy : Row, kind : {"none", "legacy", "reset", "pack", "upgrade"}]
MessageRow == [turn : Turn, role : {"user", "assistant"}, empty : BOOLEAN]

(* A trial is of the paid plan, and has never been refilled. *)
TrialOK(c) == c.trial => c.plan = "pro" /\ c.refilled = 0

RowsOK ==
    /\ tenant \in Row /\ TrialOK(tenant)
    /\ turn \in [Turn -> TurnRow] /\ caller \in [Caller -> CallRow]
    /\ \A t \in Turn : TrialOK(turn[t].copy) /\ (tenant.trial => turn[t].copy.trial)
    /\ \A q \in Caller : TrialOK(caller[q].copy) /\ (tenant.trial => caller[q].copy.trial)
    /\ hour \in 0 .. MaxHour
    /\ paid \in [Turn -> Int] /\ alone \in [Turn -> BOOLEAN]

LEMMA CreditNumbers ==
    /\ Estimate \in Nat /\ Estimate > 0 /\ LegacyCost \in Nat /\ PackSize \in Nat /\ Usages \subseteq Nat
    /\ FreePool \in Nat /\ PaidPool \in Nat /\ ResetTokens \in Nat
    /\ RefillInterval \in Nat \ {0} /\ TrialEnd \in Nat \ {0} /\ MaxHour \in Nat
BY CreditAssumption DEF CreditAssumption

(* What the service makes of a copy; a balance changes by more than the    *)
(* charge only if the time of the refill does.                             *)
LEMMA CheckedRow ==
    ASSUME NEW c \in Row, TrialOK(c), hour \in 0 .. MaxHour
    PROVE  /\ Checked(c) \in Row /\ TrialOK(Checked(c)) /\ (Checked(c).trial => c.trial)
           /\ Refilled(c) \in Row /\ TrialOK(Refilled(c)) /\ Refilled(c).trial = c.trial
           /\ Checked(c).refilled = c.refilled => Checked(c) = c
<1> USE CreditNumbers
<1> DEFINE e == [c EXCEPT !.plan = "free", !.trial = FALSE, !.balance = FreePool, !.refilled = hour]
           f == [c EXCEPT !.balance = FreePool, !.refilled = hour]
<1>1. e \in Row /\ e.plan = "free" /\ ~e.trial /\ e.balance = FreePool /\ e.refilled = hour
  BY DEF Row
<1>2. f \in Row /\ f.plan = c.plan /\ f.trial = c.trial /\ f.refilled = hour
  BY DEF Row
<1>3. Refilled(c) \in {c, f} /\ (Refilled(c) = f => f = c \/ hour # c.refilled)
  BY DEF Refilled, Row
<1>a. c.trial => Refilled(c) = c
  BY DEF Refilled, TrialOK
<1>b. Refilled(c) \in Row /\ TrialOK(Refilled(c)) /\ Refilled(c).trial = c.trial
  <2> HIDE DEF f
  <2> QED
    BY <1>2, <1>3, <1>a DEF TrialOK
<1>4. CASE c.trial /\ hour >= TrialEnd
  <2>1. Expired(c) = e
    BY <1>4 DEF Expired
  <2>2. hour # c.refilled
    BY <1>4 DEF TrialOK
  <2> HIDE DEF e, f
  <2>3. Refilled(e) = e
    BY <1>1 DEF Refilled
  <2> QED
    BY <1>1, <1>4, <1>b, <2>1, <2>2, <2>3 DEF Checked, TrialOK
<1>5. CASE ~(c.trial /\ hour >= TrialEnd)
  <2>1. Expired(c) = c
    BY <1>5 DEF Expired
  <2> HIDE DEF e, f
  <2> QED
    BY <1>2, <1>3, <1>b, <2>1 DEF Checked
<1> QED
  BY <1>4, <1>5

LEMMA ChargedRow ==
    ASSUME NEW c \in Row, TrialOK(c), NEW n \in Nat
    PROVE  /\ Charged(c, n) \in Row /\ TrialOK(Charged(c, n))
           /\ Charged(c, n).trial = c.trial /\ Charged(c, n).refilled = c.refilled
           /\ Charged(c, n).balance = IF Covers(c, n) THEN c.balance - n ELSE c.balance
           /\ PaidBack(c) \in Row /\ TrialOK(PaidBack(c)) /\ PaidBack(c).trial = c.trial
           /\ PaidBack(c).refilled = c.refilled /\ PaidBack(c).balance = c.balance + Estimate
BY CreditNumbers DEF Charged, Covers, PaidBack, Row, TrialOK

LEMMA EditedRow ==
    ASSUME NEW c \in Row, TrialOK(c), NEW k \in 0 .. ResetTokens, NEW m \in Nat,
           NEW r, r = [c EXCEPT !.tokens = k, !.balance = m]
    PROVE  r \in Row /\ TrialOK(r) /\ r.trial = c.trial
BY DEF Row, TrialOK

LEMMA PaidRow ==
    ASSUME NEW c \in Row, NEW r, r = [c EXCEPT !.plan = "pro", !.trial = FALSE]
    PROVE  r \in Row /\ ~r.trial
BY DEF Row

(* A commit over whatever is there by now. *)
LEMMA WrittenRow ==
    ASSUME NEW old \in Row, NEW new \in Row, tenant \in Row, TrialOK(old), TrialOK(new), TrialOK(tenant),
           new.trial => old.trial, tenant.trial => old.trial
    PROVE  /\ Written(old, new) \in Row /\ TrialOK(Written(old, new))
           /\ Written(old, new).trial => tenant.trial /\ new.trial
           /\ Written(old, new).balance = IF new.balance # old.balance THEN new.balance ELSE tenant.balance
<1> DEFINE w(f) == IF new[f] # old[f] THEN new[f] ELSE tenant[f]
           r == [plan |-> w("plan"), trial |-> w("trial"), balance |-> w("balance"),
                 tokens |-> w("tokens"), refilled |-> w("refilled")]
<1>1. DOMAIN tenant = {"plan", "trial", "balance", "tokens", "refilled"}
  BY DEF Row
<1>2. Written(old, new) = r
  BY <1>1 DEF Written
<1>3. r \in Row
  BY DEF Row
<1>4. r.trial => tenant.trial /\ new.trial
  BY DEF Row
<1>5. r.trial => r.plan = "pro" /\ r.refilled = 0
  BY <1>4 DEF TrialOK, Row
<1> HIDE DEF r
<1> QED
  BY <1>2, <1>3, <1>4, <1>5 DEF TrialOK, r

(* A turn with a new row. *)
LEMMA TurnMoves ==
    ASSUME RowsOK, NEW t \in Turn, NEW r \in TurnRow, TrialOK(r.copy), tenant.trial => r.copy.trial,
           turn' = [turn EXCEPT ![t] = r], UNCHANGED tenant
    PROVE  /\ turn' \in [Turn -> TurnRow] /\ turn'[t] = r /\ \A u \in Turn \ {t} : turn'[u] = turn[u]
           /\ \A u \in Turn : TrialOK(turn'[u].copy) /\ (tenant.trial => turn'[u].copy.trial)
BY DEF RowsOK

(* A turn commits what it has made of its copy. *)
LEMMA TurnWritesRow ==
    ASSUME RowsOK, NEW t \in Turn, NEW new \in Row, TrialOK(new), new.trial => turn[t].copy.trial,
           TurnWrites(t, new)
    PROVE  /\ tenant' \in Row /\ TrialOK(tenant') /\ (tenant'.trial => tenant.trial /\ new.trial)
           /\ tenant'.balance = IF new.balance # turn[t].copy.balance THEN new.balance ELSE tenant.balance
           /\ paid' \in [Turn -> Int] /\ paid'[t] = paid[t] + tenant.balance - tenant'.balance
           /\ \A u \in Turn \ {t} : paid'[u] = paid[u] /\ (alone'[u] => alone[u] /\ ~UnderWay(u))
           /\ alone' \in [Turn -> BOOLEAN]
           /\ alone'[t] => alone[t] /\ (new.refilled = turn[t].copy.refilled \/ ~UnderWay(t))
<1>1. turn[t].copy \in Row /\ TrialOK(turn[t].copy) /\ (tenant.trial => turn[t].copy.trial)
  BY DEF RowsOK, TurnRow
<1>2. tenant' = Written(turn[t].copy, new)
  BY DEF TurnWrites
<1>3. /\ tenant' \in Row /\ TrialOK(tenant') /\ (tenant'.trial => tenant.trial /\ new.trial)
      /\ tenant'.balance = IF new.balance # turn[t].copy.balance THEN new.balance ELSE tenant.balance
  BY <1>1, <1>2, WrittenRow DEF RowsOK
<1>4. tenant.balance \in Nat /\ tenant'.balance \in Nat
  BY <1>3 DEF RowsOK, Row
<1>5. /\ paid' \in [Turn -> Int] /\ paid'[t] = paid[t] + tenant.balance - tenant'.balance
      /\ \A u \in Turn \ {t} : paid'[u] = paid[u]
  BY <1>4 DEF TurnWrites, RowsOK
<1>6. /\ alone' \in [Turn -> BOOLEAN]
      /\ \A u \in Turn \ {t} : alone'[u] => alone[u] /\ ~UnderWay(u)
      /\ alone'[t] => alone[t] /\ (new.refilled = turn[t].copy.refilled \/ ~UnderWay(t))
  BY DEF TurnWrites, Across, RowsOK
<1> QED
  BY <1>3, <1>5, <1>6

(* Another request commits, across whatever is under way. *)
LEMMA CallerWritesRow ==
    ASSUME RowsOK, NEW q \in Caller, NEW new \in Row, TrialOK(new), new.trial => caller[q].copy.trial,
           CallerWrites(q, new)
    PROVE  /\ tenant' \in Row /\ TrialOK(tenant') /\ (tenant'.trial => tenant.trial)
<1>1. caller[q].copy \in Row /\ TrialOK(caller[q].copy) /\ (tenant.trial => caller[q].copy.trial)
  BY DEF RowsOK, CallRow
<1>2. tenant' = Written(caller[q].copy, new)
  BY DEF CallerWrites
<1> QED
  BY <1>1, <1>2, WrittenRow DEF RowsOK

LEMMA CallerDone ==
    ASSUME RowsOK, NEW q \in Caller, caller' = [caller EXCEPT ![q].pc = "done"],
           tenant' \in Row, TrialOK(tenant'), tenant'.trial => tenant.trial, Across(Turn),
           UNCHANGED <<turn, hour, paid>>
    PROVE  /\ RowsOK' /\ \A t \in Turn : alone'[t] => alone[t] /\ ~UnderWay(t)
<1> DEFINE r == [caller[q] EXCEPT !.pc = "done"]
<1>1. r \in CallRow /\ r.copy = caller[q].copy
  BY DEF RowsOK, CallRow
<1>2. caller' = [caller EXCEPT ![q] = r]
  OBVIOUS
<1> HIDE DEF r
<1>3. caller' \in [Caller -> CallRow] /\ \A p \in Caller : caller'[p].copy = caller[p].copy
  BY <1>1, <1>2 DEF RowsOK
<1>4. alone' \in [Turn -> BOOLEAN] /\ \A t \in Turn : alone'[t] => alone[t] /\ ~UnderWay(t)
  BY DEF Across, RowsOK
<1> QED
  BY <1>3, <1>4 DEF RowsOK

-----------------------------------------------------------------------------
(* Credits: what a turn has cost.                                          *)

Charging == {"save", "history", "generate", "answered"}

CostOK(t) ==
    /\ turn[t].pc = "new" => paid[t] = 0
    /\ alone[t] =>
          /\ turn[t].pc = "estimate" => paid[t] = 0 /\ turn[t].copy.balance = tenant.balance
          /\ turn[t].pc \in Charging => paid[t] = Estimate /\ turn[t].copy.balance = tenant.balance
          /\ turn[t].pc = "failed" => paid[t] = Estimate
          /\ turn[t].pc = "done" /\ turn[t].stream => paid[t] = IF turn[t].short THEN 0 ELSE turn[t].used

CostInv == RowsOK /\ \A t \in Turn : CostOK(t)

(* What others write is not a turn's cost. *)
LEMMA CostFrame ==
    ASSUME NEW t \in Turn, CostOK(t), turn'[t] = turn[t], paid'[t] = paid[t],
           alone'[t] => alone[t] /\ (~UnderWay(t) \/ tenant'.balance = tenant.balance)
    PROVE  CostOK(t)'
BY DEF CostOK, UnderWay, Charging

(* A turn that writes nothing moves. *)
LEMMA QuietMove ==
    ASSUME CostInv, NEW t \in Turn, NEW r \in TurnRow, turn' = [turn EXCEPT ![t] = r],
           UNCHANGED <<tenant, caller, hour, paid, alone>>,
           TrialOK(r.copy), tenant.trial => r.copy.trial, CostOK(t)'
    PROVE  CostInv'
<1>1. /\ turn' \in [Turn -> TurnRow] /\ \A u \in Turn \ {t} : turn'[u] = turn[u]
      /\ \A u \in Turn : TrialOK(turn'[u].copy) /\ (tenant.trial => turn'[u].copy.trial)
  BY TurnMoves DEF CostInv
<1>2. \A u \in Turn \ {t} : CostOK(u)'
  BY <1>1, CostFrame DEF CostInv
<1> QED
  BY <1>1, <1>2 DEF CostInv, RowsOK

(* A turn that has written goes on. *)
LEMMA WritingMove ==
    ASSUME CostInv, NEW t \in Turn, NEW r \in TurnRow, turn' = [turn EXCEPT ![t] = r],
           NEW new \in Row, TrialOK(new), new.trial => turn[t].copy.trial, TurnWrites(t, new),
           UNCHANGED <<caller, hour>>,
           TrialOK(r.copy), tenant'.trial => r.copy.trial, CostOK(t)'
    PROVE  CostInv'
<1>1. /\ tenant' \in Row /\ TrialOK(tenant') /\ (tenant'.trial => tenant.trial)
      /\ paid' \in [Turn -> Int] /\ alone' \in [Turn -> BOOLEAN]
      /\ \A u \in Turn \ {t} : paid'[u] = paid[u] /\ (alone'[u] => alone[u] /\ ~UnderWay(u))
  BY TurnWritesRow DEF CostInv
<1>2. /\ turn' \in [Turn -> TurnRow] /\ turn'[t] = r /\ \A u \in Turn \ {t} : turn'[u] = turn[u]
      /\ \A u \in Turn : TrialOK(turn'[u].copy) /\ (tenant'.trial => turn'[u].copy.trial)
  BY <1>1 DEF CostInv, RowsOK
<1>3. \A u \in Turn \ {t} : CostOK(u)'
  BY <1>1, <1>2, CostFrame DEF CostInv
<1> QED
  BY <1>1, <1>2, <1>3 DEF CostInv, RowsOK

LEMMA CostStep == CostInv /\ [CreditNext]_creditVars => CostInv'
<1> SUFFICES ASSUME CostInv, [CreditNext]_creditVars PROVE CostInv'
  OBVIOUS
<1> USE CreditNumbers
<1>0. RowsOK /\ \A t \in Turn : CostOK(t) /\ turn[t] \in TurnRow /\ turn[t].copy \in Row /\ TrialOK(turn[t].copy)
  BY DEF CostInv, RowsOK, TurnRow
<1>1. ASSUME NEW t \in Turn, LoadTenant(t) PROVE CostInv'
  <2>1. PICK stream \in BOOLEAN : turn' = [turn EXCEPT ![t] = [Fresh EXCEPT !.pc = "estimate", !.stream = stream]]
    BY <1>1 DEF LoadTenant
  <2> DEFINE r == [Fresh EXCEPT !.pc = "estimate", !.stream = stream]
  <2>2. r \in TurnRow /\ r.copy = tenant /\ r.pc = "estimate"
    BY <1>0 DEF Fresh, TurnRow, TurnPC, RowsOK
  <2> HIDE DEF r
  <2>3. UNCHANGED <<tenant, caller, hour, paid, alone>> /\ turn[t].pc = "new" /\ turn'[t] = r
    BY <1>0, <1>1, <2>1 DEF LoadTenant, RowsOK, r
  <2>4. CostOK(t)'
    BY <1>0, <2>2, <2>3 DEF CostOK, Charging
  <2> QED
    BY <1>0, <2>1, <2>2, <2>3, <2>4, QuietMove DEF RowsOK, r
<1>2. ASSUME NEW t \in Turn, ChargeEstimate(t) PROVE CostInv'
  <2> DEFINE copy == turn[t].copy
             c == Checked(copy)
             d == Charged(c, Estimate)
  <2>1. /\ c \in Row /\ TrialOK(c) /\ (c.trial => copy.trial) /\ (c.refilled = copy.refilled => c = copy)
        /\ d \in Row /\ TrialOK(d) /\ d.trial = c.trial /\ d.refilled = c.refilled
        /\ d.balance = IF Covers(c, Estimate) THEN c.balance - Estimate ELSE c.balance
    BY <1>0, CheckedRow, ChargedRow DEF RowsOK
  <2>2. turn[t].pc = "estimate" /\ UnderWay(t) /\ UNCHANGED <<caller, hour>>
    BY <1>2 DEF ChargeEstimate, UnderWay
  <2>3. CASE Covers(c, Estimate)
    <3> DEFINE r == [turn[t] EXCEPT !.pc = "save", !.copy = d]
    <3>1. r \in TurnRow /\ r.pc = "save" /\ r.copy = d
      BY <1>0, <2>1 DEF TurnRow, TurnPC
    <3>2. turn' = [turn EXCEPT ![t] = r] /\ TurnWrites(t, d)
      BY <1>2, <2>3 DEF ChargeEstimate
    <3> HIDE DEF r
    <3>3. turn'[t] = r
      BY <1>0, <3>2 DEF RowsOK
    <3>4. /\ tenant'.trial => d.trial
          /\ tenant'.balance = IF d.balance # copy.balance THEN d.balance ELSE tenant.balance
          /\ paid'[t] = paid[t] + tenant.balance - tenant'.balance
          /\ alone'[t] => alone[t] /\ d.refilled = copy.refilled
      BY <1>0, <2>1, <2>2, <3>2, TurnWritesRow
    <3>5. tenant.balance \in Nat /\ copy.balance \in Nat
      BY <1>0 DEF RowsOK, Row
    <3>6. alone'[t] => paid'[t] = Estimate /\ tenant'.balance = d.balance
      BY <1>0, <2>1, <2>2, <2>3, <3>4, <3>5 DEF CostOK
    <3>7. CostOK(t)'
      BY <3>1, <3>3, <3>6 DEF CostOK
    <3> HIDE DEF c, d
    <3> QED
      BY <2>1, <2>2, <3>1, <3>2, <3>4, <3>7, WritingMove
  <2>4. CASE ~Covers(c, Estimate)
    <3> DEFINE r == [turn[t] EXCEPT !.pc = "refused"]
    <3>1. r \in TurnRow /\ r.pc = "refused" /\ r.copy = copy
      BY <1>0 DEF TurnRow, TurnPC
    <3>2. turn' = [turn EXCEPT ![t] = r] /\ UNCHANGED <<tenant, caller, hour, paid, alone>>
      BY <1>2, <2>4 DEF ChargeEstimate
    <3> HIDE DEF r
    <3>3. CostOK(t)'
      BY <1>0, <3>1, <3>2 DEF CostOK, RowsOK, Charging
    <3> QED
      BY <1>0, <3>1, <3>2, <3>3, QuietMove DEF RowsOK
  <2> QED
    BY <2>3, <2>4
<1>3. ASSUME NEW t \in Turn, NEW pc \in {"history", "generate", "answered", "failed"}, NEW n \in Usages \cup {0},
             turn' = [turn EXCEPT ![t].pc = pc, ![t].used = n], turn[t].pc \in Charging,
             UNCHANGED <<tenant, caller, hour, paid, alone>>
      PROVE  CostInv'
  <2> DEFINE r == [turn[t] EXCEPT !.pc = pc, !.used = n]
  <2>1. r \in TurnRow /\ r.pc = pc /\ r.copy = turn[t].copy
    BY <1>0 DEF TurnRow, TurnPC
  <2>2. turn' = [turn EXCEPT ![t] = r]
    BY <1>3
  <2> HIDE DEF r
  <2>3. CostOK(t)'
    BY <1>0, <1>3, <2>1, <2>2 DEF CostOK, RowsOK, Charging
  <2> QED
    BY <1>0, <1>3, <2>1, <2>2, <2>3, QuietMove DEF RowsOK
<1>4. ASSUME NEW t \in Turn, SaveQuestion(t) \/ BuildHistory(t) \/ Generate(t) \/ GenerationFails(t) PROVE CostInv'
  <2>1. turn[t].pc \in Charging /\ UNCHANGED <<tenant, caller, hour, paid, alone>>
    BY <1>4 DEF SaveQuestion, BuildHistory, Generate, GenerationFails, Charging
  <2>2. \/ \E pc \in {"history", "generate", "failed"} : turn' = [turn EXCEPT ![t].pc = pc]
        \/ \E n \in Usages : turn' = [turn EXCEPT ![t].pc = "answered", ![t].used = n]
    BY <1>4 DEF SaveQuestion, BuildHistory, Generate, GenerationFails
  <2>3. ASSUME NEW pc \in {"history", "generate", "failed"}, turn' = [turn EXCEPT ![t].pc = pc]
        PROVE  turn' = [turn EXCEPT ![t].pc = pc, ![t].used = turn[t].used] /\ turn[t].used \in Usages \cup {0}
    BY <1>0, <2>3 DEF RowsOK, TurnRow
  <2> QED
    BY <1>3, <2>1, <2>2, <2>3
<1>5. ASSUME NEW t \in Turn, NEW back \in Row, TrialOK(back), back.trial = turn[t].copy.trial,
             back.refilled = turn[t].copy.refilled,
             turn[t].stream => back.balance = turn[t].copy.balance + Estimate,
             turn[t].pc = "answered", Settles(t, back)
      PROVE  CostInv'
  <2> DEFINE copy == turn[t].copy
             c == Checked(back)
             n == turn[t].used
             d == Charged(c, n)
  <2>0. n \in Nat
    <3>1. n \in Usages \cup {0}
      BY <1>0 DEF TurnRow
    <3> HIDE DEF n
    <3> QED
      BY <3>1, CreditNumbers
  <2>1. /\ c \in Row /\ TrialOK(c) /\ (c.trial => copy.trial) /\ (c.refilled = copy.refilled => c = back)
        /\ d \in Row /\ TrialOK(d) /\ d.trial = c.trial /\ d.refilled = c.refilled
        /\ d.balance = IF Covers(c, n) THEN c.balance - n ELSE c.balance
    BY <1>0, <1>5, <2>0, CheckedRow, ChargedRow DEF RowsOK
  <2> DEFINE r == [turn[t] EXCEPT !.pc = "done", !.short = ~Covers(c, n)]
  <2>2. /\ r \in TurnRow /\ r.pc = "done" /\ r.copy = copy /\ r.short = ~Covers(c, n)
        /\ r.stream = turn[t].stream /\ r.used = n
    BY <1>0 DEF TurnRow, TurnPC
  <2>3. turn' = [turn EXCEPT ![t] = r] /\ TurnWrites(t, d) /\ UNCHANGED <<caller, hour>> /\ UnderWay(t)
    BY <1>5 DEF Settles, UnderWay
  <2> HIDE DEF r
  <2>4. turn'[t] = r
    BY <1>0, <2>3 DEF RowsOK
  <2>5. /\ tenant'.trial => d.trial
        /\ tenant'.balance = IF d.balance # copy.balance THEN d.balance ELSE tenant.balance
        /\ paid'[t] = paid[t] + tenant.balance - tenant'.balance
        /\ alone'[t] => alone[t] /\ d.refilled = copy.refilled
    BY <1>0, <2>1, <2>3, TurnWritesRow
  <2>6. tenant.balance \in Nat /\ copy.balance \in Nat
    BY <1>0 DEF RowsOK, Row
  <2>7. alone'[t] => paid[t] = Estimate /\ copy.balance = tenant.balance /\ tenant'.balance = d.balance /\ c = back
    BY <1>0, <1>5, <2>1, <2>5 DEF CostOK, Charging
  <2>8. alone'[t] /\ turn[t].stream => paid'[t] = IF Covers(c, n) THEN n ELSE 0
    BY <1>5, <2>0, <2>1, <2>5, <2>6, <2>7
  <2>9. CostOK(t)'
    BY <2>2, <2>4, <2>8 DEF CostOK, Charging
  <2> HIDE DEF c, d
  <2>10. TrialOK(r.copy) /\ (tenant'.trial => r.copy.trial)
    BY <1>0, <2>1, <2>2, <2>5
  <2> QED
    BY <2>1, <2>2, <2>3, <2>9, <2>10, WritingMove
<1>6. ASSUME NEW t \in Turn, FinishStream(t) PROVE CostInv'
  <2> DEFINE back == PaidBack(turn[t].copy)
  <2>1. /\ back \in Row /\ TrialOK(back) /\ back.trial = turn[t].copy.trial
        /\ back.refilled = turn[t].copy.refilled /\ back.balance = turn[t].copy.balance + Estimate
    BY <1>0, ChargedRow
  <2> HIDE DEF back
  <2>2. turn[t].pc = "answered" /\ Settles(t, back)
    BY <1>6 DEF FinishStream, back
  <2> QED
    BY <1>5, <2>1, <2>2
<1>7. ASSUME NEW t \in Turn, FinishWhole(t) PROVE CostInv'
  BY <1>0, <1>5, <1>7 DEF FinishWhole
<1>8. ASSUME NEW q \in Caller, LoadFor(q) PROVE CostInv'
  <2>1. PICK kind \in {"legacy", "reset", "pack", "upgrade"} :
           caller' = [caller EXCEPT ![q] = [pc |-> "loaded", kind |-> kind, copy |-> tenant]]
    BY <1>8 DEF LoadFor
  <2> DEFINE r == [pc |-> "loaded", kind |-> kind, copy |-> tenant]
  <2>2. r \in CallRow /\ r.copy = tenant
    BY <1>0 DEF CallRow, RowsOK
  <2> HIDE DEF r
  <2>3. caller' \in [Caller -> CallRow] /\ \A p \in Caller : TrialOK(caller'[p].copy) /\ (tenant.trial => caller'[p].copy.trial)
    BY <1>0, <2>1, <2>2 DEF RowsOK, r
  <2>4. UNCHANGED <<tenant, turn, hour, paid, alone>>
    BY <1>8 DEF LoadFor
  <2>5. \A t \in Turn : CostOK(t)'
    BY <1>0, <2>4 DEF CostOK
  <2> QED
    BY <1>0, <2>3, <2>4, <2>5 DEF CostInv, RowsOK
<1>9. ASSUME NEW q \in Caller, SpendLegacy(q) \/ ResetPool(q) \/ AddPack(q) \/ Upgrade(q) PROVE CostInv'
  <2> DEFINE copy == caller[q].copy
  <2>0. copy \in Row /\ TrialOK(copy) /\ (tenant.trial => copy.trial)
    BY <1>0 DEF RowsOK, CallRow
  <2>1. /\ tenant' \in Row /\ TrialOK(tenant') /\ (tenant'.trial => tenant.trial)
        /\ Across(Turn) /\ caller' = [caller EXCEPT ![q].pc = "done"] /\ UNCHANGED <<turn, hour, paid>>
    <3>1. CASE SpendLegacy(q)
      <4> DEFINE new == Charged(Refilled(copy), LegacyCost)
      <4>1. new \in Row /\ TrialOK(new) /\ new.trial = copy.trial
        <5>1. Refilled(copy) \in Row /\ TrialOK(Refilled(copy)) /\ Refilled(copy).trial = copy.trial
          BY <1>0, <2>0, CheckedRow DEF RowsOK
        <5> HIDE DEF copy
        <5> QED
          BY <5>1, ChargedRow
      <4>2. CallerWrites(q, new)
        BY <3>1 DEF SpendLegacy
      <4> HIDE DEF new
      <4> QED
        BY <1>0, <4>1, <4>2, CallerWritesRow DEF CallerWrites
    <3>2. CASE ResetPool(q)
      <4> DEFINE k == copy.tokens - 1
                 new == [copy EXCEPT !.tokens = k, !.balance = PaidPool]
      <4>1. new \in Row /\ TrialOK(new) /\ new.trial = copy.trial
        <5>1. copy.tokens \in 0 .. ResetTokens /\ copy.tokens > 0
          BY <2>0, <3>2 DEF ResetPool, Row
        <5>2. k \in 0 .. ResetTokens
          BY <5>1, CreditNumbers
        <5>3. PaidPool \in Nat
          BY CreditNumbers
        <5> HIDE DEF k, copy
        <5>4. new = [copy EXCEPT !.tokens = k, !.balance = PaidPool]
          OBVIOUS
        <5> HIDE DEF new
        <5> QED
          BY <2>0, <5>2, <5>3, <5>4, EditedRow
      <4>2. CallerWrites(q, new)
        BY <3>2 DEF ResetPool
      <4> HIDE DEF new
      <4> QED
        BY <1>0, <4>1, <4>2, CallerWritesRow DEF CallerWrites
    <3>3. CASE AddPack(q)
      <4> DEFINE new == [copy EXCEPT !.balance = copy.balance + PackSize]
      <4>1. new \in Row /\ TrialOK(new) /\ new.trial = copy.trial
        BY <2>0 DEF Row, TrialOK
      <4>2. CallerWrites(q, new)
        BY <3>3 DEF AddPack
      <4> HIDE DEF new
      <4> QED
        BY <1>0, <4>1, <4>2, CallerWritesRow DEF CallerWrites
    <3>4. CASE Upgrade(q)
      <4>1. tenant' = [plan |-> "pro", trial |-> FALSE, balance |-> PaidPool, tokens |-> ResetTokens, refilled |-> hour]
            \/ tenant' = [tenant EXCEPT !.plan = "pro", !.trial = FALSE]
        BY <3>4 DEF Upgrade
      <4>2. tenant' \in Row /\ ~tenant'.trial
        <5>1. hour \in 0 .. MaxHour /\ tenant \in Row
          BY <1>0 DEF RowsOK
        <5>2. ResetTokens \in 0 .. ResetTokens /\ PaidPool \in Nat
          BY CreditNumbers
        <5>3. CASE tenant' = [tenant EXCEPT !.plan = "pro", !.trial = FALSE]
          BY <5>1, <5>3, PaidRow
        <5>4. CASE tenant' = [plan |-> "pro", trial |-> FALSE, balance |-> PaidPool,
                              tokens |-> ResetTokens, refilled |-> hour]
          BY <5>1, <5>2, <5>4 DEF Row
        <5> QED
          BY <4>1, <5>3, <5>4
      <4> QED
        BY <3>4, <4>2 DEF Upgrade, TrialOK
    <3> QED
      BY <1>9, <3>1, <3>2, <3>3, <3>4
  <2>2. RowsOK' /\ \A t \in Turn : alone'[t] => alone[t] /\ ~UnderWay(t)
    BY <1>0, <2>1, CallerDone
  <2>3. \A t \in Turn : CostOK(t)'
    BY <1>0, <2>1, <2>2, CostFrame
  <2> QED
    BY <2>2, <2>3 DEF CostInv
<1>10. CASE HourGoesBy
  <2>1. UNCHANGED <<tenant, turn, caller, paid, alone>> /\ hour' \in 0 .. MaxHour
    BY <1>0, <1>10 DEF HourGoesBy, RowsOK
  <2> QED
    BY <1>0, <2>1 DEF CostInv, RowsOK, CostOK
<1>11. CASE UNCHANGED creditVars
  BY <1>0, <1>11 DEF CostInv, RowsOK, CostOK, creditVars
<1> QED
  BY <1>1, <1>2, <1>4, <1>6, <1>7, <1>8, <1>9, <1>10, <1>11 DEF CreditNext

LEMMA CreditStarts == CreditInit => CostInv
<1> SUFFICES ASSUME CreditInit PROVE CostInv
  OBVIOUS
<1>1. tenant \in Row /\ TrialOK(tenant) /\ hour = 0
  BY CreditNumbers DEF CreditInit, Row, TrialOK
<1>2. Fresh \in TurnRow /\ Fresh.copy = tenant /\ Fresh.pc = "new"
  BY <1>1 DEF Fresh, TurnRow, TurnPC
<1>3. Nothing \in CallRow /\ Nothing.copy = tenant
  BY <1>1 DEF Nothing, CallRow
<1>4. /\ turn \in [Turn -> TurnRow] /\ caller \in [Caller -> CallRow]
      /\ \A t \in Turn : turn[t].copy = tenant /\ turn[t].pc = "new" /\ paid[t] = 0
      /\ \A q \in Caller : caller[q].copy = tenant
  BY <1>2, <1>3 DEF CreditInit
<1> QED
  BY <1>1, <1>4, CreditNumbers DEF CreditInit, CostInv, RowsOK, CostOK, Charging

(* A streamed turn that nobody's write came across has cost what it used.  *)
THEOREM StreamCostsItsUse == CreditSpec => []StreamCharged
<1>1. CostInv => StreamCharged
  BY DEF CostInv, CostOK, StreamCharged, Charging
<1> QED
  BY <1>1, CreditStarts, CostStep, PTL DEF CreditSpec

LogTyped == chatLog \in Seq(MessageRow)

LEMMA LogStep == LogTyped /\ [CreditNext]_creditVars => LogTyped'
<1> SUFFICES ASSUME LogTyped, [CreditNext]_creditVars PROVE chatLog' \in Seq(MessageRow)
  BY DEF LogTyped
<1> USE DEF LogTyped
<1>1. \A t \in Turn, role \in {"user", "assistant"}, empty \in BOOLEAN : Message(t, role, empty) \in MessageRow
  BY DEF Message, MessageRow
<1>2. ASSUME NEW t \in Turn, SaveQuestion(t) PROVE chatLog' \in Seq(MessageRow)
  <2>1. Message(t, "user", FALSE) \in MessageRow /\ Message(t, "assistant", TRUE) \in MessageRow
    BY <1>1
  <2>2. chatLog' = chatLog \o <<Message(t, "user", FALSE), Message(t, "assistant", TRUE)>>
    BY <1>2 DEF SaveQuestion
  <2>3. <<Message(t, "user", FALSE), Message(t, "assistant", TRUE)>> \in Seq(MessageRow)
    <3> DEFINE q == Message(t, "user", FALSE)
               e == Message(t, "assistant", TRUE)
    <3>0. q \in MessageRow /\ e \in MessageRow
      BY <2>1
    <3> HIDE DEF q, e
    <3>1. <<q, e>> \in Seq(MessageRow)
      BY <3>0
    <3> QED
      BY <3>1 DEF q, e
  <2> QED
    BY <2>2, <2>3, ConcatProperties
<1>3. ASSUME NEW t \in Turn, NEW c, Settles(t, c) PROVE chatLog' \in Seq(MessageRow)
  <2>1. Message(t, "assistant", FALSE) \in MessageRow
    BY <1>1
  <2>2. chatLog' = Append(chatLog, Message(t, "assistant", FALSE))
    BY <1>3 DEF Settles
  <2> QED
    BY <2>1, <2>2, AppendProperties
<1>4. CASE UNCHANGED chatLog
  BY <1>4
<1> QED
  BY <1>2, <1>3, <1>4
     DEF CreditNext, LoadTenant, ChargeEstimate, BuildHistory, Generate, GenerationFails, FinishStream,
         FinishWhole, LoadFor, SpendLegacy, ResetPool, AddPack, CallerWrites, Upgrade, HourGoesBy, creditVars

(* Every variable has its type; the balance is never negative.             *)
THEOREM CreditsKeepType == CreditSpec => []CreditTypeOK
<1>1. CreditInit => LogTyped
  BY EmptySeq DEF CreditInit, LogTyped
<1>2. CostInv /\ LogTyped => CreditTypeOK
  BY DEF LogTyped, CostInv, RowsOK, CreditTypeOK, TurnRow, TurnPC, CallRow, MessageRow
<1>3. CreditSpec => []CostInv
  BY CreditStarts, CostStep, PTL DEF CreditSpec
<1> QED
  BY <1>1, <1>2, <1>3, LogStep, PTL DEF CreditSpec

(* The history a turn tells the model, in a chat of at most one page.      *)
ShortChatsRecent ==
    [][\A t \in Turn : Len(chatLog) <= HistoryPage /\ turn[t].pc = "history" /\ turn'[t].pc = "generate"
          => seen'[t] = Told(Newest(chatLog, HistoryKept))]_creditVars

LEMMA HistoryStep ==
    ASSUME DOMAIN seen = Turn, LogTyped, CostInv, [CreditNext]_creditVars,
           NEW t \in Turn, turn[t].pc = "history", turn'[t].pc = "generate"
    PROVE  seen'[t] = HistoryRows(chatLog)
<1>1. turn \in [Turn -> TurnRow]
  BY DEF CostInv, RowsOK
<1>2. ASSUME NEW u \in Turn, u # t, \E row : turn' = [turn EXCEPT ![u] = row] PROVE FALSE
  BY <1>1, <1>2
<1>3. ASSUME NEW u \in Turn,
             \/ LoadTenant(u) \/ ChargeEstimate(u) \/ SaveQuestion(u) \/ Generate(u)
             \/ GenerationFails(u) \/ FinishStream(u) \/ FinishWhole(u)
      PROVE  FALSE
  <2>1. CASE GenerationFails(u)
    <3>1. turn' = [turn EXCEPT ![u].pc = "failed"]
      BY <2>1 DEF GenerationFails
    <3>2. u = t
      BY <1>2, <3>1, Zenon
    <3> QED
      BY <1>1, <3>1, <3>2 DEF TurnRow
  <2>2. CASE ~GenerationFails(u)
    <3>1. turn[u].pc # "history"
      BY <1>3, <2>2 DEF LoadTenant, ChargeEstimate, SaveQuestion, Generate, FinishStream, FinishWhole
    <3>2. \E row : turn' = [turn EXCEPT ![u] = row]
      <4>1. CASE ChargeEstimate(u)
        BY <4>1, Zenon DEF ChargeEstimate
      <4>2. CASE LoadTenant(u) \/ Generate(u)
        BY <4>2, Zenon DEF LoadTenant, Generate
      <4>3. CASE SaveQuestion(u) \/ FinishStream(u) \/ FinishWhole(u)
        BY <4>3, Zenon DEF SaveQuestion, FinishStream, FinishWhole, Settles
      <4> QED
        BY <1>3, <2>2, <4>1, <4>2, <4>3
    <3> QED
      BY <1>2, <3>1, <3>2
  <2> QED
    BY <2>1, <2>2
<1>4. ASSUME NEW u \in Turn, BuildHistory(u) PROVE u = t /\ seen' = [seen EXCEPT ![t] = HistoryRows(chatLog)]
  <2>1. \E row : turn' = [turn EXCEPT ![u] = row]
    BY <1>4, Zenon DEF BuildHistory
  <2> QED
    BY <1>2, <1>4, <2>1 DEF BuildHistory
<1>5. turn' # turn
  OBVIOUS
<1>6. \E u \in Turn : BuildHistory(u)
  BY <1>3, <1>5
     DEF CreditNext, LoadFor, SpendLegacy, ResetPool, AddPack, CallerWrites, Upgrade, HourGoesBy, creditVars
<1> QED
  BY <1>4, <1>6

(* Up to a page, the history is the most recent of the session, as the     *)
(* docstring of _build_history_messages has it; beyond it, it is not, and  *)
(* HistoryRecent fails.                                                    *)
THEOREM HistoryOfShortChats == CreditSpec => ShortChatsRecent
<1>1. CreditInit => DOMAIN seen = Turn /\ LogTyped /\ CostInv
  BY EmptySeq, CreditStarts DEF CreditInit, LogTyped
<1>2. DOMAIN seen = Turn /\ [CreditNext]_creditVars => (DOMAIN seen = Turn)'
  <2>1. [CreditNext]_creditVars => UNCHANGED seen \/ \E t, h : seen' = [seen EXCEPT ![t] = h]
    BY DEF CreditNext, LoadTenant, ChargeEstimate, SaveQuestion, BuildHistory, Generate, GenerationFails,
           FinishStream, FinishWhole, Settles, LoadFor, SpendLegacy, ResetPool, AddPack, CallerWrites, Upgrade,
           HourGoesBy, creditVars
  <2> QED
    BY <2>1
<1>3. ASSUME LogTyped, Len(chatLog) <= HistoryPage PROVE HistoryRows(chatLog) = Told(Newest(chatLog, HistoryKept))
  <2>1. /\ chatLog \in Seq(MessageRow) /\ Len(chatLog) \in Nat /\ HistoryPage \in Nat
    BY <1>3, CreditAssumption DEF LogTyped, CreditAssumption
  <2>2. SubSeq(chatLog, 1, Len(chatLog)) = chatLog
    BY <2>1
  <2>3. (IF Len(chatLog) > HistoryPage THEN HistoryPage ELSE Len(chatLog)) = Len(chatLog)
    BY <1>3, <2>1
  <2> QED
    BY <2>2, <2>3, Zenon DEF HistoryRows
<1>4. DOMAIN seen = Turn /\ LogTyped /\ CostInv /\ [CreditNext]_creditVars =>
        [\A t \in Turn : Len(chatLog) <= HistoryPage /\ turn[t].pc = "history" /\ turn'[t].pc = "generate"
          => seen'[t] = Told(Newest(chatLog, HistoryKept))]_creditVars
  BY <1>3, HistoryStep
<1> QED
  BY <1>1, <1>2, <1>4, LogStep, CostStep, PTL DEF CreditSpec, ShortChatsRecent

-----------------------------------------------------------------------------
(* The ledger of a referrer (ReferralLedger), for every finite set of      *)
(* commissions and payouts and any amounts.                                *)

(* Rows, and who they belong to.                                           *)
ComRow == [status : {"none", "pending", "paid", "cancelled"}, who : Referrer \cup {"none"}, amount : Nat]
PayRow == [status : {"none", "pending", "completed"}, who : Referrer \cup {"none"}, amount : Nat]

LedgerTyped ==
    /\ com \in [Commissioned -> ComRow] /\ payout \in [Payout -> PayRow]
    /\ \A c \in Commissioned : com[c].status # "none" => com[c].who \in Referrer
    /\ \A p \in Payout : payout[p].status # "none" => payout[p].who \in Referrer
    /\ minPayout \in MinPayouts /\ approving \in [Admin -> Payout \cup {NoPayout}]
    /\ \A a \in Admin : approving[a] # NoPayout => payout[approving[a]].status # "none"
    /\ loose \subseteq Referrer

(* The sums of the ledger are totals over finite sets, and numbers.        *)
LEMMA RowsFinite ==
    \A r : /\ IsFiniteSet(ComOf(r, "pending")) /\ IsFiniteSet(ComOf(r, "paid"))
           /\ IsFiniteSet(PaysOf(r, "pending")) /\ IsFiniteSet(PaysOf(r, "completed"))
<1> SUFFICES ASSUME NEW r, NEW st PROVE IsFiniteSet(ComOf(r, st)) /\ IsFiniteSet(PaysOf(r, st))
  OBVIOUS
<1>1. ComOf(r, st) \in SUBSET Commissioned /\ PaysOf(r, st) \in SUBSET Payout
  BY DEF ComOf, PaysOf
<1> QED
  BY <1>1, LedgerAssumption, FS_Subset DEF LedgerAssumption

SumsAreTotals ==
    \A r : /\ Owed(r) = Total(com, ComOf(r, "pending"))
           /\ Earned(r) = Total(com, ComOf(r, "paid"))
           /\ PaidOut(r) = Total(payout, PaysOf(r, "completed"))

LEMMA OwedIsTotal == SumsAreTotals
BY DEF SumsAreTotals, Owed, Earned, PaidOut, Total

LEMMA OwedLater ==
    \A r : /\ Owed(r)' = Total(com', ComOf(r, "pending")')
           /\ Earned(r)' = Total(com', ComOf(r, "paid")')
           /\ PaidOut(r)' = Total(payout', PaysOf(r, "completed")')
<1>1. SumsAreTotals'
  BY OwedIsTotal, PTL
<1> QED
  BY <1>1 DEF SumsAreTotals

LEMMA OwedTyped == LedgerTyped => \A r : Owed(r) \in Nat /\ Earned(r) \in Nat /\ PaidOut(r) \in Nat
<1> SUFFICES ASSUME LedgerTyped, NEW r PROVE Owed(r) \in Nat /\ Earned(r) \in Nat /\ PaidOut(r) \in Nat
  OBVIOUS
<1>1. \A c \in ComOf(r, "pending") : com[c].amount \in Nat
  BY DEF ComOf, LedgerTyped, ComRow
<1>2. \A c \in ComOf(r, "paid") : com[c].amount \in Nat
  BY DEF ComOf, LedgerTyped, ComRow
<1>3. \A p \in PaysOf(r, "completed") : payout[p].amount \in Nat
  BY DEF PaysOf, LedgerTyped, PayRow
<1> QED
  BY <1>1, <1>2, <1>3, RowsFinite, OwedIsTotal, TotalNat DEF SumsAreTotals

LEMMA LedgerStep == LedgerTyped /\ [LedgerNext]_ledgerVars => LedgerTyped'
<1> SUFFICES ASSUME LedgerTyped, [LedgerNext]_ledgerVars PROVE LedgerTyped'
  OBVIOUS
<1>1. ASSUME NEW c \in Commissioned, NEW r \in Referrer, CreateCommission(c, r) PROVE LedgerTyped'
  <2>1. PICK n \in Amounts : com' = [com EXCEPT ![c] = [status |-> "pending", who |-> r, amount |-> n]]
    BY <1>1 DEF CreateCommission
  <2>2. n \in Nat
    BY LedgerAssumption DEF LedgerAssumption
  <2>3. [status |-> "pending", who |-> r, amount |-> n] \in ComRow
    BY <2>2 DEF ComRow
  <2>4. com' \in [Commissioned -> ComRow] /\ \A d \in Commissioned : com'[d].status # "none" => com'[d].who \in Referrer
    BY <2>1, <2>3 DEF LedgerTyped
  <2> QED
    BY <1>1, <2>4 DEF CreateCommission, LedgerTyped, Touch
<1>2. ASSUME NEW c \in Commissioned, CancelCommission(c) PROVE LedgerTyped'
  <2>1. [com[c] EXCEPT !.status = "cancelled"] \in ComRow /\ com[c].who \in Referrer
    BY <1>2 DEF CancelCommission, LedgerTyped, ComRow
  <2>2. com' \in [Commissioned -> ComRow] /\ \A d \in Commissioned : com'[d].status # "none" => com'[d].who \in Referrer
    BY <1>2, <2>1 DEF CancelCommission, LedgerTyped
  <2> QED
    BY <1>2, <2>1, <2>2 DEF CancelCommission, LedgerTyped, Touch
<1>3. ASSUME NEW c \in Commissioned, MarkPaid(c) PROVE LedgerTyped'
  <2>1. [com[c] EXCEPT !.status = "paid"] \in ComRow /\ com[c].who \in Referrer
    BY <1>3 DEF MarkPaid, LedgerTyped, ComRow
  <2>2. com' \in [Commissioned -> ComRow] /\ \A d \in Commissioned : com'[d].status # "none" => com'[d].who \in Referrer
    BY <1>3, <2>1 DEF MarkPaid, LedgerTyped
  <2> QED
    BY <1>3, <2>1, <2>2 DEF MarkPaid, LedgerTyped, Touch
<1>4. CASE ProcessPayouts
  <2>1. PICK new \in [Payable -> {p \in Payout : payout[p] = NoRow}] :
          payout' = [p \in Payout |->
                 IF \E r \in Payable : new[r] = p
                 THEN LET r == CHOOSE r \in Payable : new[r] = p
                      IN  [status |-> "pending", who |-> r, amount |-> Owed(r)]
                 ELSE payout[p]]
    BY <1>4 DEF ProcessPayouts
  <2>2. ASSUME NEW p \in Payout PROVE payout'[p] \in PayRow /\ (payout'[p].status # "none" => payout'[p].who \in Referrer)
                                      /\ (payout[p].status # "none" => payout'[p].status # "none")
    <3>1. CASE \E r \in Payable : new[r] = p
      <4> DEFINE r == CHOOSE r \in Payable : new[r] = p
      <4>1. payout'[p] = [status |-> "pending", who |-> r, amount |-> Owed(r)]
        BY <2>1, <3>1
      <4>2. r \in Payable /\ r \in Referrer
        BY <3>1 DEF Payable
      <4> HIDE DEF r
      <4> QED
        BY <4>1, <4>2, OwedTyped DEF PayRow
    <3>2. CASE ~ \E r \in Payable : new[r] = p
      BY <2>1, <3>2 DEF LedgerTyped
    <3> QED
      BY <3>1, <3>2
  <2>3. payout' \in [Payout -> PayRow]
    <3>1. payout' = [p \in Payout |-> payout'[p]]
      BY <2>1
    <3> QED
      BY <2>2, <3>1
  <2>4. loose' \subseteq Referrer
    BY <1>4 DEF ProcessPayouts, LedgerTyped, Payable
  <2> QED
    BY <1>4, <2>2, <2>3, <2>4 DEF ProcessPayouts, LedgerTyped
<1>5. ASSUME NEW a \in Admin, NEW p \in Payout, ApproveRead(a, p) PROVE LedgerTyped'
  BY <1>5 DEF ApproveRead, LedgerTyped
<1>6. ASSUME NEW a \in Admin, ApproveWrite(a) PROVE LedgerTyped'
  <2> DEFINE p == approving[a]
  <2>1. p \in Payout /\ payout[p] \in PayRow /\ payout[p].who \in Referrer
    BY <1>6 DEF ApproveWrite, LedgerTyped
  <2>2. [payout[p] EXCEPT !.status = "completed"] \in PayRow
    BY <2>1 DEF PayRow
  <2>3. payout' = [payout EXCEPT ![p] = [payout[p] EXCEPT !.status = "completed"]]
    BY <1>6 DEF ApproveWrite
  <2>4. payout' \in [Payout -> PayRow] /\ (\A q \in Payout : payout'[q].status # "none" => payout'[q].who \in Referrer)
        /\ \A q \in Payout : payout[q].status # "none" => payout'[q].status # "none"
    <3> HIDE DEF p
    <3> QED
      BY <2>1, <2>2, <2>3 DEF LedgerTyped
  <2>5. \A c \in Commissioned : com'[c] = com[c] \/ com'[c] = [com[c] EXCEPT !.status = "paid"]
    BY <1>6 DEF ApproveWrite
  <2>6. \A c \in Commissioned : com'[c] \in ComRow /\ (com'[c].status # "none" => com'[c].who \in Referrer)
    <3> TAKE c \in Commissioned
    <3>1. com'[c] = com[c] \/ c \in Covered(payout[p].who)
      BY <1>6 DEF ApproveWrite
    <3>2. c \in Covered(payout[p].who) => com[c].who \in Referrer
      BY DEF Covered, ComOf, LedgerTyped
    <3>3. com[c] \in ComRow /\ [com[c] EXCEPT !.status = "paid"] \in ComRow
      BY DEF LedgerTyped, ComRow
    <3>4. [com[c] EXCEPT !.status = "paid"].who = com[c].who
      BY <3>3 DEF ComRow
    <3> QED
      BY <2>5, <3>1, <3>2, <3>3, <3>4 DEF LedgerTyped
  <2>7. com' \in [Commissioned -> ComRow]
    <3>1. com' = [c \in Commissioned |-> com'[c]]
      BY <1>6 DEF ApproveWrite
    <3> QED
      BY <2>6, <3>1
  <2>8. approving' \in [Admin -> Payout \cup {NoPayout}]
        /\ \A b \in Admin : approving'[b] # NoPayout => approving'[b] = approving[b]
    BY <1>6 DEF ApproveWrite, LedgerTyped
  <2> QED
    BY <1>6, <2>4, <2>6, <2>7, <2>8 DEF ApproveWrite, LedgerTyped
<1>7. ASSUME NEW n \in MinPayouts, SetMinPayout(n) PROVE LedgerTyped'
  BY <1>7 DEF SetMinPayout, LedgerTyped
<1>8. CASE UNCHANGED ledgerVars
  BY <1>8 DEF ledgerVars, LedgerTyped
<1> QED
  BY <1>1, <1>2, <1>3, <1>4, <1>5, <1>6, <1>7, <1>8 DEF LedgerNext

-----------------------------------------------------------------------------
(* A referrer that nobody disturbed: what waits is one payout, of what is  *)
(* owed; what is being approved a second time has nothing left to cover.   *)
Balanced(r) ==
    /\ PaidOut(r) = Earned(r)
    /\ \A p \in PaysOf(r, "pending") : payout[p].amount = Owed(r)
    /\ \A p, q \in PaysOf(r, "pending") : p = q
    /\ \A a \in Admin : approving[a] \in PaysOf(r, "completed") => ComOf(r, "pending") = {}

LedgerInv == \A r \in Referrer : r \notin loose => Balanced(r)

(* What a step leaves of a referrer's rows leaves its sums. *)
LEMMA ComStays ==
    ASSUME NEW r, NEW st \in {"pending", "paid"},
           ComOf(r, st)' = ComOf(r, st), \A c \in ComOf(r, st) : com'[c].amount = com[c].amount
    PROVE  Total(com, ComOf(r, st))' = Total(com, ComOf(r, st))
<1>1. IsFiniteSet(ComOf(r, st))
  BY RowsFinite
<1>2. Total(com', ComOf(r, st)) = Total(com, ComOf(r, st))
  BY <1>1, TotalSame
<1>3. Total(com, ComOf(r, st))' = Total(com', ComOf(r, st)')
  OBVIOUS
<1> QED
  BY <1>2, <1>3

LEMMA PaysStay ==
    ASSUME NEW r, PaysOf(r, "completed")' = PaysOf(r, "completed"),
           \A p \in PaysOf(r, "completed") : payout'[p].amount = payout[p].amount
    PROVE  PaidOut(r)' = PaidOut(r)
<1>1. IsFiniteSet(PaysOf(r, "completed"))
  BY RowsFinite
<1>2. Total(payout', PaysOf(r, "completed")) = Total(payout, PaysOf(r, "completed"))
  BY <1>1, TotalSame
<1>3. PaidOut(r)' = Total(payout', PaysOf(r, "completed")')
  BY OwedLater
<1> QED
  BY <1>2, <1>3, OwedIsTotal DEF SumsAreTotals

(* A step that touches neither the payouts of a referrer nor what it has   *)
(* been paid, and what it is owed only if nothing waits.                   *)
LEMMA LedgerFrame ==
    ASSUME NEW r, Balanced(r),
           PaysOf(r, "pending")' = PaysOf(r, "pending"), PaysOf(r, "completed")' = PaysOf(r, "completed"),
           \A p \in PaysOf(r, "pending") \cup PaysOf(r, "completed") : payout'[p].amount = payout[p].amount,
           ComOf(r, "paid")' = ComOf(r, "paid"),
           \A c \in ComOf(r, "paid") : com'[c].amount = com[c].amount,
           \A a \in Admin : approving'[a] \in PaysOf(r, "completed")
              => \E b \in Admin : approving[b] = approving'[a],
           ~Settling(r) \/ ( /\ ComOf(r, "pending")' = ComOf(r, "pending")
                             /\ \A c \in ComOf(r, "pending") : com'[c].amount = com[c].amount )
    PROVE  Balanced(r)'
<1>1. PaidOut(r)' = PaidOut(r)
  BY PaysStay
<1>2. Earned(r)' = Earned(r)
  <2>1. Total(com, ComOf(r, "paid"))' = Total(com, ComOf(r, "paid"))
    BY ComStays
  <2>2. Earned(r)' = Total(com, ComOf(r, "paid"))'
    BY OwedLater
  <2> QED
    BY <2>1, <2>2, OwedIsTotal DEF SumsAreTotals
<1>3. CASE ~Settling(r)
  <2>1. PaysOf(r, "pending") = {}
    BY <1>3 DEF Settling
  <2>2. \A a \in Admin : approving[a] \notin PaysOf(r, "completed")
    <3> TAKE a \in Admin
    <3>1. approving[a] \in PaysOf(r, "completed") => approving[a] # NoPayout /\ payout[approving[a]].who = r
      BY LedgerAssumption DEF PaysOf, LedgerAssumption
    <3> QED
      BY <1>3, <3>1 DEF Settling
  <2> QED
    BY <1>1, <1>2, <2>1, <2>2 DEF Balanced
<1>4. CASE /\ ComOf(r, "pending")' = ComOf(r, "pending")
           /\ \A c \in ComOf(r, "pending") : com'[c].amount = com[c].amount
  <2>1. Owed(r)' = Owed(r)
    <3>1. Total(com, ComOf(r, "pending"))' = Total(com, ComOf(r, "pending"))
      BY <1>4, ComStays
    <3>2. Owed(r)' = Total(com, ComOf(r, "pending"))'
      BY OwedLater
    <3> QED
      BY <3>1, <3>2, OwedIsTotal DEF SumsAreTotals
  <2> QED
    BY <1>1, <1>2, <1>4, <2>1 DEF Balanced
<1> QED
  BY <1>3, <1>4

LEMMA BalanceStep == LedgerInv /\ LedgerTyped /\ [LedgerNext]_ledgerVars => LedgerInv'
<1> SUFFICES ASSUME LedgerInv, LedgerTyped, [LedgerNext]_ledgerVars, NEW r \in Referrer, r \notin loose'
             PROVE  Balanced(r)'
  BY DEF LedgerInv
<1>1. loose \subseteq loose'
  BY DEF LedgerNext, ledgerVars, CreateCommission, CancelCommission, MarkPaid, Touch, ProcessPayouts,
         ApproveRead, ApproveWrite, SetMinPayout
<1>2. Balanced(r)
  BY <1>1 DEF LedgerInv
<1>3. ASSUME NEW c \in Commissioned, NEW q \in Referrer, CreateCommission(c, q) PROVE Balanced(r)'
  <2>1. PICK n \in Amounts : com' = [com EXCEPT ![c] = [status |-> "pending", who |-> q, amount |-> n]]
    BY <1>3 DEF CreateCommission
  <2>2. \A d \in Commissioned \ {c} : com'[d] = com[d]
    BY <2>1 DEF LedgerTyped
  <2>3. com[c].status = "none" /\ com'[c].status = "pending" /\ com'[c].who = q
    BY <1>3, <2>1 DEF CreateCommission, NoRow, LedgerTyped
  <2>4. ComOf(r, "paid")' = ComOf(r, "paid") /\ \A d \in ComOf(r, "paid") : com'[d].amount = com[d].amount
    BY <2>2, <2>3 DEF ComOf
  <2>5. q # r => /\ ComOf(r, "pending")' = ComOf(r, "pending")
                 /\ \A d \in ComOf(r, "pending") : com'[d].amount = com[d].amount
    BY <2>2, <2>3 DEF ComOf
  <2>6. q = r => ~Settling(r)
    BY <1>3 DEF CreateCommission, Touch
  <2> QED
    BY <1>2, <1>3, <2>4, <2>5, <2>6, LedgerFrame DEF CreateCommission, PaysOf
<1>4. ASSUME NEW c \in Commissioned, CancelCommission(c) PROVE Balanced(r)'
  <2>1. com' = [com EXCEPT ![c] = [com[c] EXCEPT !.status = "cancelled"]]
    BY <1>4 DEF CancelCommission
  <2>2. com[c] \in ComRow
    BY DEF LedgerTyped
  <2>3. \A d \in Commissioned \ {c} : com'[d] = com[d]
    BY <2>1 DEF LedgerTyped
  <2>4. com'[c].status = "cancelled" /\ com'[c].who = com[c].who
    BY <2>1, <2>2 DEF LedgerTyped, ComRow
  <2>5. com[c].who = r => com[c].status # "paid" /\ ~Settling(r)
    BY <1>4 DEF CancelCommission, Touch
  <2>6. ComOf(r, "paid")' = ComOf(r, "paid") /\ \A d \in ComOf(r, "paid") : com'[d].amount = com[d].amount
    BY <2>3, <2>4, <2>5 DEF ComOf
  <2>7. com[c].who # r => /\ ComOf(r, "pending")' = ComOf(r, "pending")
                          /\ \A d \in ComOf(r, "pending") : com'[d].amount = com[d].amount
    BY <2>3, <2>4 DEF ComOf
  <2> QED
    BY <1>2, <1>4, <2>5, <2>6, <2>7, LedgerFrame DEF CancelCommission, PaysOf
<1>5. ASSUME NEW c \in Commissioned, MarkPaid(c) PROVE Balanced(r)'
  <2>1. com' = [com EXCEPT ![c] = [com[c] EXCEPT !.status = "paid"]]
    BY <1>5 DEF MarkPaid
  <2>2. com[c] \in ComRow
    BY DEF LedgerTyped
  <2>3. \A d \in Commissioned \ {c} : com'[d] = com[d]
    BY <2>1 DEF LedgerTyped
  <2>4. com'[c].who = com[c].who /\ com[c].who # r
    BY <1>5, <2>1, <2>2 DEF LedgerTyped, ComRow, MarkPaid, Touch
  <2>5. \A st \in {"pending", "paid"} :
           ComOf(r, st)' = ComOf(r, st) /\ \A d \in ComOf(r, st) : com'[d].amount = com[d].amount
    BY <2>3, <2>4 DEF ComOf
  <2> QED
    BY <1>2, <1>5, <2>5, LedgerFrame DEF MarkPaid, PaysOf
<1>6. CASE ProcessPayouts
  <2>1. PICK new \in [Payable -> {p \in Payout : payout[p] = NoRow}] :
          /\ \A x, y \in Payable : x # y => new[x] # new[y]
          /\ payout' = [p \in Payout |->
                 IF \E x \in Payable : new[x] = p
                 THEN LET x == CHOOSE x \in Payable : new[x] = p
                      IN  [status |-> "pending", who |-> x, amount |-> Owed(x)]
                 ELSE payout[p]]
    BY <1>6 DEF ProcessPayouts
  <2>2. ASSUME NEW x \in Payable
        PROVE  /\ new[x] \in Payout /\ payout[new[x]].status = "none"
               /\ payout'[new[x]] = [status |-> "pending", who |-> x, amount |-> Owed(x)]
    <3>1. (CHOOSE y \in Payable : new[y] = new[x]) = x
      BY <2>1
    <3> QED
      BY <2>1, <3>1 DEF NoRow
  <2>3. \A p \in Payout : (\A x \in Payable : new[x] # p) => payout'[p] = payout[p]
    BY <2>1
  <2> DEFINE Opened(p, x) == /\ p = new[x] /\ payout[p].status = "none"
                             /\ payout'[p].status = "pending" /\ payout'[p].who = x /\ payout'[p].amount = Owed(x)
  <2>4. ASSUME NEW x \in Payable PROVE Opened(new[x], x)
    <3>1. payout'[new[x]] = [status |-> "pending", who |-> x, amount |-> Owed(x)]
      BY <2>2
    <3> DEFINE row == [status |-> "pending", who |-> x, amount |-> Owed(x)]
    <3>2. row.status = "pending" /\ row.who = x /\ row.amount = Owed(x)
      OBVIOUS
    <3> HIDE DEF row
    <3>3. payout'[new[x]] = row
      BY <3>1 DEF row
    <3> QED
      BY <2>2, <3>2, <3>3
  <2>5. \A p \in Payout : payout'[p] = payout[p] \/ \E x \in Payable : Opened(p, x)
    BY <2>3, <2>4
  <2>6. PaysOf(r, "completed")' = PaysOf(r, "completed")
        /\ \A p \in PaysOf(r, "completed") : payout'[p].amount = payout[p].amount
    BY <2>5 DEF PaysOf
  <2>7. com' = com /\ approving' = approving
    BY <1>6 DEF ProcessPayouts
  <2>8. \A st \in {"pending", "paid"} :
           ComOf(r, st)' = ComOf(r, st) /\ \A d \in ComOf(r, st) : com'[d].amount = com[d].amount
    BY <2>7 DEF ComOf
  <2>9. CASE r \notin Payable
    <3>1. PaysOf(r, "pending")' = PaysOf(r, "pending")
          /\ \A p \in PaysOf(r, "pending") : payout'[p].amount = payout[p].amount
      BY <2>9, <2>5 DEF PaysOf
    <3> QED
      BY <1>2, <2>6, <2>7, <2>8, <3>1, LedgerFrame
  <2>10. CASE r \in Payable
    <3>1. ~Settling(r)
      BY <1>6, <2>10 DEF ProcessPayouts
    <3>2. PaysOf(r, "pending") = {}
      BY <3>1 DEF Settling
    <3>3. PaysOf(r, "pending")' = {new[r]} /\ payout'[new[r]].amount = Owed(r)
      <4>1. Opened(new[r], r) /\ new[r] \in Payout
        BY <2>2, <2>10, <2>4
      <4>2. \A q \in Payout : q \in PaysOf(r, "pending")' => q = new[r]
        BY <2>5, <3>2 DEF PaysOf
      <4>3. PaysOf(r, "pending")' \subseteq Payout /\ new[r] \in PaysOf(r, "pending")'
        BY <4>1 DEF PaysOf
      <4> QED
        BY <4>1, <4>2, <4>3
    <3>4. PaidOut(r)' = PaidOut(r)
      BY <2>6, PaysStay
    <3>5. Owed(r)' = Owed(r) /\ Earned(r)' = Earned(r)
      BY <2>8, ComStays, OwedIsTotal, OwedLater DEF SumsAreTotals
    <3> QED
      BY <1>2, <2>6, <2>7, <2>8, <3>3, <3>4, <3>5 DEF Balanced
  <2> QED
    BY <2>9, <2>10
<1>7. ASSUME NEW a \in Admin, NEW p \in Payout, ApproveRead(a, p) PROVE Balanced(r)'
  <2>1. com' = com /\ payout' = payout
    BY <1>7 DEF ApproveRead
  <2>2. \A b \in Admin : approving'[b] = approving[b] \/ (approving'[b] = p /\ payout[p].status = "pending")
    BY <1>7 DEF ApproveRead, LedgerTyped
  <2>3. \A b \in Admin : approving'[b] \in PaysOf(r, "completed") => \E d \in Admin : approving[d] = approving'[b]
    BY <2>2 DEF PaysOf
  <2> QED
    BY <1>2, <2>1, <2>3, LedgerFrame DEF PaysOf, ComOf
<1>8. ASSUME NEW a \in Admin, ApproveWrite(a) PROVE Balanced(r)'
  <2> DEFINE p == approving[a]
             s == payout[p].who
  <2>1. p \in Payout /\ payout[p] \in PayRow /\ payout[p].status # "none"
    BY <1>8 DEF ApproveWrite, LedgerTyped
  <2>2. payout' = [payout EXCEPT ![p] = [payout[p] EXCEPT !.status = "completed"]]
    BY <1>8 DEF ApproveWrite
  <2>3. com' = [c \in Commissioned |-> IF c \in ComOf(s, "pending") THEN [com[c] EXCEPT !.status = "paid"] ELSE com[c]]
    BY <1>8 DEF ApproveWrite, Covered
  <2>4. approving' = [approving EXCEPT ![a] = NoPayout]
    BY <1>8 DEF ApproveWrite
  <2> HIDE DEF p
  <2>5. /\ \A q \in Payout \ {p} : payout'[q] = payout[q]
        /\ payout'[p].status = "completed" /\ payout'[p].who = s /\ payout'[p].amount = payout[p].amount
    BY <2>1, <2>2 DEF LedgerTyped, PayRow
  <2> HIDE DEF s
  <2>6. /\ \A c \in ComOf(s, "pending") : /\ com'[c].status = "paid" /\ com'[c].who = s
                                          /\ com'[c].amount = com[c].amount
        /\ \A c \in Commissioned : c \notin ComOf(s, "pending") => com'[c] = com[c]
    <3>1. \A c \in Commissioned : com[c] \in ComRow
      BY DEF LedgerTyped
    <3> QED
      BY <2>3, <3>1 DEF ComOf, ComRow
  <2>7. \A b \in Admin : approving'[b] = approving[b] \/ approving'[b] = NoPayout
    BY <2>4 DEF LedgerTyped
  <2>8. \A b \in Admin : approving'[b] \in Payout => approving'[b] = approving[b]
    BY <2>7, LedgerAssumption DEF LedgerAssumption
  <2>9. CASE s # r
    <3>1. \A st \in {"pending", "paid"} :
             ComOf(r, st)' = ComOf(r, st) /\ \A d \in ComOf(r, st) : com'[d].amount = com[d].amount
      BY <2>6, <2>9 DEF ComOf
    <3>2. \A st \in {"pending", "completed"} :
             PaysOf(r, st)' = PaysOf(r, st) /\ \A q \in PaysOf(r, st) : payout'[q].amount = payout[q].amount
      BY <2>5, <2>9, <2>1 DEF PaysOf, s
    <3>3. \A b \in Admin : approving'[b] \in PaysOf(r, "completed") => \E d \in Admin : approving[d] = approving'[b]
      BY <2>8 DEF PaysOf
    <3> QED
      BY <1>2, <3>1, <3>2, <3>3, LedgerFrame
  <2>10. CASE s = r /\ payout[p].status = "completed"
    <3>1. p \in PaysOf(r, "completed")
      BY <2>1, <2>10 DEF PaysOf, s
    <3>2. ComOf(r, "pending") = {}
      BY <1>2, <3>1 DEF Balanced, p
    <3>3. com' = com
      BY <2>3, <2>10, <3>2 DEF LedgerTyped
    <3>4. \A st \in {"pending", "completed"} :
             PaysOf(r, st)' = PaysOf(r, st) /\ \A q \in PaysOf(r, st) : payout'[q].amount = payout[q].amount
      BY <2>5, <2>10, <2>1 DEF PaysOf, s
    <3>5. \A b \in Admin : approving'[b] \in PaysOf(r, "completed") => \E d \in Admin : approving[d] = approving'[b]
      BY <2>8 DEF PaysOf
    <3> QED
      BY <1>2, <3>3, <3>4, <3>5, LedgerFrame DEF ComOf
  <2>11. CASE s = r /\ payout[p].status = "pending"
    <3>1. p \in PaysOf(r, "pending") /\ p \notin PaysOf(r, "completed")
      BY <2>1, <2>11 DEF PaysOf, s
    <3>2. PaysOf(r, "pending") = {p} /\ payout[p].amount = Owed(r)
      BY <1>2, <3>1 DEF Balanced
    <3>3. PaysOf(r, "pending")' = {} /\ PaysOf(r, "completed")' = PaysOf(r, "completed") \cup {p}
          /\ \A q \in PaysOf(r, "completed") \cup {p} : payout'[q].amount = payout[q].amount
      BY <2>1, <2>5, <2>11, <3>2 DEF PaysOf, s
    <3>4. ComOf(r, "pending")' = {} /\ ComOf(r, "paid")' = ComOf(r, "paid") \cup ComOf(r, "pending")
          /\ \A c \in ComOf(r, "paid") \cup ComOf(r, "pending") : com'[c].amount = com[c].amount
      BY <2>6, <2>11 DEF ComOf
    <3>5. PaidOut(r)' = PaidOut(r) + Owed(r)
      <4>1. IsFiniteSet(PaysOf(r, "completed")) /\ IsFiniteSet(PaysOf(r, "completed") \cup {p})
        BY RowsFinite, FS_AddElement
      <4>2. \A q \in PaysOf(r, "completed") \cup {p} : payout[q].amount \in Nat
        BY <2>1 DEF PaysOf, LedgerTyped, PayRow
      <4>3. Total(payout', PaysOf(r, "completed") \cup {p}) = Total(payout, PaysOf(r, "completed") \cup {p})
        BY <3>3, <4>1, TotalSame
      <4>4. Total(payout, PaysOf(r, "completed") \cup {p}) = Total(payout, PaysOf(r, "completed")) + payout[p].amount
        BY <3>1, <4>1, <4>2, TotalAdd
      <4>5. PaidOut(r)' = Total(payout', PaysOf(r, "completed") \cup {p})
        BY <3>3, OwedLater
      <4> QED
        BY <3>2, <4>3, <4>4, <4>5, OwedIsTotal DEF SumsAreTotals
    <3>6. Earned(r)' = Earned(r) + Owed(r)
      <4>1. IsFiniteSet(ComOf(r, "paid")) /\ IsFiniteSet(ComOf(r, "pending"))
            /\ IsFiniteSet(ComOf(r, "paid") \cup ComOf(r, "pending"))
        BY RowsFinite, FS_Union
      <4>2. \A c \in ComOf(r, "paid") \cup ComOf(r, "pending") : com[c].amount \in Nat
        BY DEF ComOf, LedgerTyped, ComRow
      <4>3. ComOf(r, "paid") \cap ComOf(r, "pending") = {}
        BY DEF ComOf
      <4>4. Total(com', ComOf(r, "paid") \cup ComOf(r, "pending")) = Total(com, ComOf(r, "paid") \cup ComOf(r, "pending"))
        BY <3>4, <4>1, TotalSame
      <4>5. Total(com, ComOf(r, "paid") \cup ComOf(r, "pending"))
               = Total(com, ComOf(r, "paid")) + Total(com, ComOf(r, "pending"))
        BY <4>1, <4>2, <4>3, TotalUnion
      <4>6. Earned(r)' = Total(com', ComOf(r, "paid") \cup ComOf(r, "pending"))
        BY <3>4, OwedLater
      <4> QED
        BY <4>4, <4>5, <4>6, OwedIsTotal DEF SumsAreTotals
    <3> QED
      BY <1>2, <3>3, <3>4, <3>5, <3>6 DEF Balanced
  <2> QED
    BY <2>1, <2>9, <2>10, <2>11 DEF PayRow
<1>9. ASSUME NEW n \in MinPayouts, SetMinPayout(n) PROVE Balanced(r)'
  <2>1. com' = com /\ payout' = payout /\ approving' = approving
    BY <1>9 DEF SetMinPayout
  <2> QED
    BY <1>2, <2>1, LedgerFrame DEF PaysOf, ComOf
<1>10. CASE UNCHANGED ledgerVars
  <2>1. com' = com /\ payout' = payout /\ approving' = approving
    BY <1>10 DEF ledgerVars
  <2> QED
    BY <1>2, <2>1, LedgerFrame DEF PaysOf, ComOf
<1> QED
  BY <1>3, <1>4, <1>5, <1>6, <1>7, <1>8, <1>9, <1>10 DEF LedgerNext

LEMMA LedgerStarts == LedgerInit => LedgerTyped /\ LedgerInv
<1> SUFFICES ASSUME LedgerInit PROVE LedgerTyped /\ LedgerInv
  OBVIOUS
<1>1. LedgerTyped
  <2>1. NoRow \in ComRow /\ NoRow \in PayRow
    BY DEF NoRow, ComRow, PayRow
  <2> QED
    BY <2>1 DEF LedgerInit, LedgerTyped, NoRow
<1>2. \A r : ComOf(r, "pending") = {} /\ ComOf(r, "paid") = {} /\ PaysOf(r, "pending") = {}
            /\ PaysOf(r, "completed") = {}
  BY DEF LedgerInit, NoRow, ComOf, PaysOf
<1>3. \A r : PaidOut(r) = 0 /\ Earned(r) = 0
  BY <1>2, OwedIsTotal, TotalEmpty DEF SumsAreTotals
<1> QED
  BY <1>1, <1>2, <1>3 DEF LedgerInv, Balanced

LEMMA LedgerHolds == LedgerSpec => [](LedgerTyped /\ LedgerInv)
<1>1. LedgerInit => LedgerTyped /\ LedgerInv
  BY LedgerStarts
<1>2. (LedgerTyped /\ LedgerInv) /\ [LedgerNext]_ledgerVars => (LedgerTyped /\ LedgerInv)'
  BY LedgerStep, BalanceStep
<1> QED
  BY <1>1, <1>2, PTL DEF LedgerSpec

(* Every variable of the ledger keeps its type: whoever approves, cancels, *)
(* marks or pays, an amount is a number and has a referrer, and nobody     *)
(* approves a payout that does not exist.                                  *)
THEOREM LedgerKeepsType == LedgerSpec => []LedgerTypeOK
<1>1. LedgerTyped => LedgerTypeOK
  BY DEF LedgerTyped, LedgerTypeOK, ComRow, PayRow
<1> QED
  BY <1>1, LedgerHolds, PTL

(* What a referrer was paid is what the commissions marked paid were       *)
(* worth, as long as nobody touched its ledger between making a payout     *)
(* (process_payouts) and approving it (approve_payout).  The invariant     *)
(* adds what makes an approval balance: a waiting payout is of the whole   *)
(* of what is owed, there is one of them, and an approval that comes       *)
(* second finds nothing left to mark.  The sums are over any finite sets   *)
(* of commissions and payouts.                                             *)
THEOREM LedgerBalances == LedgerSpec => []LedgerBalanced
<1>1. LedgerInv => LedgerBalanced
  BY DEF LedgerInv, Balanced, LedgerBalanced
<1> QED
  BY <1>1, LedgerHolds, PTL
=============================================================================
