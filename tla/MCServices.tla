------------------------------ MODULE MCServices ------------------------------
(***************************************************************************)
(* Small instances of the modules about a delivery, wallets, commissions,  *)
(* credits, login sessions, sign-ups and the connection and sign-in of an  *)
(* account, in one state space.  They share no variable, so that a         *)
(* property of one holds of all their interleavings if it holds while the  *)
(* others rest: each behaviour follows the one named by focus.  The        *)
(* credits are followed twice, with two turns and no other request, and    *)
(* with one turn and one request.                                          *)
(***************************************************************************)
EXTENDS BroadcastDelivery, StarsWallet, ReferralLedger, ChatCredits,
        UserSessions, ChannelProofs, AccountConnections, AccountSignIn

CONSTANT t1

VARIABLE focus

Parts == {"delivery", "stars", "ledger", "turns", "credits", "sessions", "proofs", "connections",
          "sign-in"}

accountVars  == <<sessionVars, proofVars, connVars, signVars>>
moneyVars    == <<starsVars, ledgerVars, creditVars>>
serviceVars  == <<focus, vars, moneyVars, accountVars>>

ServicesInit ==
    /\ focus \in Parts
    /\ Init /\ StarsInit /\ LedgerInit /\ CreditInit
    /\ SessionInit /\ ProofInit /\ ConnInit /\ SignInit
    /\ focus # "stars" => legacyRef = {}
    /\ focus # "ledger" => minPayout = 1
    /\ focus \notin {"turns", "credits"} => tenant.plan = "free"
    /\ focus # "proofs" => keyed = {}

OneTurn == \A t \in Turn \ {t1} : turn'[t] = turn[t]

Follows(part) == focus = part /\ UNCHANGED focus

ServicesNext ==
    \/ Follows("delivery") /\ Next /\ UNCHANGED <<moneyVars, accountVars>>
    \/ Follows("stars") /\ StarsNext /\ UNCHANGED <<vars, ledgerVars, creditVars, accountVars>>
    \/ Follows("ledger") /\ LedgerNext /\ UNCHANGED <<vars, starsVars, creditVars, accountVars>>
    \/ /\ \/ Follows("turns") /\ CreditNext /\ UNCHANGED caller
          \/ Follows("credits") /\ CreditNext /\ OneTurn
       /\ UNCHANGED <<vars, starsVars, ledgerVars, accountVars>>
    \/ Follows("sessions") /\ SessionNext /\ UNCHANGED <<vars, moneyVars, proofVars, connVars, signVars>>
    \/ Follows("proofs") /\ ProofNext /\ UNCHANGED <<vars, moneyVars, sessionVars, connVars, signVars>>
    \/ Follows("connections") /\ ConnNext
       /\ UNCHANGED <<vars, moneyVars, sessionVars, proofVars, signVars>>
    \/ Follows("sign-in") /\ SignNext /\ UNCHANGED <<vars, moneyVars, sessionVars, proofVars, connVars>>

ServicesSpec == ServicesInit /\ [][ServicesNext]_serviceVars

(* The types of the modules. *)
ServicesTypeOK ==
    /\ TypeOK /\ StarsTypeOK /\ LedgerTypeOK /\ CreditTypeOK
    /\ SessionTypeOK /\ ProofTypeOK /\ ConnTypeOK /\ SignTypeOK
=============================================================================
