--------------------------- MODULE AccountConnections ---------------------------
(***************************************************************************)
(* The connection of one Telegram account in one process: the state kept   *)
(* for it (app/services/connection_service.py, state_machine.py,           *)
(* session_manager.py) and the pooled client behind it                     *)
(* (app/services/telethon_pool.py), which the dashboard's requests use and *)
(* drop without telling the state.                                         *)
(*                                                                         *)
(* Accounts share nothing here.  Callers that find an operation under way  *)
(* wait for it, so that there is one at a time.  An event that the table   *)
(* does not foresee leaves the state as it was.                            *)
(***************************************************************************)
EXTENDS Integers

CONSTANT Restarts   \* bound on restarts of the process

ASSUME ConnectionAssumption == Restarts \in Nat

VARIABLES
    state,      \* ConnectionService._states
    op,         \* _inflight_operations: its step, the session it was given,
                \* and the session of the client it got
    client,     \* the pooled client: its session
    live,       \* is the pooled client connected
    standing,   \* what Telegram thinks of the stored session
    watched,    \* the monitor has this account on its list
    restarts,
    flooded     \* history: the last operation ended in a flood wait

connVars == <<state, op, client, live, standing, watched, restarts, flooded>>

NoOp == [pc |-> "none", session |-> "none", held |-> "none"]

ConnInit ==
    /\ state = "not_configured" /\ op = NoOp
    /\ client = "none" /\ live = FALSE
    /\ standing = "good" /\ watched = FALSE
    /\ restarts = 0 /\ flooded = FALSE

-----------------------------------------------------------------------------
(* TRANSITIONS, of the states an event of the service can lead to; the     *)
(* service leaves "expired" in the step that reaches it.                   *)
Transitions ==
    {<<"not_configured", "register", "connecting">>,
     <<"connecting", "connected", "connected">>,     <<"connecting", "failed", "disconnected">>,
     <<"connecting", "expired", "expired">>,         <<"connecting", "banned", "banned">>,
     <<"connecting", "disconnect", "disconnected">>, <<"connected", "disconnect", "disconnected">>,
     <<"connected", "expired", "expired">>,          <<"connected", "banned", "banned">>,
     <<"connected", "flood_wait", "flood_wait">>,    <<"connected", "reconnect", "reconnecting">>,
     <<"disconnected", "reconnect", "reconnecting">>, <<"disconnected", "expired", "expired">>,
     <<"disconnected", "register", "connecting">>,   <<"reconnecting", "connected", "connected">>,
     <<"reconnecting", "failed", "disconnected">>,   <<"reconnecting", "expired", "expired">>,
     <<"reconnecting", "banned", "banned">>,         <<"flood_wait", "expired", "expired">>}

After(s, event) ==
    LET here == {t \in Transitions : t[1] = s /\ t[2] = event}
    IN  IF here = {} THEN s ELSE (CHOOSE t \in here : TRUE)[3]

(* Mutant: a connection that is given up goes through the table like one   *)
(* that is closed.                                                         *)
SettledOnClose(s, event) == After(s, IF event = "failed" THEN "disconnect" ELSE event)
Settled(s, event) == IF After(s, event) = "expired" THEN "disconnected" ELSE After(s, event)

Busy == {"connecting", "reconnecting"}
Idle0 == op = NoOp
LockFree == op.pc # "dialling"   \* the lock of the pool
Drop == client' = "none" /\ live' = FALSE

-----------------------------------------------------------------------------
(* ConnectionService.                                                      *)

(* connect, of every account at start and after a sign-in, with the stored *)
(* session.                                                                *)
Connect ==
    /\ Idle0 /\ state \notin Busy \cup {"connected"}
    /\ state' = After(state, "register")
    /\ op' = [NoOp EXCEPT !.pc = "dial", !.session = "stored"]
    /\ UNCHANGED <<client, live, standing, watched, restarts, flooded>>

(* reconnect, whatever the state is, unless it is busy. *)
BeginReconnect(session) ==
    /\ Idle0 /\ state \notin Busy
    /\ state' = After(state, "reconnect")
    /\ op' = [NoOp EXCEPT !.pc = "wait", !.session = session]

(* A request asks for it: with the stored session (the maintenance of an   *)
(* account), or without one (a frame of /ws/sessions).                     *)
Reconnect ==
    /\ \E session \in {"stored", "blank"} : BeginReconnect(session)
    /\ UNCHANGED <<client, live, standing, watched, restarts, flooded>>

(* The back-off is over: the pooled client is dropped, without the lock.   *)
Reopen ==
    /\ op.pc = "wait"
    /\ op' = [op EXCEPT !.pc = "dial"]
    /\ Drop
    /\ UNCHANGED <<state, standing, watched, restarts, flooded>>

(* get_client: whatever is pooled, or a new client of the session given.   *)
Dial ==
    /\ op.pc = "dial"
    /\ client' = IF client = "none" THEN op.session ELSE client
    /\ op' = [op EXCEPT !.pc = "dialling", !.held = client']
    /\ UNCHANGED <<state, live, standing, watched, restarts, flooded>>

(* What can come of it.  Only a call with a session asks if the client is  *)
(* authorized, and does so whatever session the client has.                *)
Outcomes ==
    {"failed", "flood_wait"} \cup
    IF op.session = "blank" \/ (op.held = "stored" /\ standing = "good") THEN {"connected"}
    ELSE IF standing = "banned" THEN {"expired", "banned"} ELSE {"expired"}

(* The client stays pooled if nobody dropped it meanwhile; a connection    *)
(* that fails, or is not authorized, drops it.                             *)
Conclude(event) ==
    /\ op.pc = "dialling" /\ event \in Outcomes
    /\ state' = Settled(state, event)
    /\ op' = NoOp
    /\ \/ event # "connected" /\ Drop
       \/ event \notin {"failed", "expired"} /\ client' = client /\ live' = (client # "none")
    /\ flooded' = (event = "flood_wait")
    /\ UNCHANGED <<standing, watched, restarts>>

(* disconnect holds the lock of the account, not that of the pool. *)
Disconnect ==
    /\ state' = After(state, "disconnect")
    /\ Drop
    /\ UNCHANGED <<op, standing, watched, restarts, flooded>>

-----------------------------------------------------------------------------
(* The monitor of the session manager.                                     *)

MonitorLists ==
    /\ ~watched /\ state = "connected"
    /\ watched' = TRUE
    /\ UNCHANGED <<state, op, client, live, standing, restarts, flooded>>

(* A client that answers, or comes up again, is enough; where there is     *)
(* none, one without a session is made.                                    *)
MonitorFinds ==
    /\ watched /\ LockFree
    /\ watched' = FALSE
    /\ client' = IF client = "none" THEN "blank" ELSE client
    /\ live' = TRUE
    /\ UNCHANGED <<state, op, standing, restarts, flooded>>

(* The monitor calls reconnect without a session. *)
MonitorMisses ==
    /\ watched /\ LockFree /\ ~live
    /\ watched' = FALSE
    /\ Drop
    /\ IF Idle0 /\ state \notin Busy THEN BeginReconnect("blank") ELSE UNCHANGED <<state, op>>
    /\ UNCHANGED <<standing, restarts, flooded>>

-----------------------------------------------------------------------------
(* The rest of the process, and of the world.                              *)

(* A request gets the client with the stored session: one that is not      *)
(* authorized is dropped, and the next request makes another.              *)
RequestUses ==
    /\ LockFree
    /\ \/ /\ client # "blank" /\ standing = "good"
          /\ client' = "stored" /\ live' = TRUE
       \/ /\ client = "blank" \/ standing # "good" \/ ~live
          /\ Drop
    /\ UNCHANGED <<state, op, standing, watched, restarts, flooded>>

(* restart_runtime, and the dead-session recovery of a sign-in. *)
RequestDrops ==
    /\ client # "none" /\ Drop
    /\ UNCHANGED <<state, op, standing, watched, restarts, flooded>>

ConnectionLost ==
    /\ live /\ live' = FALSE
    /\ UNCHANGED <<state, op, client, standing, watched, restarts, flooded>>

StandingChanges ==
    /\ \/ standing # "banned" /\ standing' \in {"revoked", "banned"} \ {standing}
       \/ standing = "revoked" /\ standing' = "good"    \* signed in again
    /\ UNCHANGED <<state, op, client, live, watched, restarts, flooded>>

Restart ==
    /\ restarts < Restarts /\ restarts' = restarts + 1
    /\ state' = "not_configured" /\ op' = NoOp /\ Drop
    /\ watched' = FALSE /\ flooded' = FALSE
    /\ UNCHANGED standing

ConnNext ==
    \/ Connect \/ Reconnect \/ Reopen \/ Dial \/ Disconnect
    \/ \E event \in {"connected", "failed", "expired", "banned", "flood_wait"} : Conclude(event)
    \/ MonitorLists \/ MonitorFinds \/ MonitorMisses
    \/ RequestUses \/ RequestDrops \/ ConnectionLost \/ StandingChanges \/ Restart

ConnSpec == ConnInit /\ [][ConnNext]_connVars

-----------------------------------------------------------------------------
(* Correctness.                                                            *)

(* Every variable has its type; what is not pooled is not connected. *)
ConnTypeOK ==
    /\ state \in {"not_configured", "connecting", "connected", "disconnected", "reconnecting",
                  "banned", "flood_wait"}
    /\ op \in [pc : {"none", "wait", "dial", "dialling"}, session : {"none", "stored", "blank"},
             held : {"none", "stored", "blank"}]
    /\ client \in {"none", "stored", "blank"} /\ live \in BOOLEAN
    /\ standing \in {"good", "revoked", "banned"} /\ watched \in BOOLEAN
    /\ restarts \in 0 .. Restarts /\ flooded \in BOOLEAN

(* An account that is said to be connecting or reconnecting is being       *)
(* connected: nothing else gets it out of these states, as callers return  *)
(* at once and the monitor looks at connected accounts only.  The          *)
(* exception is an attempt that met a flood wait, which leaves the account *)
(* there for good.                                                         *)
BusyIsWorked == state \in Busy => ~Idle0 \/ flooded
=============================================================================
