---------------------------- MODULE Accounts_proofs ----------------------------
(***************************************************************************)
(* Proofs about AccountConnections, UserSessions, ChannelProofs and        *)
(* AccountSignIn: for every number of restarts, users, sign-ins, phones,   *)
(* tokens, keys and requests, and every value of SESSION_EXPIRE_DAYS and   *)
(* OTP_MAX_ATTEMPTS.                                                       *)
(***************************************************************************)
EXTENDS MCServices, BroadcastDelivery_proofs, Wallets_proofs, FiniteSetTheorems, TLAPS

-----------------------------------------------------------------------------
(* The table of an account's states.                                       *)

ConnStates == {"not_configured", "connecting", "connected", "disconnected", "reconnecting",
               "banned", "flood_wait"}
ConnEvents == {"connected", "failed", "expired", "banned", "flood_wait"}

(* An event leaves the state, unless a row of the table is about it, and   *)
(* then leads where one such row says.                                     *)
LEMMA AfterTable ==
    ASSUME NEW s, NEW event
    PROVE  LET here == {t \in Transitions : t[1] = s /\ t[2] = event} IN
           /\ here = {} => After(s, event) = s
           /\ here # {} => \E t \in here : After(s, event) = t[3]
BY DEF After

(* What ends an attempt takes a busy account out of it, and makes none     *)
(* busy.                                                                   *)
LEMMA EndsBusy ==
    ASSUME NEW s \in ConnStates, NEW event \in ConnEvents
    PROVE  /\ After(s, event) \in ConnStates \cup {"expired"}
           /\ event # "flood_wait" => After(s, event) \notin Busy
           /\ After(s, event) \in Busy => s \in Busy
<1> DEFINE here == {t \in Transitions : t[1] = s /\ t[2] = event}
<1>1. CASE here = {}
  <2>1. After(s, event) = s
    BY <1>1, AfterTable
  <2>2. s \in Busy => event = "flood_wait"
    <3>1. /\ <<"connecting", "connected", "connected">> \in Transitions
          /\ <<"connecting", "failed", "disconnected">> \in Transitions
          /\ <<"connecting", "expired", "expired">> \in Transitions
          /\ <<"connecting", "banned", "banned">> \in Transitions
          /\ <<"reconnecting", "connected", "connected">> \in Transitions
          /\ <<"reconnecting", "failed", "disconnected">> \in Transitions
          /\ <<"reconnecting", "expired", "expired">> \in Transitions
          /\ <<"reconnecting", "banned", "banned">> \in Transitions
      BY DEF Transitions
    <3>2. \A t \in Transitions : ~(t[1] = s /\ t[2] = event)
      BY <1>1
    <3> QED
      BY <3>1, <3>2 DEF Busy, ConnEvents
  <2> QED
    BY <2>1, <2>2
<1>2. CASE here # {}
  <2>1. PICK t \in here : After(s, event) = t[3]
    BY <1>2, AfterTable
  <2>2. t \in Transitions /\ t[2] \in ConnEvents
    OBVIOUS
  <2>3. t[3] \in {"connected", "disconnected", "expired", "banned", "flood_wait"}
    BY <2>2 DEF Transitions, ConnEvents
  <2> QED
    BY <2>1, <2>3 DEF ConnStates, Busy
<1> QED
  BY <1>1, <1>2

LEMMA OtherEvents ==
    ASSUME NEW s \in ConnStates, NEW event \in {"register", "reconnect", "disconnect"}
    PROVE  /\ After(s, event) \in ConnStates
           /\ event = "disconnect" /\ After(s, event) \in Busy => s \in Busy
<1> DEFINE here == {t \in Transitions : t[1] = s /\ t[2] = event}
<1>1. CASE here = {}
  BY <1>1, AfterTable
<1>2. CASE here # {}
  <2>1. PICK t \in here : After(s, event) = t[3]
    BY <1>2, AfterTable
  <2>2. t \in Transitions /\ t[2] = event
    OBVIOUS
  <2>3. t[3] \in {"connecting", "reconnecting", "disconnected"}
        /\ (event = "disconnect" => t[3] = "disconnected")
    BY <2>2 DEF Transitions
  <2> QED
    BY <2>1, <2>3 DEF ConnStates, Busy
<1> QED
  BY <1>1, <1>2

LEMMA NoOpTyped ==
    NoOp \in [pc : {"none", "wait", "dial", "dialling"}, session : {"none", "stored", "blank"},
             held : {"none", "stored", "blank"}]
BY DEF NoOp

(* Every variable keeps its type: no event leads to a state that the       *)
(* service does not know.                                                  *)
LEMMA ConnStepTyped == ConnTypeOK /\ [ConnNext]_connVars => ConnTypeOK'
<1> SUFFICES ASSUME ConnTypeOK, [ConnNext]_connVars PROVE ConnTypeOK'
  OBVIOUS
<1> USE ConnectionAssumption DEF ConnectionAssumption, ConnTypeOK
<1>0. state \in ConnStates
  BY DEF ConnStates
<1>1. ASSUME NEW event \in {"register", "reconnect", "disconnect"}
      PROVE  After(state, event) \in {"not_configured", "connecting", "connected", "disconnected",
                                      "reconnecting", "banned", "flood_wait"}
  BY <1>0, OtherEvents DEF ConnStates
<1>2. CASE Connect
  BY <1>1, <1>2 DEF Connect, NoOp
<1>3. CASE Reconnect \/ Reopen
  BY <1>1, <1>3 DEF Reconnect, BeginReconnect, NoOp, Reopen, Drop
<1>4. CASE Dial
  BY <1>4 DEF Dial
<1>5. CASE Disconnect
  BY <1>1, <1>5 DEF Disconnect, Drop
<1>6. ASSUME NEW event \in ConnEvents, Conclude(event) PROVE ConnTypeOK'
  <2>1. After(state, event) \in ConnStates \cup {"expired"}
    BY <1>0, EndsBusy
  <2>2. Settled(state, event) \in ConnStates
    BY <2>1 DEF Settled, ConnStates
  <2> QED
    BY <1>6, <2>2 DEF Conclude, ConnStates, NoOp, Drop
<1>7. CASE MonitorLists \/ MonitorFinds
  BY <1>7 DEF MonitorLists, MonitorFinds
<1>8. CASE MonitorMisses
  BY <1>1, <1>8 DEF MonitorMisses, BeginReconnect, NoOp, Drop
<1>9. CASE RequestUses \/ RequestDrops \/ ConnectionLost \/ StandingChanges
  BY <1>9 DEF RequestUses, RequestDrops, ConnectionLost, StandingChanges, Drop
<1>10. CASE Restart
  <2>1. restarts' \in 0 .. Restarts
    BY <1>10 DEF Restart
  <2> QED
    BY <1>10, <2>1, NoOpTyped DEF Restart, Drop
<1>11. CASE UNCHANGED connVars
  BY <1>11 DEF connVars
<1> QED
  BY <1>2, <1>3, <1>4, <1>5, <1>6, <1>7, <1>8, <1>9, <1>10, <1>11 DEF ConnNext, ConnEvents

THEOREM ConnectionsTyped == ConnSpec => []ConnTypeOK
<1>1. ConnInit => ConnTypeOK
  <2>1. ConnInit => restarts \in 0 .. Restarts
    BY ConnectionAssumption DEF ConnectionAssumption, ConnInit
  <2> QED
    BY <2>1, NoOpTyped DEF ConnInit, ConnTypeOK
<1> QED
  BY <1>1, ConnStepTyped, PTL DEF ConnSpec

LEMMA BusyStep == BusyIsWorked /\ ConnTypeOK /\ [ConnNext]_connVars => BusyIsWorked'
<1> SUFFICES ASSUME BusyIsWorked, ConnTypeOK, [ConnNext]_connVars PROVE BusyIsWorked'
  OBVIOUS
<1> USE DEF BusyIsWorked, Idle0
<1>0. state \in ConnStates
  BY DEF ConnStates, ConnTypeOK
<1>1. op \in [pc : {"none", "wait", "dial", "dialling"}, session : {"none", "stored", "blank"},
              held : {"none", "stored", "blank"}] /\ NoOp.pc = "none"
  BY DEF ConnTypeOK, NoOp
<1>2. CASE Connect
  <2>1. op'.pc = "dial"
    BY <1>2 DEF Connect, NoOp
  <2> QED
    BY <1>1, <2>1
<1>3. CASE Reconnect \/ Reopen \/ Dial
  <2>1. op'.pc \in {"wait", "dial", "dialling"}
    BY <1>1, <1>3 DEF Reconnect, BeginReconnect, NoOp, Reopen, Dial
  <2> QED
    BY <1>1, <2>1
<1>4. CASE Disconnect
  <2>1. state' \in Busy => state \in Busy
    BY <1>0, <1>4, OtherEvents DEF Disconnect
  <2> QED
    BY <1>4, <2>1 DEF Disconnect
<1>5. ASSUME NEW event \in ConnEvents, Conclude(event) PROVE BusyIsWorked'
  <2>1. event # "flood_wait" => state' \notin Busy
    BY <1>0, <1>5, EndsBusy DEF Conclude, Settled, Busy
  <2>2. event = "flood_wait" => flooded'
    BY <1>5 DEF Conclude
  <2> QED
    BY <2>1, <2>2
<1>6. CASE MonitorMisses
  <2>1. CASE Idle0 /\ state \notin Busy
    <3>1. op'.pc = "wait"
      BY <1>6, <2>1 DEF MonitorMisses, BeginReconnect, NoOp
    <3> QED
      BY <1>1, <3>1
  <2>2. CASE ~(Idle0 /\ state \notin Busy)
    <3>1. UNCHANGED <<state, op, flooded>>
      BY <1>6, <2>2 DEF MonitorMisses, Idle0
    <3> QED
      BY <3>1
  <2> QED
    BY <2>1, <2>2
<1>7. CASE MonitorLists \/ MonitorFinds \/ RequestUses \/ RequestDrops \/ ConnectionLost
           \/ StandingChanges \/ UNCHANGED connVars
  BY <1>7 DEF MonitorLists, MonitorFinds, RequestUses, RequestDrops, ConnectionLost,
              StandingChanges, connVars
<1>8. CASE Restart
  BY <1>8 DEF Restart, Busy
<1> QED
  BY <1>2, <1>3, <1>4, <1>5, <1>6, <1>7, <1>8 DEF ConnNext, ConnEvents

(* Nothing but a flood wait leaves an account in connecting or             *)
(* reconnecting with nobody at work on it, however requests, the monitor   *)
(* and restarts interfere (app/services/connection_service.py).            *)
THEOREM BusyHasWorker == ConnSpec => []BusyIsWorked
<1>1. ConnInit => BusyIsWorked
  BY DEF ConnInit, BusyIsWorked, Busy
<1> QED
  BY <1>1, ConnectionsTyped, BusyStep, PTL DEF ConnSpec

-----------------------------------------------------------------------------
(* One session per user.                                                   *)

SessionsTyped ==
    /\ session \subseteq SessionRow
    /\ login \in [Login -> [pc : {"new", "replaced", "done"}, user : User \cup {NoUser},
                            old : SUBSET Login]]
    /\ \A l \in Login : login[l].pc = "replaced" => login[l].user \in User
    /\ today \in 0 .. MaxToday
    /\ used \in [Login -> 0 .. MaxToday]
    /\ crossed \subseteq User

Replaces(l, u) == login[l].pc = "replaced" /\ login[l].user = u

(* One session, and one sign-in that will replace it. *)
OneLeft(u) ==
    /\ \A s, r \in session : s.user = u /\ r.user = u => s = r
    /\ \A k, l \in Login : Replaces(k, u) /\ Replaces(l, u) => k = l
    /\ \A l \in Login, s \in session : Replaces(l, u) /\ s.user = u => s.id \in login[l].old

SessionInv == \A u \in User \ crossed : OneLeft(u)

LEMMA SessionStepTyped == SessionsTyped /\ [SessionNext]_sessionVars => SessionsTyped'
<1> SUFFICES ASSUME SessionsTyped, [SessionNext]_sessionVars PROVE SessionsTyped'
  OBVIOUS
<1> USE SessionAssumption DEF SessionAssumption, SessionsTyped
<1>1. \A l \in Login, u \in User \cup {NoUser} : Opened(l, u) \in SessionRow
  BY DEF Opened, SessionRow
<1>2. ASSUME NEW l \in Login, NEW u \in User, ReplaceSessions(l, u) PROVE SessionsTyped'
  <2>1. {s.id : s \in Prior(u)} \subseteq Login
    BY DEF Prior, SessionRow
  <2> QED
    BY <1>2, <2>1 DEF ReplaceSessions
<1>3. ASSUME NEW l \in Login, CommitLogin(l) \/ LoginFails(l) PROVE SessionsTyped'
  <2> DEFINE done == [Unstarted EXCEPT !.pc = "done"]
  <2>1. /\ done \in [pc : {"new", "replaced", "done"}, user : User \cup {NoUser}, old : SUBSET Login]
        /\ done.pc = "done"
    BY DEF Unstarted
  <2>2. login' = [login EXCEPT ![l] = done]
    BY <1>3 DEF CommitLogin, LoginFails
  <2> HIDE DEF done
  <2>3. session' \subseteq SessionRow /\ used' \in [Login -> 0 .. MaxToday]
    BY <1>1, <1>3 DEF CommitLogin, LoginFails
  <2> QED
    BY <1>3, <2>1, <2>2, <2>3 DEF CommitLogin, LoginFails
<1>4. ASSUME NEW l \in Login, LoginWithApiKey(l) PROVE SessionsTyped'
  BY <1>1, <1>4 DEF LoginWithApiKey
<1>5. ASSUME NEW s \in session, NEW commits \in BOOLEAN, UseSession(s, commits) PROVE SessionsTyped'
  <2>1. s.id \in Login /\ s.user \in User \cup {NoUser}
    BY DEF SessionRow
  <2> QED
    BY <1>1, <1>5, <2>1 DEF UseSession
<1>6. CASE DayPasses
  BY <1>6 DEF DayPasses
<1>7. CASE UNCHANGED sessionVars
  BY <1>7 DEF sessionVars
<1> QED
  BY <1>2, <1>3, <1>4, <1>5, <1>6, <1>7 DEF SessionNext

LEMMA SessionStep == SessionInv /\ SessionsTyped /\ [SessionNext]_sessionVars => SessionInv'
<1> SUFFICES ASSUME SessionInv, SessionsTyped, [SessionNext]_sessionVars,
                    NEW u \in User, u \notin crossed'
             PROVE  OneLeft(u)'
  BY DEF SessionInv
<1> USE DEF SessionsTyped
<1>1. ASSUME u \notin crossed PROVE OneLeft(u)
  BY <1>1 DEF SessionInv
<1>2. ASSUME NEW l \in Login, NEW v \in User, ReplaceSessions(l, v) PROVE OneLeft(u)'
  <2>1. /\ login[l].pc = "new" /\ session' = session
        /\ login' = [login EXCEPT ![l] = [pc |-> "replaced", user |-> v,
                                          old |-> {s.id : s \in Prior(v)}]]
        /\ crossed' = IF \E k \in Login : login[k].pc = "replaced" /\ login[k].user = v
                      THEN crossed \cup {v} ELSE crossed
    BY <1>2 DEF ReplaceSessions
  <2>2. OneLeft(u)
    BY <1>1, <2>1
  <2>3. v = u => \A k \in Login : ~Replaces(k, u)
    BY <2>1 DEF Replaces
  <2>4. \A k \in Login \ {l} : Replaces(k, u)' = Replaces(k, u) /\ login'[k] = login[k]
    BY <2>1 DEF Replaces
  <2>5. Replaces(l, u)' => v = u /\ \A s \in session : s.user = u => s.id \in login'[l].old
    BY <2>1 DEF Replaces, Prior
  <2> QED
    BY <2>1, <2>2, <2>3, <2>4, <2>5 DEF OneLeft
<1>3. ASSUME NEW l \in Login, CommitLogin(l) PROVE OneLeft(u)'
  <2> DEFINE v == login[l].user
             opened == Opened(l, v)
  <2>1. /\ login[l].pc = "replaced" /\ crossed' = crossed
        /\ session' = {s \in session : s.id \notin login[l].old} \cup {opened}
        /\ login' = [login EXCEPT ![l] = [Unstarted EXCEPT !.pc = "done"]]
    BY <1>3 DEF CommitLogin
  <2>2. opened.user = v
    BY DEF Opened
  <2>3. OneLeft(u)
    BY <1>1, <2>1
  <2>4. ~Replaces(l, u)' /\ \A k \in Login \ {l} : login'[k] = login[k]
    BY <2>1 DEF Replaces, Unstarted
  <2>5. \A k \in Login : Replaces(k, u)' => k # l /\ Replaces(k, u)
    BY <2>4 DEF Replaces
  <2> HIDE DEF opened
  <2>6. CASE v = u
    <3>1. Replaces(l, u)
      BY <2>1, <2>6 DEF Replaces
    <3>2. \A s \in session' : s.user = u => s = opened
      BY <2>1, <2>3, <3>1 DEF OneLeft
    <3>3. \A k \in Login : ~Replaces(k, u)'
      BY <2>3, <2>5, <3>1 DEF OneLeft
    <3> QED
      BY <3>2, <3>3 DEF OneLeft
  <2>7. CASE v # u
    <3>1. \A s \in session' : s.user = u => s \in session
      BY <2>1, <2>2, <2>7
    <3> QED
      BY <2>3, <2>4, <2>5, <3>1 DEF OneLeft
  <2> QED
    BY <2>6, <2>7
<1>4. ASSUME NEW l \in Login, LoginFails(l) PROVE OneLeft(u)'
  <2>1. UNCHANGED <<session, crossed>> /\ login' = [login EXCEPT ![l] = [Unstarted EXCEPT !.pc = "done"]]
    BY <1>4 DEF LoginFails
  <2>2. ~Replaces(l, u)' /\ \A k \in Login \ {l} : login'[k] = login[k]
    BY <2>1 DEF Replaces, Unstarted
  <2>3. \A k \in Login : Replaces(k, u)' => k # l /\ Replaces(k, u)
    BY <2>2 DEF Replaces
  <2> QED
    BY <1>1, <2>1, <2>2, <2>3 DEF OneLeft
<1>5. ASSUME NEW l \in Login, LoginWithApiKey(l) PROVE OneLeft(u)'
  <2> DEFINE opened == Opened(l, NoUser)
  <2>1. /\ session' = session \cup {opened} /\ crossed' = crossed
        /\ login' = [login EXCEPT ![l].pc = "done"]
    BY <1>5 DEF LoginWithApiKey
  <2>2. opened.user # u
    BY SessionAssumption DEF SessionAssumption, Opened
  <2>3. ~Replaces(l, u)' /\ \A k \in Login \ {l} : login'[k] = login[k]
    BY <2>1 DEF Replaces
  <2>4. \A k \in Login : Replaces(k, u)' => k # l /\ Replaces(k, u)
    BY <2>3 DEF Replaces
  <2>5. \A s \in session' : s.user = u => s \in session
    BY <2>1, <2>2
  <2> QED
    BY <1>1, <2>1, <2>3, <2>4, <2>5 DEF OneLeft
<1>6. ASSUME NEW s \in session, NEW commits \in BOOLEAN, UseSession(s, commits) PROVE OneLeft(u)'
  <2> DEFINE opened == Opened(s.id, s.user)
  <2>1. UNCHANGED <<login, crossed>> /\ session' \in {session, (session \ {s}) \cup {opened}}
    BY <1>6 DEF UseSession
  <2>2. opened.id = s.id /\ opened.user = s.user
    BY DEF Opened
  <2>3. OneLeft(u)
    BY <1>1, <2>1
  <2>4. \A k \in Login : Replaces(k, u)' = Replaces(k, u)
    BY <2>1 DEF Replaces
  <2> HIDE DEF opened
  <2>5. CASE session' = session
    BY <2>1, <2>3, <2>4, <2>5 DEF OneLeft
  <2>6. CASE session' = (session \ {s}) \cup {opened}
    <3>1. \A r, q \in session' : r.user = u /\ q.user = u => r = q
      BY <2>2, <2>3, <2>6 DEF OneLeft
    <3>2. \A l \in Login, r \in session' : Replaces(l, u)' /\ r.user = u => r.id \in login'[l].old
      BY <2>1, <2>2, <2>3, <2>4, <2>6 DEF OneLeft
    <3> QED
      BY <2>3, <2>4, <3>1, <3>2 DEF OneLeft
  <2> QED
    BY <2>1, <2>5, <2>6
<1>7. CASE DayPasses \/ UNCHANGED sessionVars
  BY <1>1, <1>7 DEF DayPasses, sessionVars, OneLeft, Replaces
<1> QED
  BY <1>2, <1>3, <1>4, <1>5, <1>6, <1>7 DEF SessionNext

LEMMA SessionsHold == SessionSpec => [](SessionsTyped /\ SessionInv)
<1>1. SessionInit => SessionsTyped /\ SessionInv
  BY SessionAssumption
  DEF SessionAssumption, SessionInit, SessionsTyped, SessionInv, OneLeft, Replaces, Unstarted
<1> QED
  BY <1>1, SessionStepTyped, SessionStep, PTL DEF SessionSpec

(* Every variable keeps its type. *)
THEOREM SessionsKeepType == SessionSpec => []SessionTypeOK
<1>1. SessionsTyped => SessionTypeOK
  BY DEF SessionsTyped, SessionTypeOK
<1> QED
  BY <1>1, SessionsHold, PTL

(* However often a user signs in, fails and tries again, one session is    *)
(* left, unless two of the requests were handled at once (create_session   *)
(* of app/crud/session.py deletes only what it can see).                   *)
THEOREM OneSession == SessionSpec => []SoleSession
<1>1. SessionInv => SoleSession
  <2> SUFFICES ASSUME SessionInv, NEW u \in User \ crossed PROVE Cardinality(Prior(u)) <= 1
    BY DEF SoleSession
  <2>1. \A s, r \in Prior(u) : s = r
    BY DEF SessionInv, OneLeft, Prior
  <2>2. CASE Prior(u) = {}
    BY <2>2, FS_EmptySet
  <2>3. CASE Prior(u) # {}
    <3>1. PICK s \in Prior(u) : TRUE
      BY <2>3
    <3>2. Prior(u) = {s}
      BY <2>1, <3>1
    <3> QED
      BY <3>2, FS_Singleton
  <2> QED
    BY <2>2, <2>3
<1> QED
  BY <1>1, SessionsHold, PTL

(* A request that uses a session commits, and the slide with it (or has    *)
(* nothing to slide).                                                      *)
Slides == \A s \in session : UseSession(s, FALSE) => UseSession(s, TRUE)

(* A session is the only one of its login, which is over, and is valid for *)
(* SESSION_EXPIRE_DAYS from its last use.                                  *)
StayInv ==
    /\ \A s, r \in session : s.id = r.id => s = r
    /\ \A s \in session : login[s.id].pc = "done" /\ s.until >= used[s.id] + SessionDays

LEMMA StayStep == StayInv /\ SessionsTyped /\ [SessionNext /\ Slides]_sessionVars => StayInv'
<1> SUFFICES ASSUME StayInv, SessionsTyped, [SessionNext /\ Slides]_sessionVars PROVE StayInv'
  OBVIOUS
<1> SessionDays \in Nat
  BY SessionAssumption DEF SessionAssumption
<1> USE DEF StayInv
<1>1. ASSUME NEW l \in Login, NEW u \in User, ReplaceSessions(l, u) PROVE StayInv'
  BY <1>1 DEF ReplaceSessions, SessionsTyped, SessionRow
<1>2. ASSUME NEW l \in Login, CommitLogin(l) \/ LoginWithApiKey(l) PROVE StayInv'
  <2>1. PICK w \in User \cup {NoUser}, kept \in SUBSET session : session' = kept \cup {Opened(l, w)}
    <3>1. CASE CommitLogin(l)
      <4>1. /\ {s \in session : s.id \notin login[l].old} \in SUBSET session
            /\ login[l].user \in User \cup {NoUser}
        BY DEF SessionsTyped
      <4> QED
        BY <3>1, <4>1, Zenon DEF CommitLogin
    <3>2. CASE LoginWithApiKey(l)
      <4>1. session \in SUBSET session
        OBVIOUS
      <4> QED
        BY <3>2, <4>1, Zenon DEF LoginWithApiKey
    <3> QED
      BY <1>2, <3>1, <3>2
  <2>2. /\ used' = [used EXCEPT ![l] = today]
        /\ login[l].pc # "done" /\ login'[l].pc = "done"
        /\ \A k \in Login \ {l} : login'[k] = login[k]
    BY <1>2 DEF CommitLogin, LoginWithApiKey, Unstarted, SessionsTyped
  <2>3. Opened(l, w).id = l /\ Opened(l, w).until = today + SessionDays
    BY DEF Opened
  <2>4. \A s \in kept : s \in session /\ s.id \in Login /\ s.id # l
    BY <2>2 DEF SessionsTyped, SessionRow
  <2>5. used'[l] = today /\ \A k \in Login \ {l} : used'[k] = used[k]
    BY <2>2 DEF SessionsTyped
  <2>6. today \in Int
    BY DEF SessionsTyped
  <2> QED
    BY <2>1, <2>2, <2>3, <2>4, <2>5, <2>6
<1>3. ASSUME NEW l \in Login, LoginFails(l) PROVE StayInv'
  BY <1>3 DEF LoginFails, Unstarted, SessionsTyped, SessionRow
<1>4. ASSUME NEW s \in session, UseSession(s, TRUE) PROVE StayInv'
  <2>1. /\ session' = (session \ {s}) \cup {Opened(s.id, s.user)}
        /\ login' = login /\ used' = [used EXCEPT ![s.id] = today]
    BY <1>4 DEF UseSession
  <2>2. Opened(s.id, s.user).id = s.id /\ Opened(s.id, s.user).until = today + SessionDays
    BY DEF Opened
  <2>3. s.id \in Login /\ today \in Int /\ used'[s.id] = today
    BY <2>1 DEF SessionsTyped, SessionRow
  <2>4. \A r \in session \ {s} : r.id # s.id /\ used'[r.id] = used[r.id]
    BY <2>1 DEF SessionsTyped, SessionRow
  <2> QED
    BY <2>1, <2>2, <2>3, <2>4
<1>5. CASE DayPasses \/ UNCHANGED sessionVars
  BY <1>5 DEF DayPasses, sessionVars
<1> QED
  BY <1>1, <1>2, <1>3, <1>4, <1>5 DEF SessionNext, Slides

(* A session used within SESSION_EXPIRE_DAYS is valid, if each request     *)
(* that uses one commits the slide that touch_session has flushed;         *)
(* ActiveStays fails because most requests commit nothing.                 *)
THEOREM CommittedUseStays ==
    SessionInit /\ [][SessionNext /\ Slides]_sessionVars => []ActiveStays
<1>1. SessionInit => SessionsTyped /\ StayInv
  BY SessionAssumption DEF SessionAssumption, SessionInit, SessionsTyped, StayInv, Unstarted
<1>2. [SessionNext /\ Slides]_sessionVars => [SessionNext]_sessionVars
  OBVIOUS
<1>3. SessionsTyped /\ StayInv => ActiveStays
  <2> SUFFICES ASSUME SessionsTyped, StayInv, NEW s \in session, today < used[s.id] + SessionDays
               PROVE  Valid(s)
    BY DEF ActiveStays
  <2>1. today \in Int /\ used[s.id] \in Int /\ s.until \in Int /\ SessionDays \in Int
    BY SessionAssumption DEF SessionAssumption, SessionsTyped, SessionRow
  <2> QED
    BY <2>1 DEF StayInv, Valid
<1> QED
  BY <1>1, <1>2, <1>3, SessionStepTyped, StayStep, PTL

-----------------------------------------------------------------------------
(* One admission per code and per token.                                   *)

VPC == {"new", "code", "link", "channel", "issue", "signup", "key", "free key", "told", "done"}
VisitRow == [pc : VPC, phone : Phone, form : Form \cup {NoForm}, code : CodeRow, status : Statuses]

RequestsTyped ==
    /\ code \in [Phone -> CodeRow] /\ codes \in [Phone -> 0 .. MaxCodes]
    /\ form \in [Form -> [status : Statuses, verified : BOOLEAN, consumed : BOOLEAN, fresh : BOOLEAN]]
    /\ keyed \subseteq Phone
    /\ visit \in [Visit -> VisitRow]
    /\ \A v \in Visit : visit[v].pc \in {"link", "channel", "issue", "signup"} => visit[v].form \in Form

LEMMA NoVisitTyped ==
    Phone # {} => NoVisit \in VisitRow /\ NoVisit.pc = "new" /\ NoVisit.phone \in Phone
<1>1. NoCode \in CodeRow
  BY ProofAssumption DEF ProofAssumption, NoCode, CodeRow
<1>2. Phone # {} => (CHOOSE p \in Phone : TRUE) \in Phone
  OBVIOUS
<1> QED
  BY <1>1, <1>2 DEF NoVisit, VisitRow, VPC, Statuses

(* The steps of a request that only move it on. *)
LEMMA MovedOn ==
    ASSUME RequestsTyped, NEW v \in Visit, NEW pc \in {"key", "free key", "told", "done"}, Goes(v, pc)
    PROVE  /\ visit' \in [Visit -> VisitRow]
           /\ \A w \in Visit : visit'[w].pc \in {"link", "channel", "issue", "signup"} =>
                                  visit'[w].form \in Form
<1>1. [visit[v] EXCEPT !.pc = pc] \in VisitRow /\ [visit[v] EXCEPT !.pc = pc].pc = pc
  BY DEF RequestsTyped, VisitRow, VPC
<1>2. visit' = [visit EXCEPT ![v] = [visit[v] EXCEPT !.pc = pc]]
  BY DEF Goes
<1> QED
  BY <1>1, <1>2 DEF RequestsTyped

LEMMA CodeStepTyped ==
    ASSUME RequestsTyped,
           \/ \E p \in Phone : SendCode(p) \/ CodeExpires(p) \/ \E v \in Visit : ReadCode(v, p)
           \/ \E v \in Visit : DropCode(v) \/ WrongCode(v) \/ RightCode(v)
    PROVE  RequestsTyped'
<1> USE ProofAssumption DEF ProofAssumption
<1>0. NoCode \in CodeRow
  BY DEF NoCode, CodeRow
<1>1. ASSUME NEW p \in Phone, SendCode(p) PROVE RequestsTyped'
  <2>1. codes[p] + 1 \in 0 .. MaxCodes
    BY <1>1 DEF SendCode, RequestsTyped
  <2>2. [no |-> codes[p] + 1, tries |-> 0, fresh |-> TRUE] \in CodeRow
    BY <2>1 DEF CodeRow
  <2>3. /\ codes' = [codes EXCEPT ![p] = codes[p] + 1]
        /\ code' = [code EXCEPT ![p] = [no |-> codes[p] + 1, tries |-> 0, fresh |-> TRUE]]
        /\ UNCHANGED <<form, keyed, visit>>
    BY <1>1 DEF SendCode
  <2> QED
    BY <2>1, <2>2, <2>3 DEF RequestsTyped
<1>2. ASSUME NEW p \in Phone, CodeExpires(p) PROVE RequestsTyped'
  <2>0. code[p] \in CodeRow
    BY DEF RequestsTyped
  <2>1. [code[p] EXCEPT !.fresh = FALSE] \in CodeRow
    BY <2>0 DEF CodeRow
  <2>2. code' = [code EXCEPT ![p] = [code[p] EXCEPT !.fresh = FALSE]] /\ UNCHANGED <<codes, form, keyed, visit>>
    BY <1>2 DEF CodeExpires
  <2> QED
    BY <2>1, <2>2 DEF RequestsTyped
<1>3. ASSUME NEW p \in Phone, NEW v \in Visit, ReadCode(v, p) PROVE RequestsTyped'
  <2> DEFINE h == [NoVisit EXCEPT !.pc = "code", !.phone = p, !.code = code[p]]
  <2>1. h \in VisitRow /\ h.pc = "code"
    BY NoVisitTyped DEF RequestsTyped, VisitRow, VPC
  <2>2. visit' = [visit EXCEPT ![v] = h] /\ UNCHANGED <<code, codes, form, keyed>>
    BY <1>3 DEF ReadCode
  <2> HIDE DEF h
  <2> QED
    BY <2>1, <2>2 DEF RequestsTyped
<1>4. ASSUME NEW v \in Visit, NEW c \in CodeRow, UpdateRow(v, c), UNCHANGED <<codes, form, keyed>>,
             Goes(v, "done") \/ Goes(v, "key")
      PROVE  RequestsTyped'
  <2>1. code' \in [Phone -> CodeRow]
    BY <1>4 DEF UpdateRow, RequestsTyped
  <2> QED
    BY <1>4, <2>1, MovedOn DEF RequestsTyped
<1>5. ASSUME NEW v \in Visit, DropCode(v) PROVE RequestsTyped'
  BY <1>0, <1>4, <1>5 DEF DropCode
<1>6. ASSUME NEW v \in Visit, RightCode(v) PROVE RequestsTyped'
  BY <1>0, <1>4, <1>6 DEF RightCode, Removed
<1>7. ASSUME NEW v \in Visit, WrongCode(v) PROVE RequestsTyped'
  <2> DEFINE p == visit[v].phone
             c == [code[p] EXCEPT !.tries = visit[v].code.tries + 1]
  <2>1. p \in Phone /\ visit[v].code \in CodeRow /\ visit[v].code.tries < MaxGuesses
    BY <1>7 DEF WrongCode, Guessable, RequestsTyped, VisitRow
  <2>2. visit[v].code.tries + 1 \in 0 .. MaxGuesses
    BY <2>1 DEF CodeRow
  <2>3. c \in CodeRow
    BY <2>1, <2>2 DEF RequestsTyped, CodeRow
  <2>4. UpdateRow(v, c) /\ Goes(v, "done") /\ UNCHANGED <<codes, form, keyed>>
    BY <1>7 DEF WrongCode
  <2> QED
    BY <1>4, <2>3, <2>4
<1> QED
  BY <1>1, <1>2, <1>3, <1>5, <1>6, <1>7

LEMMA TokenStepTyped ==
    ASSUME RequestsTyped,
           \/ \E f \in Form : CreateVerification(f) \/ FormExpires(f)
           \/ \E v \in Visit : WriteLink(v) \/ NoMember(v) \/ MarkVerified(v) \/ ConsumeToken(v)
                               \/ IssueKey(v) \/ VisitEnds(v)
           \/ \E v \in Visit, f \in Form, p \in Phone :
                 ReadLink(v, f) \/ CheckVerified(v, f) \/ CheckLinked(v, f) \/ ReadIssue(v, f, p)
                 \/ ReadSignup(v, f, p)
    PROVE  RequestsTyped'
<1> DEFINE FormRow == [status : Statuses, verified : BOOLEAN, consumed : BOOLEAN, fresh : BOOLEAN]
<1>1. ASSUME NEW f \in Form, NEW t \in FormRow, form' = [form EXCEPT ![f] = t],
             UNCHANGED <<code, codes, keyed>>,
             visit' = visit \/ \E v \in Visit, pc \in {"key", "free key", "told", "done"} : Goes(v, pc)
      PROVE  RequestsTyped'
  BY <1>1, MovedOn DEF RequestsTyped
<1>2. ASSUME NEW v \in Visit, NEW pc \in {"key", "free key", "told", "done"}, Goes(v, pc),
             UNCHANGED <<code, codes, form>>, keyed' \subseteq Phone
      PROVE  RequestsTyped'
  BY <1>2, MovedOn DEF RequestsTyped
<1>3. ASSUME NEW f \in Form, CreateVerification(f) \/ FormExpires(f) PROVE RequestsTyped'
  <2>1. [NoToken EXCEPT !.status = "pending", !.fresh = TRUE] \in FormRow
    BY DEF NoToken, Statuses
  <2>2. [form[f] EXCEPT !.fresh = FALSE] \in FormRow
    BY DEF RequestsTyped
  <2> QED
    BY <1>1, <1>3, <2>1, <2>2 DEF CreateVerification, FormExpires
<1>4. ASSUME NEW v \in Visit, NEW f \in Form, NEW p \in Phone, NEW pc \in {"link", "told", "channel", "issue", "signup"},
             ReadForm(v, f, p, pc)
      PROVE  RequestsTyped'
  <2> DEFINE h == [NoVisit EXCEPT !.pc = pc, !.form = f, !.phone = p, !.status = form[f].status]
  <2>1. h \in VisitRow /\ h.form \in Form
    BY NoVisitTyped DEF RequestsTyped, VisitRow, VPC
  <2>2. visit' = [visit EXCEPT ![v] = h] /\ UNCHANGED <<code, codes, form, keyed>>
    BY <1>4 DEF ReadForm
  <2> HIDE DEF h
  <2> QED
    BY <2>1, <2>2 DEF RequestsTyped
<1>5. ASSUME NEW v \in Visit, NEW f \in Form, NEW p \in Phone,
             ReadLink(v, f) \/ CheckVerified(v, f) \/ CheckLinked(v, f) \/ ReadIssue(v, f, p)
             \/ ReadSignup(v, f, p)
      PROVE  RequestsTyped'
  BY <1>4, <1>5, NoVisitTyped DEF ReadLink, CheckVerified, CheckLinked, ReadIssue, ReadSignup
<1>6. ASSUME NEW v \in Visit, WriteLink(v) PROVE RequestsTyped'
  <2> DEFINE f == visit[v].form
             t == [form[f] EXCEPT !.status = IF visit[v].status = "linked" THEN form[f].status ELSE "linked"]
  <2>1. f \in Form /\ t \in FormRow
    BY <1>6 DEF WriteLink, RequestsTyped, Statuses
  <2>2. form' = [form EXCEPT ![f] = t]
    BY <1>6 DEF WriteLink
  <2> QED
    BY <1>1, <1>6, <2>1, <2>2 DEF WriteLink
<1>7. ASSUME NEW v \in Visit, MarkVerified(v) PROVE RequestsTyped'
  <2> DEFINE f == visit[v].form
             t == [form[f] EXCEPT !.status = "verified", !.verified = TRUE]
  <2>1. f \in Form /\ t \in FormRow
    BY <1>7 DEF MarkVerified, RequestsTyped, Statuses
  <2>2. form' = [form EXCEPT ![f] = t] \/ form' = form
    BY <1>7 DEF MarkVerified
  <2> QED
    BY <1>1, <1>2, <1>7, <2>1, <2>2 DEF MarkVerified, RequestsTyped
<1>8. ASSUME NEW v \in Visit, ConsumeToken(v) PROVE RequestsTyped'
  <2> DEFINE f == visit[v].form
             t == [form[f] EXCEPT !.consumed = TRUE]
  <2>1. f \in Form /\ t \in FormRow
    BY <1>8 DEF ConsumeToken, RequestsTyped
  <2>2. CASE Spendable(form[f])
    <3>1. form' = [form EXCEPT ![f] = t] /\ UNCHANGED <<code, codes, keyed>>
          /\ (Goes(v, "free key") \/ Goes(v, "key"))
      BY <1>8, <2>2 DEF ConsumeToken
    <3> QED
      BY <1>1, <2>1, <3>1
  <2>3. CASE ~Spendable(form[f])
    <3>1. Goes(v, "done") /\ UNCHANGED <<code, codes, form, keyed>>
      BY <1>8, <2>3 DEF ConsumeToken
    <3> QED
      BY <1>2, <3>1 DEF RequestsTyped
  <2> QED
    BY <2>2, <2>3
<1>9. ASSUME NEW v \in Visit, IssueKey(v) \/ NoMember(v) \/ VisitEnds(v) PROVE RequestsTyped'
  <2>1. visit[v].phone \in Phone
    BY DEF RequestsTyped, VisitRow
  <2> QED
    BY <1>2, <1>9, <2>1 DEF IssueKey, NoMember, VisitEnds, RequestsTyped
<1> QED
  BY <1>3, <1>5, <1>6, <1>7, <1>8, <1>9

LEMMA RequestStepTyped == RequestsTyped /\ [ProofNext]_proofVars => RequestsTyped'
<1> SUFFICES ASSUME RequestsTyped, [ProofNext]_proofVars PROVE RequestsTyped'
  OBVIOUS
<1>1. CASE UNCHANGED proofVars
  BY <1>1 DEF proofVars, RequestsTyped
<1>2. ASSUME NEW v \in Visit, NEW f \in Form, ReadLink(v, f) \/ CheckVerified(v, f) \/ CheckLinked(v, f)
      PROVE  RequestsTyped'
  <2>1. visit[v].phone \in Phone
    BY DEF RequestsTyped, VisitRow
  <2> QED
    BY <1>2, <2>1, TokenStepTyped
<1>3. CASE ProofNext
  BY <1>2, <1>3, CodeStepTyped, TokenStepTyped DEF ProofNext
<1> QED
  BY <1>1, <1>3

(* Every variable of the channel proofs has its type. *)
THEOREM ProofsTyped == ProofSpec => []ProofTypeOK
<1>1. ProofInit => RequestsTyped
  <2>1. Phone # {} /\ NoCode \in CodeRow /\ 0 \in 0 .. MaxCodes
    BY ProofAssumption DEF ProofAssumption, NoCode, CodeRow
  <2>2. NoToken \in [status : Statuses, verified : BOOLEAN, consumed : BOOLEAN, fresh : BOOLEAN]
    BY DEF NoToken, Statuses
  <2> QED
    BY <2>1, <2>2, NoVisitTyped DEF ProofInit, RequestsTyped
<1>2. RequestsTyped => ProofTypeOK
  BY DEF RequestsTyped, ProofTypeOK, VisitRow, VPC
<1> QED
  BY <1>1, <1>2, RequestStepTyped, PTL DEF ProofSpec

HasToken(v, f)   == <<v, <<f>>>> \in admitted
HasCode(v, p, n) == <<v, <<p, n>>>> \in admitted
InHand(v, p, n)  == visit[v].pc = "code" /\ visit[v].phone = p /\ visit[v].code.no = n

(* A proof is a code that was sent, or a token. *)
ProofsKnown ==
    /\ \A a \in admitted : \/ \E v \in Visit, f \in Form : a = <<v, <<f>>>>
                           \/ \E v \in Visit, p \in Phone, n \in 1 .. MaxCodes : a = <<v, <<p, n>>>>
    /\ \A p \in Phone : code[p].no <= codes[p]
    /\ \A v \in Visit : visit[v].pc = "code" => visit[v].code.no \in 1 .. codes[visit[v].phone]
    /\ \A v \in Visit, p \in Phone, n \in 1 .. MaxCodes : HasCode(v, p, n) => n <= codes[p]

(* A token is spent by one request. *)
TokensOnce ==
    \A f \in Form : /\ form[f].consumed <=> \E v \in Visit : HasToken(v, f)
                    /\ \A v, w \in Visit : HasToken(v, f) /\ HasToken(w, f) => v = w
                    /\ form[f].status = "none" => ~form[f].consumed

(* A code that no two requests have had in hand together: one request has  *)
(* it, or has been admitted on it, and then the row is gone.               *)
CodesOnce ==
    \A p \in Phone, n \in 1 .. MaxCodes :
        <<p, n>> \notin shared =>
           /\ \A v, w \in Visit : InHand(v, p, n) /\ InHand(w, p, n) => v = w
           /\ \A v, w \in Visit : HasCode(v, p, n) => ~InHand(w, p, n) /\ code[p].no # n
           /\ \A v, w \in Visit : HasCode(v, p, n) /\ HasCode(w, p, n) => v = w

LEMMA Arity == ASSUME NEW f, NEW p, NEW n PROVE <<f>> # <<p, n>>
OBVIOUS

(* A step that admits nobody and takes no code in hand. *)
LEMMA NothingAdmitted ==
    ASSUME RequestsTyped, ProofsKnown, TokensOnce, CodesOnce,
           UNCHANGED <<admitted, shared>>,
           \A p \in Phone : codes'[p] \in Nat /\ codes[p] <= codes'[p] /\ code'[p].no <= codes'[p]
                          /\ code'[p].no \in {0, code[p].no} \cup {n \in Nat : n > codes[p]},
           \A v \in Visit : visit'[v].pc # "code" \/ visit'[v] = visit[v],
           \A f \in Form : /\ form'[f].consumed = form[f].consumed
                           /\ form'[f].status = "none" => form[f].status = "none"
    PROVE  (ProofsKnown /\ TokensOnce /\ CodesOnce)'
<1>1. \A p \in Phone : codes[p] \in Nat /\ code[p].no \in Nat
  BY DEF RequestsTyped, CodeRow
<1>2. \A v \in Visit : visit[v].phone \in Phone /\ visit[v].code.no \in Nat
  BY DEF RequestsTyped, VisitRow, CodeRow
<1>3. ProofsKnown'
  BY <1>1, <1>2 DEF ProofsKnown, HasCode
<1>4. TokensOnce'
  <2>1. \A v \in Visit, f \in Form : HasToken(v, f)' <=> HasToken(v, f)
    BY DEF HasToken
  <2> QED
    BY <2>1 DEF TokensOnce
<1>5. \A v \in Visit, p \in Phone, n \in 1 .. MaxCodes : InHand(v, p, n)' => InHand(v, p, n)
  BY DEF InHand
<1>6. \A v \in Visit, p \in Phone, n \in 1 .. MaxCodes :
         HasCode(v, p, n)' => HasCode(v, p, n) /\ (code[p].no # n => code'[p].no # n)
  BY <1>1 DEF HasCode, ProofsKnown
<1>7. CodesOnce'
  BY <1>5, <1>6 DEF CodesOnce
<1> QED
  BY <1>3, <1>4, <1>7

LEMMA ReadCodeStep ==
    ASSUME RequestsTyped, ProofsKnown, TokensOnce, CodesOnce, NEW v \in Visit, NEW p \in Phone, ReadCode(v, p)
    PROVE  (ProofsKnown /\ TokensOnce /\ CodesOnce)'
<1> DEFINE h == [NoVisit EXCEPT !.pc = "code", !.phone = p, !.code = code[p]]
           k == code[p].no
<1>1. h \in VisitRow /\ h.pc = "code" /\ h.phone = p /\ h.code = code[p]
  BY NoVisitTyped DEF RequestsTyped, VisitRow, VPC
<1>2. visit' = [visit EXCEPT ![v] = h] /\ UNCHANGED <<code, codes, form, admitted>> /\ visit[v].pc = "new"
  BY DEF ReadCode
<1> HIDE DEF h
<1>3. visit'[v] = h /\ \A w \in Visit : w # v => visit'[w] = visit[w]
  BY <1>2 DEF RequestsTyped
<1>4. k \in 1 .. codes[p]
  <2>1. k \in Nat /\ k # 0 /\ k <= codes[p] /\ codes[p] \in Nat
    BY DEF ReadCode, ProofsKnown, RequestsTyped, CodeRow
  <2> QED
    BY <2>1
<1>5. ProofsKnown'
  BY <1>1, <1>2, <1>3, <1>4 DEF ProofsKnown, HasCode
<1>6. TokensOnce'
  BY <1>2 DEF TokensOnce, HasToken
<1>7. shared \subseteq shared'
  BY DEF ReadCode
<1>8. ASSUME NEW w \in Visit, visit[w].pc = "code", visit[w].phone = p, visit[w].code.no = k
      PROVE  <<p, k>> \in shared'
  BY <1>8 DEF ReadCode, CodeOf
<1>9. ASSUME NEW q \in Phone, NEW n \in 1 .. MaxCodes, <<q, n>> \notin shared'
      PROVE  /\ \A a, b \in Visit : InHand(a, q, n)' /\ InHand(b, q, n)' => a = b
             /\ \A a, b \in Visit : HasCode(a, q, n)' => ~InHand(b, q, n)' /\ code'[q].no # n
             /\ \A a, b \in Visit : HasCode(a, q, n)' /\ HasCode(b, q, n)' => a = b
  <2>1. <<q, n>> \notin shared
    BY <1>7, <1>9
  <2>2. \A a \in Visit : HasCode(a, q, n)' <=> HasCode(a, q, n)
    BY <1>2 DEF HasCode
  <2>3. \A a \in Visit : InHand(a, q, n)' => InHand(a, q, n) \/ (a = v /\ q = p /\ n = k)
    BY <1>1, <1>3 DEF InHand
  <2>4. \A a \in Visit : InHand(a, q, n) => ~(q = p /\ n = k)
    BY <1>8, <1>9 DEF InHand
  <2>5. \A a, b \in Visit : InHand(a, q, n)' /\ InHand(b, q, n)' => a = b
    BY <2>1, <2>3, <2>4 DEF CodesOnce
  <2>6. \A a, b \in Visit : HasCode(a, q, n)' => ~InHand(b, q, n)' /\ code'[q].no # n
    BY <1>2, <2>1, <2>2, <2>3 DEF CodesOnce
  <2>7. \A a, b \in Visit : HasCode(a, q, n)' /\ HasCode(b, q, n)' => a = b
    BY <2>1, <2>2 DEF CodesOnce
  <2> QED
    BY <2>5, <2>6, <2>7
<1>10. CodesOnce'
  BY <1>9 DEF CodesOnce
<1> QED
  BY <1>5, <1>6, <1>10

LEMMA RightCodeStep ==
    ASSUME RequestsTyped, ProofsKnown, TokensOnce, CodesOnce, NEW v \in Visit, RightCode(v)
    PROVE  (ProofsKnown /\ TokensOnce /\ CodesOnce)'
<1> DEFINE p == visit[v].phone
           k == visit[v].code.no
<1>1. /\ p \in Phone /\ k \in 1 .. codes[p] /\ k \in 1 .. MaxCodes /\ visit[v].pc = "code"
      /\ codes[p] \in 0 .. MaxCodes
  <2>1. p \in Phone /\ visit[v].pc = "code"
    BY DEF RightCode, RequestsTyped, VisitRow
  <2>2. k \in 1 .. codes[p] /\ codes[p] \in 0 .. MaxCodes
    BY <2>1 DEF ProofsKnown, RequestsTyped
  <2> QED
    BY <2>1, <2>2, ProofAssumption DEF ProofAssumption
<1>2. /\ admitted' = admitted \cup {<<v, <<p, k>>>>} /\ UNCHANGED <<codes, form, keyed, shared>>
      /\ visit' = [visit EXCEPT ![v].pc = "key"]
      /\ code' = IF code[p].no = k THEN [code EXCEPT ![p] = NoCode] ELSE code
  BY DEF RightCode, Admits, CodeOf, Goes, UpdateRow, Removed
<1>3. visit'[v].pc = "key" /\ \A w \in Visit : w # v => visit'[w] = visit[w]
  BY <1>2 DEF RequestsTyped, VisitRow
<1>4. code'[p].no # k /\ \A q \in Phone : code'[q] = code[q] \/ code'[q].no = 0
  BY <1>1, <1>2 DEF RequestsTyped, NoCode
<1>5. \A q \in Phone : codes[q] \in Nat /\ code[q].no \in Nat
  BY DEF RequestsTyped, CodeRow
<1>6. \A w \in Visit, q \in Phone, n \in 1 .. MaxCodes :
         HasCode(w, q, n)' <=> HasCode(w, q, n) \/ (w = v /\ q = p /\ n = k)
  BY <1>2 DEF HasCode
<1>7. \A w \in Visit, f \in Form : HasToken(w, f)' <=> HasToken(w, f)
  BY <1>2, Arity DEF HasToken
<1>8. ProofsKnown'
  <2>1. \A a \in admitted' : \/ \E w \in Visit, f \in Form : a = <<w, <<f>>>>
                             \/ \E w \in Visit, q \in Phone, n \in 1 .. MaxCodes : a = <<w, <<q, n>>>>
    BY <1>1, <1>2 DEF ProofsKnown
  <2>2. \A q \in Phone : code'[q].no <= codes'[q]
    BY <1>2, <1>4, <1>5 DEF ProofsKnown
  <2>3. \A w \in Visit : visit'[w].pc = "code" => visit'[w].code.no \in 1 .. codes'[visit'[w].phone]
    BY <1>2, <1>3 DEF ProofsKnown
  <2>4. \A w \in Visit, q \in Phone, n \in 1 .. MaxCodes : HasCode(w, q, n)' => n <= codes'[q]
    BY <1>1, <1>2, <1>6 DEF ProofsKnown
  <2> QED
    BY <2>1, <2>2, <2>3, <2>4 DEF ProofsKnown
<1>9. TokensOnce'
  BY <1>2, <1>7 DEF TokensOnce
<1>10. ASSUME NEW q \in Phone, NEW n \in 1 .. MaxCodes, <<q, n>> \notin shared'
       PROVE  /\ \A a, b \in Visit : InHand(a, q, n)' /\ InHand(b, q, n)' => a = b
              /\ \A a, b \in Visit : HasCode(a, q, n)' => ~InHand(b, q, n)' /\ code'[q].no # n
              /\ \A a, b \in Visit : HasCode(a, q, n)' /\ HasCode(b, q, n)' => a = b
  <2>1. <<q, n>> \notin shared
    BY <1>2, <1>10
  <2>2. \A a \in Visit : InHand(a, q, n)' => InHand(a, q, n) /\ a # v
    BY <1>3 DEF InHand
  <2>3. q = p /\ n = k => InHand(v, q, n)
    BY <1>1 DEF InHand
  <2>4. \A a, b \in Visit : InHand(a, q, n)' /\ InHand(b, q, n)' => a = b
    BY <2>1, <2>2 DEF CodesOnce
  <2>5. ASSUME NEW a \in Visit, NEW b \in Visit, HasCode(a, q, n)'
        PROVE  ~InHand(b, q, n)' /\ code'[q].no # n
    <3>1. CASE HasCode(a, q, n)
      BY <1>4, <2>1, <2>2, <3>1 DEF CodesOnce
    <3>2. CASE q = p /\ n = k
      BY <1>4, <2>1, <2>2, <2>3, <3>2 DEF CodesOnce
    <3> QED
      BY <1>6, <2>5, <3>1, <3>2
  <2>6. \A a, b \in Visit : HasCode(a, q, n)' /\ HasCode(b, q, n)' => a = b
    BY <1>6, <2>1, <2>3 DEF CodesOnce
  <2> QED
    BY <2>4, <2>5, <2>6
<1>11. CodesOnce'
  BY <1>10 DEF CodesOnce
<1> QED
  BY <1>8, <1>9, <1>11

LEMMA ConsumeStep ==
    ASSUME RequestsTyped, ProofsKnown, TokensOnce, CodesOnce, NEW v \in Visit, ConsumeToken(v)
    PROVE  (ProofsKnown /\ TokensOnce /\ CodesOnce)'
<1> DEFINE f == visit[v].form
<1>1. f \in Form
  BY DEF ConsumeToken, RequestsTyped
<1>2. \A p \in Phone : codes[p] \in Nat /\ code[p].no \in Nat /\ code[p].no <= codes[p]
  BY DEF RequestsTyped, CodeRow, ProofsKnown
<1>3. CASE ~Spendable(form[f])
  <2>1. UNCHANGED <<admitted, shared, codes, code, form>> /\ visit' = [visit EXCEPT ![v].pc = "done"]
    BY <1>3 DEF ConsumeToken, Goes
  <2>2. \A w \in Visit : visit'[w].pc # "code" \/ visit'[w] = visit[w]
    BY <2>1 DEF RequestsTyped, VisitRow
  <2> QED
    BY <1>2, <2>1, <2>2, NothingAdmitted
<1>4. CASE Spendable(form[f])
  <2>1. /\ admitted' = admitted \cup {<<v, <<f>>>>} /\ UNCHANGED <<shared, codes, code>>
        /\ form' = [form EXCEPT ![f].consumed = TRUE]
        /\ visit' = [visit EXCEPT ![v].pc = "free key"] \/ visit' = [visit EXCEPT ![v].pc = "key"]
    BY <1>4 DEF ConsumeToken, Admits, Goes
  <2>2. \A w \in Visit : visit'[w].pc # "code" \/ visit'[w] = visit[w]
    BY <2>1 DEF RequestsTyped, VisitRow
  <2>3. \A w \in Visit, p \in Phone, n \in 1 .. MaxCodes : HasCode(w, p, n)' <=> HasCode(w, p, n)
    BY <2>1, Arity DEF HasCode
  <2>4. \A w \in Visit, g \in Form : HasToken(w, g)' <=> HasToken(w, g) \/ (w = v /\ g = f)
    BY <2>1 DEF HasToken
  <2>5. /\ ~form[f].consumed /\ form'[f].consumed /\ form'[f].status = "verified"
        /\ \A g \in Form : g # f => form'[g] = form[g]
    BY <1>1, <1>4, <2>1 DEF Spendable, RequestsTyped
  <2>6. ProofsKnown'
    <3>1. \A a \in admitted' : \/ \E w \in Visit, g \in Form : a = <<w, <<g>>>>
                               \/ \E w \in Visit, q \in Phone, n \in 1 .. MaxCodes : a = <<w, <<q, n>>>>
      BY <1>1, <2>1 DEF ProofsKnown
    <3> QED
      BY <2>1, <2>2, <2>3, <3>1 DEF ProofsKnown
  <2>7. TokensOnce'
    BY <2>4, <2>5 DEF TokensOnce
  <2>8. \A w \in Visit, p \in Phone, n \in 1 .. MaxCodes : InHand(w, p, n)' => InHand(w, p, n)
    BY <2>2 DEF InHand
  <2>9. CodesOnce'
    BY <2>1, <2>3, <2>8 DEF CodesOnce
  <2> QED
    BY <2>6, <2>7, <2>9
<1> QED
  BY <1>3, <1>4

LEMMA AdmissionStep ==
    RequestsTyped /\ ProofsKnown /\ TokensOnce /\ CodesOnce /\ [ProofNext]_proofVars
        => (ProofsKnown /\ TokensOnce /\ CodesOnce)'
<1> SUFFICES ASSUME RequestsTyped, ProofsKnown, TokensOnce, CodesOnce, [ProofNext]_proofVars
             PROVE  (ProofsKnown /\ TokensOnce /\ CodesOnce)'
  OBVIOUS
<1>1. \A p \in Phone : codes[p] \in Nat /\ code[p].no \in Nat /\ code[p].no <= codes[p]
  BY DEF RequestsTyped, CodeRow, ProofsKnown
<1>2. \A v \in Visit : visit[v] \in VisitRow
  BY DEF RequestsTyped
<1>3. CASE UNCHANGED proofVars
  BY <1>1, <1>3, NothingAdmitted DEF proofVars
<1>4. ASSUME NEW p \in Phone, SendCode(p) PROVE (ProofsKnown /\ TokensOnce /\ CodesOnce)'
  <2>1. /\ codes' = [codes EXCEPT ![p] = codes[p] + 1] /\ UNCHANGED <<admitted, shared, visit, form>>
        /\ code' = [code EXCEPT ![p] = [no |-> codes[p] + 1, tries |-> 0, fresh |-> TRUE]]
    BY <1>4 DEF SendCode
  <2>2. \A q \in Phone : codes'[q] \in Nat /\ codes[q] <= codes'[q] /\ code'[q].no <= codes'[q]
                        /\ code'[q].no \in {0, code[q].no} \cup {n \in Nat : n > codes[q]}
    BY <1>1, <2>1 DEF RequestsTyped
  <2> QED
    BY <2>1, <2>2, NothingAdmitted
<1>5. ASSUME NEW p \in Phone, CodeExpires(p) PROVE (ProofsKnown /\ TokensOnce /\ CodesOnce)'
  <2>1. /\ UNCHANGED <<admitted, shared, visit, form, codes>>
        /\ code' = [code EXCEPT ![p].fresh = FALSE]
    BY <1>5 DEF CodeExpires
  <2>2. \A q \in Phone : code'[q].no = code[q].no
    BY <2>1 DEF RequestsTyped, CodeRow
  <2> QED
    BY <1>1, <2>1, <2>2, NothingAdmitted
<1>6. ASSUME NEW v \in Visit, DropCode(v) \/ WrongCode(v) PROVE (ProofsKnown /\ TokensOnce /\ CodesOnce)'
  <2>1. UNCHANGED <<admitted, shared, form, codes>> /\ visit' = [visit EXCEPT ![v].pc = "done"]
    BY <1>6 DEF DropCode, WrongCode, Goes
  <2>2. \A w \in Visit : visit'[w].pc # "code" \/ visit'[w] = visit[w]
    BY <1>2, <2>1 DEF RequestsTyped, VisitRow
  <2>3. \A q \in Phone : code'[q].no \in {0, code[q].no}
    BY <1>6 DEF DropCode, WrongCode, UpdateRow, NoCode, RequestsTyped, CodeRow
  <2>4. \A q \in Phone : 0 <= codes[q]
    BY <1>1
  <2> QED
    BY <1>1, <2>1, <2>2, <2>3, <2>4, NothingAdmitted
<1>7. ASSUME NEW v \in Visit, NoMember(v) \/ IssueKey(v) \/ VisitEnds(v) \/ WriteLink(v) \/ MarkVerified(v)
      PROVE  (ProofsKnown /\ TokensOnce /\ CodesOnce)'
  <2>1. UNCHANGED <<admitted, shared, codes, code>>
        /\ (visit' = [visit EXCEPT ![v].pc = "done"] \/ visit' = [visit EXCEPT ![v].pc = "told"])
    BY <1>7 DEF NoMember, IssueKey, VisitEnds, WriteLink, MarkVerified, Goes
  <2>2. \A w \in Visit : visit'[w].pc # "code" \/ visit'[w] = visit[w]
    BY <1>2, <2>1 DEF RequestsTyped, VisitRow
  <2> DEFINE f == visit[v].form
             linked == IF visit[v].status = "linked" THEN form[f].status ELSE "linked"
  <2>3. \/ form' = form
        \/ form' = [form EXCEPT ![f].status = linked]
        \/ form' = [form EXCEPT ![f].status = "verified", ![f].verified = TRUE]
    BY <1>7 DEF NoMember, IssueKey, VisitEnds, WriteLink, MarkVerified
  <2>4. \A g \in Form : /\ form'[g].consumed = form[g].consumed
                        /\ form'[g].status = "none" => form[g].status = "none"
    BY <2>3 DEF RequestsTyped
  <2> QED
    BY <1>1, <2>1, <2>2, <2>4, NothingAdmitted
<1>8. ASSUME NEW g \in Form, CreateVerification(g) \/ FormExpires(g)
      PROVE  (ProofsKnown /\ TokensOnce /\ CodesOnce)'
  <2>1. UNCHANGED <<admitted, shared, codes, code, visit>>
    BY <1>8 DEF CreateVerification, FormExpires
  <2>2. \A h \in Form : /\ form'[h].consumed = form[h].consumed
                        /\ form'[h].status = "none" => form[h].status = "none"
    <3>1. CASE FormExpires(g)
      BY <3>1 DEF FormExpires, RequestsTyped
    <3>2. CASE CreateVerification(g)
      <4> DEFINE t == [NoToken EXCEPT !.status = "pending", !.fresh = TRUE]
      <4>1. t.consumed = FALSE /\ t.status = "pending"
        BY DEF NoToken
      <4>2. form' = [form EXCEPT ![g] = t] /\ ~form[g].consumed
        BY <3>2 DEF CreateVerification, TokensOnce
      <4> HIDE DEF t
      <4> QED
        BY <4>1, <4>2 DEF RequestsTyped
    <3> QED
      BY <1>8, <3>1, <3>2
  <2> QED
    BY <1>1, <2>1, <2>2, NothingAdmitted
<1>9. ASSUME NEW v \in Visit, NEW g \in Form, NEW p \in Phone,
             \/ ReadLink(v, g) \/ CheckVerified(v, g) \/ CheckLinked(v, g)
             \/ ReadIssue(v, g, p) \/ ReadSignup(v, g, p)
      PROVE  (ProofsKnown /\ TokensOnce /\ CodesOnce)'
  <2>1. PICK pc \in {"link", "told", "channel", "issue", "signup"}, q \in Phone : ReadForm(v, g, q, pc)
    BY <1>9, NoVisitTyped, ProofAssumption
       DEF ReadLink, CheckVerified, CheckLinked, ReadIssue, ReadSignup, ProofAssumption
  <2> DEFINE h == [NoVisit EXCEPT !.pc = pc, !.form = g, !.phone = q, !.status = form[g].status]
  <2>2. h.pc # "code"
    BY DEF NoVisit
  <2>3. visit' = [visit EXCEPT ![v] = h] /\ UNCHANGED <<admitted, shared, codes, code, form>>
    BY <2>1 DEF ReadForm
  <2> HIDE DEF h
  <2>4. \A w \in Visit : visit'[w].pc # "code" \/ visit'[w] = visit[w]
    BY <2>2, <2>3 DEF RequestsTyped
  <2> QED
    BY <1>1, <2>3, <2>4, NothingAdmitted
<1>10. ASSUME NEW v \in Visit, NEW g \in Form, ReadLink(v, g) \/ CheckVerified(v, g) \/ CheckLinked(v, g)
       PROVE  (ProofsKnown /\ TokensOnce /\ CodesOnce)'
  BY <1>9, <1>10, ProofAssumption DEF ProofAssumption
<1>11. CASE ProofNext
  BY <1>4, <1>5, <1>6, <1>7, <1>8, <1>9, <1>10, <1>11, ReadCodeStep, RightCodeStep, ConsumeStep DEF ProofNext
<1> QED
  BY <1>3, <1>11

(* A token admits one request, however many look at it at once, and a code *)
(* too unless two requests had it in hand together.  What the proof adds   *)
(* to the property: a code somebody was admitted on is in nobody's hand,   *)
(* and its row is gone.                                                    *)
THEOREM AdmittedOnce == ProofSpec => []ProofAdmitsOnce
<1>1. ProofInit => RequestsTyped
  <2>1. Phone # {} /\ NoCode \in CodeRow /\ 0 \in 0 .. MaxCodes
    BY ProofAssumption DEF ProofAssumption, NoCode, CodeRow
  <2>2. NoToken \in [status : Statuses, verified : BOOLEAN, consumed : BOOLEAN, fresh : BOOLEAN]
    BY DEF NoToken, Statuses
  <2> QED
    BY <2>1, <2>2, NoVisitTyped DEF ProofInit, RequestsTyped
<1>2. ProofInit => ProofsKnown /\ TokensOnce /\ CodesOnce
  BY DEF ProofInit, ProofsKnown, TokensOnce, CodesOnce, HasToken, HasCode, InHand, NoCode, NoToken, NoVisit
<1>3. ProofsKnown /\ TokensOnce /\ CodesOnce => ProofAdmitsOnce
  <2> SUFFICES ASSUME ProofsKnown, TokensOnce, CodesOnce PROVE ProofAdmitsOnce
    OBVIOUS
  <2>1. ASSUME NEW a \in admitted, NEW b \in admitted, a[2] = b[2], a[2] \notin shared
        PROVE  a[1] = b[1]
    <3>1. CASE \E v \in Visit, f \in Form : a = <<v, <<f>>>>
      <4>1. PICK v \in Visit, f \in Form : a = <<v, <<f>>>>
        BY <3>1
      <4>2. PICK w \in Visit : b = <<w, <<f>>>>
        BY <2>1, <4>1, Arity DEF ProofsKnown
      <4> QED
        BY <4>1, <4>2 DEF TokensOnce, HasToken
    <3>2. CASE \E v \in Visit, p \in Phone, n \in 1 .. MaxCodes : a = <<v, <<p, n>>>>
      <4>1. PICK v \in Visit, p \in Phone, n \in 1 .. MaxCodes : a = <<v, <<p, n>>>>
        BY <3>2
      <4>2. PICK w \in Visit : b = <<w, <<p, n>>>>
        BY <2>1, <4>1, Arity DEF ProofsKnown
      <4> QED
        BY <2>1, <4>1, <4>2 DEF CodesOnce, HasCode
    <3> QED
      BY <3>1, <3>2 DEF ProofsKnown
  <2> QED
    BY <2>1 DEF ProofAdmitsOnce, TokensOnce, HasToken
<1> QED
  BY <1>1, <1>2, <1>3, RequestStepTyped, AdmissionStep, PTL DEF ProofSpec

-----------------------------------------------------------------------------
(* Signing an account in (AccountSignIn): types, for every number of       *)
(* workers, requests, keys and codes.                                      *)

Ats == {"idle", "open", "reload", "client", "sent", "snapshot", "signed", "dead", "is", "is not"}
RequestKinds == {"none", "send", "verify", "password", "check", "deliver"}
RowStatuses == {"pending_auth", "active", "inactive", "banned"}
RequestRow == [at : Ats, kind : RequestKinds, worker : Worker \cup {Resting.worker}, session : Key \cup {NoKey},
               status : RowStatuses \cup {"none"}, key : Key \cup {NoKey}, hash : 0 .. MaxSent]

(* A request at work runs in a worker, and once it has a client it has the *)
(* client's key.                                                           *)
AtWork(r) ==
    /\ r.at # "idle" => r.worker \in Worker
    /\ r.at \in {"client", "sent", "snapshot", "signed", "dead", "is", "is not"} => r.key \in Key
    /\ r.at # "idle" => r.status # "none"

SignTyped ==
    /\ SignTypeOK
    /\ sent \in [no : 0 .. MaxSent, key : Key \cup {NoKey}, valid : BOOLEAN]
    /\ sent.valid => sent.key \in Key
    /\ request \in [Request -> RequestRow] /\ \A q \in Request : AtWork(request[q])

(* A request at rest, and a step of a request.                             *)
LEMMA RestingRow == Resting \in RequestRow /\ AtWork(Resting) /\ Resting.at = "idle"
BY SignInAssumption DEF SignInAssumption, Resting, RequestRow, Ats, RequestKinds, AtWork

LEMMA RestsTyped ==
    ASSUME SignTyped, NEW q \in Request, Rests(q)
    PROVE  request' \in [Request -> RequestRow] /\ \A r \in Request : AtWork(request'[r])
BY RestingRow DEF SignTyped, Rests

LEMMA StepTyped ==
    ASSUME SignTyped, NEW q \in Request, NEW at \in Ats, Step(q, at), request[q].at # "idle",
           request[q].key \in Key \/ at \in {"idle", "open", "reload"}
    PROVE  request' \in [Request -> RequestRow] /\ \A r \in Request : AtWork(request'[r])
<1>1. request[q] \in RequestRow /\ AtWork(request[q])
  BY DEF SignTyped
<1>2. [request[q] EXCEPT !.at = at] \in RequestRow /\ AtWork([request[q] EXCEPT !.at = at])
  BY <1>1 DEF RequestRow, AtWork
<1>3. request' = [request EXCEPT ![q] = [request[q] EXCEPT !.at = at]]
  BY DEF Step
<1> QED
  BY <1>2, <1>3 DEF SignTyped

LEMMA SavedTyped ==
    ASSUME SignTyped
    PROVE  /\ saved.session \in Key \cup {NoKey} /\ saved.status \in RowStatuses
           /\ saved = [session |-> saved.session, status |-> saved.status]
           /\ \A k \in Key \cup {NoKey}, st \in RowStatuses :
                 [session |-> k, status |-> st] \in [session : Key \cup {NoKey}, status : RowStatuses]
BY DEF SignTyped, SignTypeOK, RowStatuses

(* What a request writes to the row. *)
LEMMA UpdatedTyped ==
    ASSUME SignTyped, NEW q \in Request, NEW k \in Key \cup {NoKey}, NEW st \in RowStatuses
    PROVE  /\ Updated(q, k, st) \in [session : Key \cup {NoKey}, status : RowStatuses]
           /\ k = saved.session => Updated(q, k, st).session = saved.session
<1>1. (IF k = NoKey /\ request[q].session = NoKey THEN saved.session ELSE k) \in Key \cup {NoKey}
  BY SavedTyped
<1>2. (IF st = request[q].status THEN saved.status ELSE st) \in RowStatuses
  BY SavedTyped
<1> QED
  BY <1>1, <1>2 DEF Updated

LEMMA SignStepTyped == SignTyped /\ [SignNext]_signVars => SignTyped'
<1> SUFFICES ASSUME SignTyped, [SignNext]_signVars PROVE SignTyped'
  OBVIOUS
<1> DEFINE RequestsOK == request \in [Request -> RequestRow] /\ \A q \in Request : AtWork(request[q])
<1>0. MaxSent \in Nat /\ 0 \in 0 .. MaxSent
  BY SignInAssumption DEF SignInAssumption
<1>1. ASSUME NEW q \in Request, NEW w \in Worker, NEW kind \in RequestKinds, Load(q, w, kind) PROVE SignTyped'
  <2> DEFINE row == [Resting EXCEPT !.at = IF kind = "deliver" /\ saved.session = NoKey THEN "reload" ELSE "open",
                                    !.kind = kind, !.worker = w,
                                    !.session = saved.session, !.status = saved.status]
  <2>1. row \in RequestRow /\ AtWork(row)
    <3>1. PICK at \in {"reload", "open"} :
             row = [Resting EXCEPT !.at = at, !.kind = kind, !.worker = w, !.session = saved.session,
                                   !.status = saved.status]
      OBVIOUS
    <3> HIDE DEF row
    <3>2. row = [at |-> at, kind |-> kind, worker |-> w, session |-> saved.session, status |-> saved.status,
                 key |-> NoKey, hash |-> 0]
      BY <3>1 DEF Resting
    <3>3. saved.session \in Key \cup {NoKey} /\ saved.status \in RowStatuses /\ saved.status # "none"
      BY SavedTyped DEF RowStatuses
    <3>4. row \in RequestRow
      BY <1>0, <3>2, <3>3 DEF RequestRow, Ats
    <3> QED
      BY <3>2, <3>3, <3>4 DEF AtWork
  <2>2. request' = [request EXCEPT ![q] = row]
    BY <1>1 DEF Load
  <2> HIDE DEF row
  <2>3. RequestsOK'
    BY <2>1, <2>2 DEF SignTyped
  <2> QED
    BY <1>1, <2>3 DEF Load, SignTyped, SignTypeOK
<1>2. ASSUME NEW q \in Request, NothingPending(q) \/ NothingDone(q) PROVE SignTyped'
  <2>1. RequestsOK'
    BY <1>2, RestsTyped DEF NothingPending, NothingDone
  <2> QED
    BY <1>2, <2>1 DEF NothingPending, NothingDone, SignTyped, SignTypeOK
<1>3. ASSUME NEW q \in Request, TakeClient(q) PROVE SignTyped'
  <2>1. PICK k \in Candidates(q) :
           /\ pooled' = [pooled EXCEPT ![By(q)] = k]
           /\ keyState' = [keyState EXCEPT ![k] = IF @ = "unused" THEN "fresh" ELSE @]
           /\ hash' = IF request[q].kind = "verify" THEN [hash EXCEPT ![By(q)] = Pending(By(q))] ELSE hash
           /\ request' = [request EXCEPT ![q].at = "client", ![q].key = k, ![q].hash = hash'[By(q)]]
    BY <1>3 DEF TakeClient
  <2>2. request[q] \in RequestRow /\ request[q].at = "open" /\ By(q) \in Worker
    BY <1>3 DEF TakeClient, SignTyped, AtWork, By
  <2>3. k \in Key
    <3>1. pooled[By(q)] \in Key \cup {NoKey} /\ request[q].session \in Key \cup {NoKey}
      BY <2>2 DEF SignTyped, SignTypeOK, RequestRow
    <3>2. NewKeys # {} => (CHOOSE x \in NewKeys : TRUE) \in Key
      BY DEF NewKeys
    <3> QED
      BY <3>1, <3>2 DEF Candidates
  <2>4. pooled' \in [Worker -> Key \cup {NoKey}]
    BY <2>1, <2>3 DEF SignTyped, SignTypeOK
  <2>5. keyState' \in [Key -> {"unused", "fresh", "password", "authorized", "dead"}]
    BY <2>1, <2>3 DEF SignTyped, SignTypeOK
  <2>6. Pending(By(q)) \in 0 .. MaxSent
    BY <2>2 DEF Pending, SignTyped, SignTypeOK
  <2>7. hash' \in [Worker -> 0 .. MaxSent]
    BY <2>1, <2>6 DEF SignTyped, SignTypeOK
  <2>8. RequestsOK'
    <3> DEFINE row == [request[q] EXCEPT !.at = "client", !.key = k, !.hash = hash'[By(q)]]
    <3>1. row \in RequestRow /\ AtWork(row)
      BY <2>2, <2>3, <2>7 DEF RequestRow, AtWork, Ats, By, SignTyped
    <3>2. request' = [request EXCEPT ![q].at = "client", ![q].key = k, ![q].hash = hash'[By(q)]]
      BY <2>1
    <3>3. request' = [request EXCEPT ![q] = row]
      BY <3>2
    <3> HIDE DEF row
    <3> QED
      BY <3>1, <3>3 DEF SignTyped
  <2> QED
    BY <1>3, <2>4, <2>5, <2>7, <2>8 DEF TakeClient, SignTyped, SignTypeOK
<1>4. ASSUME NEW q \in Request, RefuseClient(q) \/ NoConnection(q) PROVE SignTyped'
  <2>1. RequestsOK'
    BY <1>4, RestsTyped, StepTyped DEF RefuseClient, NoConnection, Ats
  <2>2. pooled' \in [Worker -> Key \cup {NoKey}] /\ hash' \in [Worker -> 0 .. MaxSent]
    BY <1>0, <1>4 DEF RefuseClient, NoConnection, SignTyped, SignTypeOK
  <2> QED
    BY <1>4, <2>1, <2>2 DEF RefuseClient, NoConnection, SignTyped, SignTypeOK
<1>5. ASSUME NEW q \in Request, ClearInvalid(q) PROVE SignTyped'
  <2>1. RequestsOK'
    BY <1>5, RestsTyped DEF ClearInvalid
  <2> QED
    BY <1>0, <1>5, <2>1 DEF ClearInvalid, SignTyped, SignTypeOK
<1>6. ASSUME NEW q \in Request, CodeSent(q) PROVE SignTyped'
  <2>1. request[q] \in RequestRow /\ request[q].key \in Key /\ request[q].worker \in Worker
        /\ AtWork(request[q])
    BY <1>6 DEF CodeSent, Asks, SignTyped, AtWork
  <2>4. sent.no + 1 \in 0 .. MaxSent
    BY <1>0, <1>6 DEF CodeSent, SignTyped
  <2>2. sent' \in [no : 0 .. MaxSent, key : Key \cup {NoKey}, valid : BOOLEAN] /\ sent'.key \in Key
    BY <1>6, <2>1, <2>4 DEF CodeSent
  <2>3. RequestsOK'
    <3> DEFINE row == [request[q] EXCEPT !.at = "sent", !.hash = sent.no + 1]
    <3>1. row \in RequestRow /\ AtWork(row)
      BY <1>6, <2>1, <2>4 DEF RequestRow, AtWork, Ats, CodeSent, Asks
    <3>2. request' = [request EXCEPT ![q] = row]
      BY <1>6 DEF CodeSent
    <3> HIDE DEF row
    <3> QED
      BY <3>1, <3>2 DEF SignTyped
  <2> QED
    BY <1>6, <2>2, <2>3 DEF CodeSent, SignTyped, SignTypeOK
<1>7. ASSUME NEW q \in Request, CodeAccepted(q) PROVE SignTyped'
  <2>1. request[q].key \in Key
    BY <1>7 DEF CodeAccepted, Asks, SignTyped, AtWork
  <2>2. PICK st \in {"password", "authorized"} :
           /\ keyState' = [keyState EXCEPT ![request[q].key] = IF @ = "authorized" THEN @ ELSE st]
           /\ Step(q, IF st = "password" THEN "snapshot" ELSE "signed")
    BY <1>7 DEF CodeAccepted
  <2>3. RequestsOK'
    BY <1>7, <2>1, <2>2, StepTyped DEF CodeAccepted, Asks, Ats
  <2>4. keyState' \in [Key -> {"unused", "fresh", "password", "authorized", "dead"}]
    BY <2>1, <2>2 DEF SignTyped, SignTypeOK
  <2> QED
    BY <1>7, <2>3, <2>4 DEF CodeAccepted, SignTyped, SignTypeOK
<1>8. ASSUME NEW q \in Request, PasswordAccepted(q) PROVE SignTyped'
  <2>1. request[q].key \in Key
    BY <1>8 DEF PasswordAccepted, Asks, SignTyped, AtWork
  <2>2. RequestsOK'
    BY <1>8, <2>1, StepTyped DEF PasswordAccepted, Asks, Ats
  <2>3. keyState' \in [Key -> {"unused", "fresh", "password", "authorized", "dead"}]
    BY <1>8, <2>1 DEF PasswordAccepted, SignTyped, SignTypeOK
  <2> QED
    BY <1>8, <2>2, <2>3 DEF PasswordAccepted, SignTyped, SignTypeOK
<1>9. ASSUME NEW q \in Request, CodeExpired(q) PROVE SignTyped'
  <2>1. RequestsOK'
    BY <1>9, RestsTyped DEF CodeExpired
  <2>2. hash' \in [Worker -> 0 .. MaxSent] /\ backup' \in 0 .. MaxSent /\ promised' \in 0 .. MaxSent
    <3>1. hash' = [hash EXCEPT ![By(q)] = 0] /\ backup' = 0 /\ promised' = 0
      BY <1>9 DEF CodeExpired
    <3> QED
      BY <1>0, <3>1 DEF SignTyped, SignTypeOK
  <2> QED
    BY <1>9, <2>1, <2>2 DEF CodeExpired, SignTyped, SignTypeOK
<1>10. ASSUME NEW q \in Request, KeyIsDead(q) PROVE SignTyped'
  <2>1. request[q].key \in Key
    BY <1>10 DEF KeyIsDead, SignTyped, AtWork
  <2>2. RequestsOK'
    BY <1>10, <2>1, StepTyped DEF KeyIsDead, Ats
  <2>3. pooled' \in [Worker -> Key \cup {NoKey}] /\ hash' \in [Worker -> 0 .. MaxSent] /\ promised' \in 0 .. MaxSent
    <3>1. pooled' = [pooled EXCEPT ![By(q)] = NoKey] /\ hash' = [hash EXCEPT ![By(q)] = 0] /\ promised' = 0
      BY <1>10 DEF KeyIsDead
    <3> QED
      BY <1>0, <3>1 DEF SignTyped, SignTypeOK
  <2> QED
    BY <1>10, <2>2, <2>3 DEF KeyIsDead, SignTyped, SignTypeOK
<1>11. ASSUME NEW q \in Request, Recover(q) \/ TurnsBanned(q) \/ AnswerStatus(q) PROVE SignTyped'
  <2>1. RequestsOK'
    BY <1>11, RestsTyped DEF Recover, TurnsBanned, AnswerStatus
  <2>2. saved' \in [session : Key \cup {NoKey}, status : {"pending_auth", "active", "inactive", "banned"}]
    <3>1. PICK k \in {NoKey, saved.session}, st \in {"inactive", "banned", "active"} : saved' = Updated(q, k, st)
      BY <1>11 DEF Recover, TurnsBanned, AnswerStatus
    <3>2. k \in Key \cup {NoKey} /\ st \in RowStatuses
      BY SavedTyped DEF RowStatuses
    <3> QED
      BY <3>1, <3>2, UpdatedTyped DEF RowStatuses
  <2> QED
    BY <1>11, <2>1, <2>2 DEF Recover, TurnsBanned, AnswerStatus, SignTyped, SignTypeOK
<1>12. ASSUME NEW q \in Request, Authorized(q) PROVE SignTyped'
  <2>1. request[q].key \in Key
    BY <1>12 DEF Authorized, Asks, SignTyped, AtWork
  <2>2. Step(q, IF HasKey(q, {"authorized"}) THEN "is" ELSE "is not")
    BY <1>12 DEF Authorized, Step
  <2>3. RequestsOK'
    BY <1>12, <2>1, <2>2, StepTyped DEF Authorized, Asks, Ats
  <2> QED
    BY <1>12, <2>3 DEF Authorized, SignTyped, SignTypeOK
<1>13. ASSUME NEW q \in Request, AnswerSent(q) \/ AnswerPassword(q) \/ AnswerSigned(q) PROVE SignTyped'
  <2>1. request[q] \in RequestRow /\ request[q].key \in Key
    BY <1>13 DEF AnswerSent, AnswerPassword, AnswerSigned, SignTyped, AtWork
  <2>2. RequestsOK'
    BY <1>13, RestsTyped DEF AnswerSent, AnswerPassword, AnswerSigned
  <2>3. saved' \in [session : Key \cup {NoKey}, status : {"pending_auth", "active", "inactive", "banned"}]
    <3>1. CASE saved' = Snapshot(q)
      BY <2>1, <3>1, SavedTyped DEF Snapshot, SignTyped, SignTypeOK
    <3>2. CASE saved' = Updated(q, request[q].key, "active")
      BY <2>1, <3>2, UpdatedTyped DEF RowStatuses
    <3> QED
      BY <1>13, <3>1, <3>2 DEF AnswerSent, AnswerPassword, AnswerSigned
  <2>4. hash' \in [Worker -> 0 .. MaxSent] /\ backup' \in 0 .. MaxSent /\ promised' \in 0 .. MaxSent
    <3>1. request[q].hash \in 0 .. MaxSent /\ 0 \in 0 .. MaxSent
      BY <1>0, <2>1 DEF RequestRow
    <3>2. CASE AnswerSent(q)
      BY <3>1, <3>2 DEF AnswerSent, SignTyped, SignTypeOK
    <3>3. CASE AnswerPassword(q)
      BY <3>3 DEF AnswerPassword, SignTyped, SignTypeOK
    <3>4. CASE AnswerSigned(q)
      <4>1. (hash' = [hash EXCEPT ![By(q)] = 0] /\ backup' = 0) \/ (hash' = hash /\ backup' = backup)
        BY <3>4 DEF AnswerSigned
      <4> QED
        BY <3>1, <3>4, <4>1 DEF AnswerSigned, SignTyped, SignTypeOK
    <3> QED
      BY <1>13, <3>2, <3>3, <3>4
  <2> QED
    BY <1>13, <2>2, <2>3, <2>4 DEF AnswerSent, AnswerPassword, AnswerSigned, SignTyped, SignTypeOK
<1>14. ASSUME NEW k \in Key, Revoke(k) PROVE SignTyped'
  BY <1>14 DEF Revoke, SignTyped, SignTypeOK
<1>15. ASSUME NEW w \in Worker, RestartWorker(w) PROVE SignTyped'
  <2>1. RequestsOK'
    BY <1>15, RestingRow DEF RestartWorker, SignTyped
  <2> QED
    BY <1>0, <1>15, <2>1 DEF RestartWorker, SignTyped, SignTypeOK
<1>16. CASE UNCHANGED signVars
  BY <1>16 DEF signVars, SignTyped, SignTypeOK
<1> QED
  BY <1>1, <1>2, <1>3, <1>4, <1>5, <1>6, <1>7, <1>8, <1>9, <1>10, <1>11, <1>12, <1>13, <1>14, <1>15, <1>16
     DEF SignNext, RequestKinds

-----------------------------------------------------------------------------
(* The code the user was told to enter is still good. *)
Outstanding == promised # 0 /\ sent.valid /\ sent.no = promised

(* While it is, nothing that a request in progress may yet do spoils it.   *)
SignInv ==
    /\ promised <= sent.no
    /\ Outstanding => /\ saved.session = sent.key /\ backup = promised
                      /\ \A w \in Worker : hash[w] \in {0, promised}
    /\ \A q \in Request : /\ request[q].at = "sent" => request[q].hash = sent.no /\ request[q].key = sent.key
                          /\ request[q].at = "snapshot" => ~sent.valid
                          /\ request[q].at = "dead" => promised = 0

(* One worker process, which has one request of the account at a time.     *)
(* With two of either the hash or the session of an older code may be      *)
(* saved over the newer one, and the property fails.                       *)
OneAtATime ==
    /\ \A v, w \in Worker : v = w
    /\ \A p, q \in Request : p = q

LEMMA SignInvStep ==
    ASSUME OneAtATime
    PROVE  SignInv /\ SignTyped /\ [SignNext]_signVars => SignInv'
<1> SUFFICES ASSUME SignInv, SignTyped, [SignNext]_signVars PROVE SignInv'
  OBVIOUS
<1>0. promised \in Nat /\ sent.no \in Nat /\ backup \in Nat /\ \A w \in Worker : hash[w] \in Nat
  BY SignInAssumption DEF SignInAssumption, SignTyped, SignTypeOK
<1>1. ASSUME NEW q \in Request, NEW w \in Worker, NEW kind \in RequestKinds, Load(q, w, kind) PROVE SignInv'
  <2>1. request'[q].at \in {"open", "reload"} /\ \A p \in Request : p = q
    BY <1>1, RestingRow DEF Load, SignTyped, OneAtATime, RequestRow
  <2> QED
    BY <1>1, <2>1 DEF Load, SignInv, Outstanding
<1>2. ASSUME NEW q \in Request, Rests(q), UNCHANGED <<sent>>, promised' \in {0, promised},
             promised' # 0 => /\ saved'.session = saved.session /\ backup' = backup
                              /\ \A w \in Worker : hash'[w] \in {0, hash[w]}
      PROVE  SignInv'
  <2>1. request'[q].at = "idle" /\ \A p \in Request : p = q
    BY <1>2, RestingRow DEF Rests, SignTyped, OneAtATime
  <2> QED
    BY <1>0, <1>2, <2>1 DEF SignInv, Outstanding
<1>3. ASSUME NEW q \in Request, TakeClient(q) PROVE SignInv'
  <2>1. request'[q].at = "client" /\ \A p \in Request : p = q
    BY <1>3 DEF TakeClient, SignTyped, OneAtATime, RequestRow
  <2>2. Outstanding => \A w \in Worker : hash'[w] \in {0, promised}
    BY <1>3 DEF TakeClient, SignInv, Pending, SignTyped, SignTypeOK
  <2> QED
    BY <1>3, <2>1, <2>2 DEF TakeClient, SignInv, Outstanding
<1>4. ASSUME NEW q \in Request, RefuseClient(q) PROVE SignInv'
  <2>1. \A w \in Worker : hash'[w] \in {0, hash[w]}
    BY <1>4 DEF RefuseClient, SignTyped, SignTypeOK
  <2>2. CASE Rests(q)
    BY <1>2, <1>4, <2>1, <2>2 DEF RefuseClient
  <2>3. CASE Step(q, "reload")
    <3>1. request'[q].at = "reload" /\ \A p \in Request : p = q
      BY <2>3 DEF Step, SignTyped, OneAtATime, RequestRow
    <3> QED
      BY <1>0, <1>4, <2>1, <3>1 DEF RefuseClient, SignInv, Outstanding
  <2> QED
    BY <1>4, <2>2, <2>3 DEF RefuseClient
<1>5. ASSUME NEW q \in Request, NoConnection(q) PROVE SignInv'
  <2>1. \A w \in Worker : hash'[w] \in {0, hash[w]}
    BY <1>5 DEF NoConnection, SignTyped, SignTypeOK
  <2> QED
    BY <1>2, <1>5, <2>1 DEF NoConnection
<1>6. ASSUME NEW q \in Request, CodeSent(q) PROVE SignInv'
  <2>1. request[q] \in RequestRow /\ \A p \in Request : p = q
    BY DEF SignTyped, OneAtATime
  <2>2. request'[q].at = "sent" /\ request'[q].hash = sent.no + 1 /\ request'[q].key = request[q].key
    BY <1>6, <2>1 DEF CodeSent, SignTyped, RequestRow
  <2>3. sent'.no = sent.no + 1 /\ sent'.key = request[q].key /\ promised' = promised
    BY <1>6 DEF CodeSent
  <2> QED
    BY <1>0, <2>1, <2>2, <2>3 DEF SignInv, Outstanding
<1>7. ASSUME NEW q \in Request, CodeAccepted(q) PROVE SignInv'
  <2>1. PICK at \in {"snapshot", "signed"} : Step(q, at)
    BY <1>7 DEF CodeAccepted
  <2>2. request'[q].at \in {"snapshot", "signed"} /\ \A p \in Request : p = q
    BY <2>1 DEF Step, SignTyped, RequestRow, OneAtATime
  <2>3. ~sent'.valid /\ sent'.no = sent.no /\ promised' = promised
    BY <1>7 DEF CodeAccepted, SignTyped
  <2> QED
    BY <2>2, <2>3 DEF SignInv, Outstanding
<1>8. ASSUME NEW q \in Request, PasswordAccepted(q) \/ Authorized(q) PROVE SignInv'
  <2>1. \E at \in {"signed", "is", "is not"} : request' = [request EXCEPT ![q].at = at]
    BY <1>8 DEF PasswordAccepted, Authorized, Step
  <2>2. request'[q].at \in {"signed", "is", "is not"} /\ \A p \in Request : p = q
    BY <2>1 DEF SignTyped, RequestRow, OneAtATime
  <2> QED
    BY <1>8, <2>2 DEF PasswordAccepted, Authorized, SignInv, Outstanding
<1>9. ASSUME NEW q \in Request, KeyIsDead(q) PROVE SignInv'
  <2>1. request'[q].at = "dead" /\ \A p \in Request : p = q
    BY <1>9 DEF KeyIsDead, Step, SignTyped, RequestRow, OneAtATime
  <2> QED
    BY <1>0, <1>9, <2>1 DEF KeyIsDead, SignInv, Outstanding
<1>10. ASSUME NEW q \in Request, Recover(q) PROVE SignInv'
  BY <1>2, <1>10 DEF Recover, SignInv
<1>11. ASSUME NEW q \in Request, TurnsBanned(q) \/ AnswerStatus(q) PROVE SignInv'
  <2>1. saved'.session = saved.session
    <3>1. PICK st \in {"inactive", "banned", "active"} : saved' = Updated(q, saved.session, st)
      BY <1>11 DEF TurnsBanned, AnswerStatus
    <3>2. saved.session \in Key \cup {NoKey} /\ st \in RowStatuses
      BY SavedTyped DEF RowStatuses
    <3> QED
      BY <3>1, <3>2, UpdatedTyped
  <2> QED
    BY <1>2, <1>11, <2>1 DEF TurnsBanned, AnswerStatus
<1>12. ASSUME NEW q \in Request, ClearInvalid(q) \/ CodeExpired(q) \/ AnswerSigned(q) PROVE SignInv'
  BY <1>2, <1>12 DEF ClearInvalid, CodeExpired, AnswerSigned
<1>13. ASSUME NEW q \in Request, NothingPending(q) \/ NothingDone(q) PROVE SignInv'
  BY <1>2, <1>13 DEF NothingPending, NothingDone
<1>14. ASSUME NEW q \in Request, AnswerSent(q) PROVE SignInv'
  <2>1. request[q].hash = sent.no /\ request[q].key = sent.key /\ By(q) \in Worker
    BY <1>14 DEF AnswerSent, SignInv, SignTyped, AtWork, By
  <2>2. \A w \in Worker : hash'[w] = sent.no
    BY <1>14, <2>1 DEF AnswerSent, OneAtATime, SignTyped, SignTypeOK
  <2>3. saved'.session = sent.key /\ backup' = sent.no /\ promised' = sent.no /\ sent' = sent
    BY <1>14, <2>1 DEF AnswerSent, Snapshot, SignTyped, SignTypeOK
  <2>4. request'[q].at = "idle" /\ \A p \in Request : p = q
    BY <1>14, RestingRow DEF AnswerSent, Rests, SignTyped, OneAtATime
  <2> QED
    BY <1>0, <2>2, <2>3, <2>4 DEF SignInv, Outstanding
<1>15. ASSUME NEW q \in Request, AnswerPassword(q) PROVE SignInv'
  <2>1. ~sent.valid
    BY <1>15 DEF AnswerPassword, SignInv
  <2>2. request'[q].at = "idle" /\ \A p \in Request : p = q
    BY <1>15, RestingRow DEF AnswerPassword, Rests, SignTyped, OneAtATime
  <2> QED
    BY <1>15, <2>1, <2>2 DEF AnswerPassword, SignInv, Outstanding
<1>16. ASSUME NEW k \in Key, Revoke(k) PROVE SignInv'
  BY <1>16 DEF Revoke, SignInv, Outstanding
<1>17. ASSUME NEW w \in Worker, RestartWorker(w) PROVE SignInv'
  <2>1. \A q \in Request : request'[q] = request[q] \/ request'[q].at = "idle"
    BY <1>17, RestingRow DEF RestartWorker
  <2>2. \A v \in Worker : hash'[v] \in {0, hash[v]}
    BY <1>17 DEF RestartWorker, SignTyped, SignTypeOK
  <2> QED
    BY <1>17, <2>1, <2>2 DEF RestartWorker, SignInv, Outstanding
<1>18. CASE UNCHANGED signVars
  BY <1>18 DEF signVars, SignInv, Outstanding
<1> QED
  BY <1>1, <1>3, <1>4, <1>5, <1>6, <1>7, <1>8, <1>9, <1>10, <1>11, <1>12, <1>13, <1>14, <1>15, <1>16, <1>17, <1>18
     DEF SignNext, RequestKinds

LEMMA SignStarts == SignInit => SignTyped /\ SignInv
<1> SUFFICES ASSUME SignInit PROVE SignTyped /\ SignInv
  OBVIOUS
<1>1. request \in [Request -> RequestRow] /\ \A q \in Request : AtWork(request[q]) /\ request[q].at = "idle"
  BY RestingRow DEF SignInit
<1> QED
  BY <1>1, SignInAssumption DEF SignInit, SignTyped, SignTypeOK, SignInv, Outstanding, SignInAssumption

LEMMA SignHolds == SignSpec => []SignTyped
<1>1. SignInit => SignTyped
  BY SignStarts
<1> QED
  BY <1>1, SignStepTyped, PTL DEF SignSpec

(* Every variable of the sign-in keeps its type, whatever the order of the *)
(* requests and however many workers there are.                            *)
THEOREM SignInKeepsType == SignSpec => []SignTypeOK
<1>1. SignTyped => SignTypeOK
  BY DEF SignTyped
<1> QED
  BY <1>1, SignHolds, PTL

(* While the code the user was told to enter is good, verify-code finds    *)
(* its hash and the saved session is the one it goes with - whatever       *)
(* restarts, refusals, expiries and status checks happen in between - if   *)
(* one worker handles one request of the account at a time.                *)
THEOREM CodeCanBeEntered == ASSUME OneAtATime PROVE SignSpec => []SignInResumes
<1>1. SignInit => SignInv
  BY SignStarts
<1>2. SignInv /\ SignTyped /\ [SignNext]_signVars => SignInv'
  BY SignInvStep
<1>3. SignInv /\ SignTyped => SignInResumes
  BY SignInAssumption DEF SignInv, SignTyped, SignTypeOK, SignInResumes, Outstanding, Pending, SignInAssumption
<1> QED
  BY <1>1, <1>2, <1>3, SignHolds, PTL DEF SignSpec

(* A request that has taken a client.                                      *)
HasClient == {"client", "sent", "snapshot", "signed", "dead", "is", "is not"}

(* What a request has read is what is saved, its client is the one of the  *)
(* saved session, and it is about to clear that session only when Telegram *)
(* has refused it.                                                         *)
AsRead(q) ==
    /\ request[q].at # "idle" => request[q].session = saved.session
    /\ request[q].at \in HasClient => /\ saved.session # NoKey => request[q].key = saved.session
                                      /\ \A w \in Worker : pooled[w] \in {NoKey, request[q].key}
    /\ request[q].at = "dead" => keyState[request[q].key] = "dead"
    /\ request[q].at = "reload" /\ saved.session # NoKey => keyState[saved.session] # "authorized"

ClearInv ==
    /\ saved.session # NoKey => \A w \in Worker : pooled[w] \in {NoKey, saved.session}
    /\ \A q \in Request : AsRead(q)

(* A request ends, with at most its own key saved.                         *)
LEMMA EndsAsRead ==
    ASSUME OneAtATime, ClearInv, SignTyped, NEW q \in Request, Rests(q),
           \A w \in Worker : pooled'[w] \in {NoKey, pooled[w]},
           \/ saved'.session \in {NoKey, saved.session}
           \/ request[q].at \in HasClient /\ saved'.session = request[q].key
    PROVE  ClearInv'
<1>1. request'[q].at = "idle" /\ \A p \in Request : p = q
  BY RestingRow DEF Rests, SignTyped, OneAtATime
<1>2. \A p \in Request : AsRead(p)'
  BY <1>1 DEF AsRead, HasClient
<1>3. saved'.session # NoKey => \A w \in Worker : pooled'[w] \in {NoKey, saved'.session}
  BY DEF ClearInv, AsRead
<1> QED
  BY <1>2, <1>3 DEF ClearInv

(* A request goes on with the client it has.                               *)
LEMMA GoesOnAsRead ==
    ASSUME OneAtATime, ClearInv, SignTyped, NEW q \in Request, request[q].at \in HasClient,
           request'[q].at \in HasClient \ {"dead"},
           request'[q].session = request[q].session, request'[q].key = request[q].key,
           UNCHANGED <<saved, pooled>>
    PROVE  ClearInv'
<1>1. \A p \in Request : p = q
  BY DEF OneAtATime
<1>2. AsRead(q)'
  BY DEF ClearInv, AsRead, HasClient
<1> QED
  BY <1>1, <1>2 DEF ClearInv

(* What the steps that end a request do to the row and to the pool.        *)
LEMMA EndsSaved ==
    ASSUME SignTyped, NEW q \in Request,
           \/ NothingPending(q) \/ NoConnection(q) \/ ClearInvalid(q) \/ CodeExpired(q) \/ NothingDone(q)
           \/ Recover(q) \/ TurnsBanned(q) \/ AnswerSent(q) \/ AnswerPassword(q) \/ AnswerSigned(q)
           \/ AnswerStatus(q)
    PROVE  /\ Rests(q) /\ \A w \in Worker : pooled'[w] \in {NoKey, pooled[w]}
           /\ \/ saved'.session = saved.session
              \/ saved'.session = NoKey /\ (ClearInvalid(q) \/ Recover(q))
              \/ /\ request[q].at \in HasClient /\ saved'.session = request[q].key
                 /\ request[q].key # NoKey
<1>1. pooled \in [Worker -> Key \cup {NoKey}] /\ NoKey \notin Key
      /\ (request[q].at \in HasClient => request[q].key \in Key)
  BY SignInAssumption DEF SignInAssumption, SignTyped, SignTypeOK, AtWork, HasClient
<1>2. CASE NothingPending(q) \/ NoConnection(q) \/ CodeExpired(q) \/ NothingDone(q)
  BY <1>1, <1>2 DEF NothingPending, NoConnection, CodeExpired, NothingDone
<1>3. CASE ClearInvalid(q)
  BY <1>3 DEF ClearInvalid
<1>4. CASE Recover(q)
  <2>1. saved'.session \in {NoKey, saved.session}
    BY <1>4 DEF Recover, Updated
  <2> QED
    BY <1>4, <2>1 DEF Recover
<1>5. CASE TurnsBanned(q) \/ AnswerStatus(q)
  <2>1. PICK st \in {"inactive", "banned", "active"} : saved' = Updated(q, saved.session, st)
    BY <1>5 DEF TurnsBanned, AnswerStatus
  <2>2. saved.session \in Key \cup {NoKey} /\ st \in RowStatuses
    BY SavedTyped DEF RowStatuses
  <2>3. saved'.session = saved.session
    BY <2>1, <2>2, UpdatedTyped
  <2> QED
    BY <1>5, <2>3 DEF TurnsBanned, AnswerStatus
<1>6. CASE AnswerSent(q) \/ AnswerPassword(q)
  <2>1. request[q].at \in HasClient /\ saved' = Snapshot(q)
    BY <1>6 DEF AnswerSent, AnswerPassword, HasClient
  <2>2. saved'.session = request[q].key
    BY <2>1, SavedTyped DEF Snapshot, SignTyped, SignTypeOK
  <2> QED
    BY <1>1, <1>6, <2>1, <2>2 DEF AnswerSent, AnswerPassword
<1>7. CASE AnswerSigned(q)
  <2>1. request[q].at \in HasClient /\ saved'.session = request[q].key
    BY <1>1, <1>7 DEF AnswerSigned, HasClient, Updated
  <2> QED
    BY <1>1, <1>7, <2>1 DEF AnswerSigned
<1> QED
  BY <1>2, <1>3, <1>4, <1>5, <1>6, <1>7

LEMMA ClearInvStep ==
    ASSUME OneAtATime
    PROVE  ClearInv /\ SignTyped /\ [SignNext]_signVars => ClearInv'
<1> SUFFICES ASSUME ClearInv, SignTyped, [SignNext]_signVars PROVE ClearInv'
  OBVIOUS
<1>0. /\ request \in [Request -> RequestRow] /\ pooled \in [Worker -> Key \cup {NoKey}]
      /\ keyState \in [Key -> {"unused", "fresh", "password", "authorized", "dead"}]
      /\ saved.session \in Key \cup {NoKey} /\ NoKey \notin Key
      /\ \A p, q \in Request : p = q
  BY SignInAssumption, SavedTyped DEF SignInAssumption, SignTyped, SignTypeOK, OneAtATime
<1>1. ASSUME NEW q \in Request, NEW w \in Worker, NEW kind \in RequestKinds, Load(q, w, kind)
      PROVE  ClearInv'
  <2>1. /\ request'[q].at \in {"open", "reload"} /\ request'[q].session = saved.session
        /\ request'[q].at = "reload" => saved.session = NoKey
    BY <1>0, <1>1, RestingRow DEF Load, RequestRow, Resting
  <2> QED
    BY <1>0, <1>1, <2>1 DEF Load, ClearInv, AsRead, HasClient
<1>2. ASSUME NEW q \in Request, TakeClient(q) PROVE ClearInv'
  <2>0. PICK k \in Candidates(q) :
           /\ pooled' = [pooled EXCEPT ![By(q)] = k] /\ saved' = saved
           /\ request' = [request EXCEPT ![q].at = "client", ![q].key = k, ![q].hash = hash'[By(q)]]
    BY <1>2 DEF TakeClient
  <2>1. /\ request'[q].key = k /\ request'[q].at = "client"
        /\ request'[q].session = request[q].session
    <3>1. request[q] \in RequestRow
      BY <1>0
    <3> QED
      BY <1>0, <2>0, <3>1 DEF RequestRow
  <2>2. By(q) \in Worker /\ request[q].session = saved.session
    BY <1>2 DEF TakeClient, SignTyped, AtWork, By, ClearInv, AsRead
  <2>3. saved.session # NoKey => k = saved.session
    BY <2>2 DEF Candidates, ClearInv
  <2>4. \A w \in Worker : pooled'[w] = k
    BY <1>0, <2>0, <2>2 DEF OneAtATime
  <2> QED
    BY <1>0, <2>0, <2>1, <2>2, <2>3, <2>4 DEF ClearInv, AsRead, HasClient
<1>3. ASSUME NEW q \in Request, RefuseClient(q) PROVE ClearInv'
  <2>1. By(q) \in Worker /\ request[q].session = saved.session
    BY <1>3 DEF RefuseClient, SignTyped, AtWork, By, ClearInv, AsRead
  <2>2. \A w \in Worker : pooled'[w] \in {NoKey, pooled[w]}
    BY <1>0, <1>3 DEF RefuseClient
  <2>3. CASE Rests(q)
    BY <1>3, <2>2, <2>3, EndsAsRead DEF RefuseClient
  <2>4. CASE Step(q, "reload")
    <3>1. PICK k \in Candidates(q) : ~Trusts(q, k)
      BY <1>3 DEF RefuseClient
    <3>2. saved.session # NoKey => k = saved.session
      BY <2>1, <3>1 DEF Candidates, ClearInv
    <3>3. saved.session # NoKey => keyState[saved.session] # "authorized"
      BY <3>1, <3>2 DEF Trusts
    <3>4. request'[q].at = "reload" /\ request'[q].session = saved.session
      BY <1>0, <2>1, <2>4 DEF Step, RequestRow
    <3> QED
      BY <1>0, <1>3, <2>2, <3>3, <3>4 DEF RefuseClient, ClearInv, AsRead, HasClient
  <2> QED
    BY <1>3, <2>3, <2>4 DEF RefuseClient
<1>4. ASSUME NEW q \in Request, CodeSent(q) \/ CodeAccepted(q) \/ PasswordAccepted(q) \/ Authorized(q)
      PROVE  ClearInv'
  <2>1. request[q].at \in HasClient /\ UNCHANGED <<saved, pooled>>
    BY <1>4 DEF CodeSent, CodeAccepted, PasswordAccepted, Authorized, Asks, HasClient
  <2>2. /\ request'[q].at \in {"sent", "snapshot", "signed", "is", "is not"}
        /\ request'[q].session = request[q].session /\ request'[q].key = request[q].key
    <3>1. CASE CodeSent(q)
      BY <1>0, <3>1 DEF CodeSent, RequestRow
    <3>2. CASE CodeAccepted(q) \/ PasswordAccepted(q) \/ Authorized(q)
      <4>1. PICK at \in {"snapshot", "signed", "is", "is not"} : request' = [request EXCEPT ![q].at = at]
        BY <3>2 DEF CodeAccepted, PasswordAccepted, Authorized, Step
      <4>2. request[q] \in RequestRow /\ request \in [Request -> RequestRow]
        BY <1>0
      <4>3. request'[q] = [request[q] EXCEPT !.at = at]
        BY <4>1, <4>2
      <4> QED
        BY <4>2, <4>3 DEF RequestRow
    <3> QED
      BY <1>4, <3>1, <3>2
  <2> QED
    BY <2>1, <2>2, GoesOnAsRead DEF HasClient
<1>5. ASSUME NEW q \in Request, KeyIsDead(q) PROVE ClearInv'
  <2>1. /\ request'[q].at = "dead" /\ request'[q].session = request[q].session
        /\ request'[q].key = request[q].key
    BY <1>0, <1>5 DEF KeyIsDead, Step, RequestRow
  <2>2. /\ request[q].at = "client" /\ keyState[request[q].key] = "dead" /\ UNCHANGED <<saved, keyState>>
        /\ \A w \in Worker : pooled'[w] \in {NoKey, pooled[w]}
    BY <1>0, <1>5 DEF KeyIsDead, HasKey
  <2>3. AsRead(q)
    BY DEF ClearInv
  <2> QED
    BY <1>0, <2>1, <2>2, <2>3 DEF ClearInv, AsRead, HasClient
<1>6. ASSUME NEW q \in Request,
             \/ NothingPending(q) \/ NoConnection(q) \/ ClearInvalid(q) \/ CodeExpired(q) \/ NothingDone(q)
             \/ Recover(q) \/ TurnsBanned(q) \/ AnswerSent(q) \/ AnswerPassword(q) \/ AnswerSigned(q)
             \/ AnswerStatus(q)
      PROVE  ClearInv'
  BY <1>6, EndsSaved, EndsAsRead
<1>7. ASSUME NEW k \in Key, Revoke(k) PROVE ClearInv'
  <2>1. \A j \in Key : keyState'[j] = keyState[j] \/ (keyState'[j] = "dead" /\ keyState[j] = "authorized")
    BY <1>0, <1>7 DEF Revoke
  <2>2. UNCHANGED <<saved, pooled, request>>
    BY <1>7 DEF Revoke
  <2>3. ASSUME NEW q \in Request PROVE AsRead(q)'
    <3>1. request[q].at = "dead" => request[q].key \in Key
      BY DEF SignTyped, AtWork
    <3> QED
      BY <1>0, <2>1, <2>2, <3>1 DEF ClearInv, AsRead
  <2> QED
    BY <2>2, <2>3 DEF ClearInv
<1>8. ASSUME NEW w \in Worker, RestartWorker(w) PROVE ClearInv'
  <2>1. \A q \in Request : request'[q] = request[q] \/ request'[q].at = "idle"
    BY <1>8, RestingRow DEF RestartWorker
  <2>2. \A v \in Worker : pooled'[v] \in {NoKey, pooled[v]}
    BY <1>0, <1>8 DEF RestartWorker
  <2>3. UNCHANGED <<saved, keyState>>
    BY <1>8 DEF RestartWorker
  <2>4. ASSUME NEW q \in Request PROVE AsRead(q)'
    <3>1. AsRead(q) /\ (request'[q] = request[q] \/ request'[q].at = "idle")
      BY <2>1 DEF ClearInv
    <3>2. CASE request'[q].at = "idle"
      BY <3>2 DEF AsRead, HasClient
    <3>3. CASE request'[q] = request[q]
      BY <2>2, <2>3, <3>1, <3>3 DEF AsRead
    <3> QED
      BY <3>1, <3>2, <3>3
  <2> QED
    BY <2>2, <2>3, <2>4 DEF ClearInv
<1>9. CASE UNCHANGED signVars
  BY <1>9 DEF signVars, ClearInv, AsRead
<1> QED
  BY <1>1, <1>2, <1>3, <1>4, <1>5, <1>6, <1>7, <1>8, <1>9 DEF SignNext, RequestKinds

(* A session that is cleared as invalid is one that Telegram has refused   *)
(* (_recover_from_dead_session, mark_account_session_invalid), if one      *)
(* worker handles one request of the account at a time.  With two at once  *)
(* it need not be: that is what OnlyInvalidCleared fails of.               *)
THEOREM OnlyInvalidIsCleared == ASSUME OneAtATime PROVE SignSpec => OnlyInvalidCleared
<1>1. SignInit => ClearInv
  BY RestingRow DEF SignInit, ClearInv, AsRead, HasClient
<1>2. ASSUME ClearInv, SignTyped, [SignNext]_signVars, saved.session # NoKey, saved'.session = NoKey
      PROVE  keyState[saved.session] # "authorized"
  <2>1. ASSUME NEW q \in Request, ClearInvalid(q) \/ Recover(q) PROVE keyState[saved.session] # "authorized"
    BY <1>2, <2>1 DEF ClearInvalid, Recover, ClearInv, AsRead, HasClient
  <2>2. ASSUME NEW q \in Request,
               \/ NothingPending(q) \/ NoConnection(q) \/ ClearInvalid(q) \/ CodeExpired(q) \/ NothingDone(q)
               \/ Recover(q) \/ TurnsBanned(q) \/ AnswerSent(q) \/ AnswerPassword(q) \/ AnswerSigned(q)
               \/ AnswerStatus(q)
        PROVE  ClearInvalid(q) \/ Recover(q)
    BY <1>2, <2>2, EndsSaved
  <2>3. ASSUME NEW q \in Request,
               \/ \E w \in Worker, kind \in RequestKinds : Load(q, w, kind)
               \/ TakeClient(q) \/ RefuseClient(q) \/ CodeSent(q) \/ CodeAccepted(q) \/ PasswordAccepted(q)
               \/ KeyIsDead(q) \/ Authorized(q)
        PROVE  FALSE
    BY <1>2, <2>3 DEF Load, TakeClient, RefuseClient, CodeSent, CodeAccepted, PasswordAccepted, KeyIsDead, Authorized
  <2>4. ~(\E k \in Key : Revoke(k)) /\ ~(\E w \in Worker : RestartWorker(w)) /\ ~UNCHANGED signVars
    BY <1>2 DEF Revoke, RestartWorker, signVars
  <2> QED
    BY <1>2, <2>1, <2>2, <2>3, <2>4 DEF SignNext, RequestKinds
<1>3. ClearInv /\ SignTyped /\ [SignNext]_signVars =>
        [saved.status = "active" /\ saved.session # NoKey /\ saved'.session = NoKey
           => keyState[saved.session] # "authorized"]_signVars
  BY <1>2
<1> QED
  BY <1>1, <1>3, ClearInvStep, SignHolds, PTL DEF SignSpec, OnlyInvalidCleared

-----------------------------------------------------------------------------
(* The parts together, for every value of all their constants.  MCServices *)
(* follows one part in each behaviour; here all of them are at work and    *)
(* interleave as they please.                                              *)
allServiceVars == <<vars, moneyVars, accountVars>>

AllServicesNext ==
    \/ Next /\ UNCHANGED <<moneyVars, accountVars>>
    \/ StarsNext /\ UNCHANGED <<vars, ledgerVars, creditVars, accountVars>>
    \/ LedgerNext /\ UNCHANGED <<vars, starsVars, creditVars, accountVars>>
    \/ CreditNext /\ UNCHANGED <<vars, starsVars, ledgerVars, accountVars>>
    \/ SessionNext /\ UNCHANGED <<vars, moneyVars, proofVars, connVars, signVars>>
    \/ ProofNext /\ UNCHANGED <<vars, moneyVars, sessionVars, connVars, signVars>>
    \/ ConnNext /\ UNCHANGED <<vars, moneyVars, sessionVars, proofVars, signVars>>
    \/ SignNext /\ UNCHANGED <<vars, moneyVars, sessionVars, proofVars, connVars>>

AllServicesSpec ==
    /\ Init /\ StarsInit /\ LedgerInit /\ CreditInit
    /\ SessionInit /\ ProofInit /\ ConnInit /\ SignInit
    /\ [][AllServicesNext]_allServiceVars

(* A step of the whole is a step of every part, or leaves the part alone.  *)
LEMMA AllServicesStep ==
    [AllServicesNext]_allServiceVars =>
        /\ [Next]_vars /\ [StarsNext]_starsVars /\ [LedgerNext]_ledgerVars /\ [CreditNext]_creditVars
        /\ [SessionNext]_sessionVars /\ [ProofNext]_proofVars /\ [ConnNext]_connVars /\ [SignNext]_signVars
BY DEF AllServicesNext, allServiceVars, moneyVars, accountVars

LEMMA AllServicesKeepSpecs ==
    AllServicesSpec => /\ Spec /\ StarsSpec /\ LedgerSpec /\ CreditSpec
                       /\ SessionSpec /\ ProofSpec /\ ConnSpec /\ SignSpec
BY AllServicesStep, PTL
   DEF AllServicesSpec, Spec, StarsSpec, LedgerSpec, CreditSpec, SessionSpec, ProofSpec, ConnSpec, SignSpec

(* What the run follows is one of these behaviours, so that whatever is    *)
(* proved of the whole holds of the run, whatever instance it checks.      *)
LEMMA ServicesAreFollowed == ServicesSpec => AllServicesSpec
<1>1. ServicesInit => /\ Init /\ StarsInit /\ LedgerInit /\ CreditInit
                      /\ SessionInit /\ ProofInit /\ ConnInit /\ SignInit
  BY DEF ServicesInit
<1>2. [ServicesNext]_serviceVars => [AllServicesNext]_allServiceVars
  BY DEF ServicesNext, serviceVars, AllServicesNext, allServiceVars
<1> QED
  BY <1>1, <1>2, PTL DEF ServicesSpec, AllServicesSpec

LEMMA AllServicesKeepType == AllServicesSpec => []ServicesTypeOK
<1>1. /\ TypeOK /\ StarsTypeOK /\ LedgerTypeOK /\ CreditTypeOK
      /\ SessionTypeOK /\ ProofTypeOK /\ ConnTypeOK /\ SignTypeOK
      => ServicesTypeOK
  BY DEF ServicesTypeOK
<1> QED
  BY <1>1, AllServicesKeepSpecs, DeliveryTyped, StarsKeepType, LedgerKeepsType, CreditsKeepType,
     SessionsKeepType, ProofsTyped, ConnectionsTyped, SignInKeepsType, PTL

(* Every variable of a delivery, of wallets, commissions and credits, and  *)
(* of sessions, proofs, connections and sign-ins keeps its type, whichever *)
(* of them is followed.                                                    *)
THEOREM ServicesKeepType == ServicesSpec => []ServicesTypeOK
BY ServicesAreFollowed, AllServicesKeepType, PTL

(* What is promised of each service holds while all of them are at work: a *)
(* delivery keeps its contract and its bound, a charge buys one thing,     *)
(* wallets and ledgers balance, a stream costs what it used, a user has    *)
(* one session, a proof admits one request, a busy connection is being     *)
(* worked on, and the code a user was told to enter can be entered.        *)
THEOREM ServicesAreSafe ==
    ASSUME OneAtATime
    PROVE  AllServicesSpec => /\ KeepsContract /\ [](RecordIsTruth /\ ReachBound)
                              /\ [](ChargeGrantedOnce /\ WalletBalanced /\ LedgerBalanced /\ StreamCharged)
                              /\ [](SoleSession /\ ProofAdmitsOnce /\ BusyIsWorked /\ SignInResumes)
<1>1. SignSpec => []SignInResumes
  BY CodeCanBeEntered
<1> QED
  BY <1>1, AllServicesKeepSpecs, DeliveryKeepsContract, RecordTrue, ReachBounded, ChargeBuysOnce,
     WalletsBalance, LedgerBalances, StreamCostsItsUse, OneSession, AdmittedOnce, BusyHasWorker, PTL
=============================================================================
