------------------------------ MODULE UserSessions ------------------------------
(***************************************************************************)
(* Login sessions of the dashboard (app/crud/session.py, the sign-in       *)
(* endpoints of app/api/auth.py, _resolve_identity of app/api/deps.py).    *)
(*                                                                         *)
(* A login deletes the sessions of its user and inserts its own in one     *)
(* transaction; another login that is under way does not see it.  get_db   *)
(* never commits, so that what a request only flushes is gone when it      *)
(* ends: the slide of expires_at unless the request commits for a reason   *)
(* of its own, and always the is_active of a logout and the work of the    *)
(* nightly clean-up, for which there is therefore no action.               *)
(***************************************************************************)
EXTENDS Integers, FiniteSets

CONSTANTS
    User,
    Login,          \* sign-in requests; a session is named after its login
    SessionDays,    \* SESSION_EXPIRE_DAYS
    MaxToday,       \* bound on days
    NoUser          \* user_id of a session opened with a tenant's API key

ASSUME SessionAssumption == SessionDays \in Nat \ {0} /\ MaxToday \in Nat /\ NoUser \notin User

VARIABLES
    session,    \* user_sessions
    login,      \* sign-in requests
    today,
    \* history: the day a session was last used, and the users that signed
    \* in twice at once
    used, crossed

sessionVars == <<session, login, today, used, crossed>>

Unstarted == [pc |-> "new", user |-> NoUser, old |-> {}]

SessionInit ==
    /\ session = {}
    /\ login = [l \in Login |-> Unstarted]
    /\ today = 0
    /\ used = [l \in Login |-> 0]
    /\ crossed = {}

(* Mutant: only the sessions that have expired are replaced. *)
PriorExpired(u) == {s \in session : s.user = u /\ s.until <= today}
Prior(u)        == {s \in session : s.user = u}
Opened(l, u)    == [id |-> l, user |-> u, until |-> today + SessionDays]
Valid(s)        == s.until > today

(* create_session deletes what the user had ... *)
ReplaceSessions(l, u) ==
    /\ login[l].pc = "new"
    /\ login' = [login EXCEPT ![l] = [pc |-> "replaced", user |-> u,
                                     old |-> {s.id : s \in Prior(u)}]]
    /\ crossed' = IF \E k \in Login : login[k].pc = "replaced" /\ login[k].user = u
                  THEN crossed \cup {u} ELSE crossed
    /\ UNCHANGED <<session, today, used>>

(* ... and the endpoint commits that together with the new session.        *)
CommitLogin(l) ==
    /\ login[l].pc = "replaced"
    /\ session' = {s \in session : s.id \notin login[l].old} \cup {Opened(l, login[l].user)}
    /\ login' = [login EXCEPT ![l] = [Unstarted EXCEPT !.pc = "done"]]
    /\ used' = [used EXCEPT ![l] = today]
    /\ UNCHANGED <<today, crossed>>

(* The request fails and is rolled back. *)
LoginFails(l) ==
    /\ login[l].pc = "replaced"
    /\ login' = [login EXCEPT ![l] = [Unstarted EXCEPT !.pc = "done"]]
    /\ UNCHANGED <<session, today, used, crossed>>

(* With the API key of a tenant there is no user whose sessions to delete. *)
LoginWithApiKey(l) ==
    /\ login[l].pc = "new"
    /\ session' = session \cup {Opened(l, NoUser)}
    /\ login' = [login EXCEPT ![l].pc = "done"]
    /\ used' = [used EXCEPT ![l] = today]
    /\ UNCHANGED <<today, crossed>>

(* A request authenticated by the session; it may commit or not.  A login  *)
(* that is replacing the row waits for the request, or the other way       *)
(* round, and the row is deleted in the end.                               *)
UseSession(s, commits) ==
    /\ Valid(s)
    /\ session' = IF commits THEN (session \ {s}) \cup {Opened(s.id, s.user)} ELSE session
    /\ used' = [used EXCEPT ![s.id] = today]
    /\ UNCHANGED <<login, today, crossed>>

DayPasses ==
    /\ today < MaxToday /\ today' = today + 1
    /\ UNCHANGED <<session, login, used, crossed>>

SessionNext ==
    \/ \E l \in Login : \/ \E u \in User : ReplaceSessions(l, u)
                        \/ CommitLogin(l) \/ LoginFails(l) \/ LoginWithApiKey(l)
    \/ \E s \in session, commits \in BOOLEAN : UseSession(s, commits)
    \/ DayPasses

SessionSpec == SessionInit /\ [][SessionNext]_sessionVars

-----------------------------------------------------------------------------
(* Correctness.                                                            *)

SessionRow == [id : Login, user : User \cup {NoUser}, until : 0 .. MaxToday + SessionDays]

(* Every variable has its type. *)
SessionTypeOK ==
    /\ session \subseteq SessionRow
    /\ \A l \in Login : /\ login[l].pc \in {"new", "replaced", "done"}
                        /\ login[l].user \in User \cup {NoUser}
                        /\ login[l].old \subseteq Login
    /\ today \in 0 .. MaxToday
    /\ used \in [Login -> 0 .. MaxToday]
    /\ crossed \subseteq User

(* However often a user signs in, gives up and tries again, one session is *)
(* left - unless two of the requests were handled at once.                 *)
SoleSession == \A u \in User \ crossed : Cardinality(Prior(u)) <= 1

(* A session that was used within SESSION_EXPIRE_DAYS is valid, as the     *)
(* docstring of touch_session has it.                                      *)
ActiveStays == \A s \in session : today < used[s.id] + SessionDays => Valid(s)
=============================================================================
