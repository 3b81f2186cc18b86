------------------------------ MODULE AccountSignIn ------------------------------
(***************************************************************************)
(* Signing a Telegram account in: send-code, verify-code, verify-2fa and   *)
(* status of app/api/telegram_auth.py and their public twins in            *)
(* app/api/auth.py, next to deliveries of the same account                 *)
(* (app/services/delivery.py).                                             *)
(*                                                                         *)
(* Each worker process pools one client per account and keeps the hash of  *)
(* the code in memory, with a copy in Redis, which is taken to work; the   *)
(* session string is saved in the row of the account, which a request      *)
(* reads when it starts.                                                   *)
(* Telegram is external: a code is good with the auth key it was asked     *)
(* with.                                                                   *)
(***************************************************************************)
EXTENDS Integers

CONSTANTS
    Worker,     \* processes
    Request,
    Key,        \* auth keys; a session string is its key
    NoKey,
    MaxSent     \* bound on codes

ASSUME SignInAssumption == NoKey \notin Key /\ MaxSent \in Nat

VARIABLES
    saved,      \* session_data and status of the row
    pooled,     \* TelethonClientPool._clients
    hash,       \* TelethonClientPool._pending_auth; 0: none
    backup,     \* pending_auth of Redis
    keyState,   \* auth keys, as Telegram sees them
    sent,       \* the code that Telegram accepts, and its key
    request,
    promised    \* history: the code the user was last told to enter

signVars == <<saved, pooled, hash, backup, keyState, sent, request, promised>>

Resting == [at |-> "idle", kind |-> "none", worker |-> CHOOSE w \in Worker : TRUE,
            session |-> NoKey, status |-> "none", key |-> NoKey, hash |-> 0]

SignInit ==
    /\ saved = [session |-> NoKey, status |-> "pending_auth"]
    /\ pooled = [w \in Worker |-> NoKey] /\ hash = [w \in Worker |-> 0] /\ backup = 0
    /\ keyState = [k \in Key |-> "unused"]
    /\ sent = [no |-> 0, key |-> NoKey, valid |-> FALSE]
    /\ request = [q \in Request |-> Resting]
    /\ promised = 0

Step(q, at)  == request' = [request EXCEPT ![q].at = at]
Rests(q)     == request' = [request EXCEPT ![q] = Resting]
By(q)        == request[q].worker
HasKey(q, ks) == keyState[request[q].key] \in ks

-----------------------------------------------------------------------------
(* The row.  A column is written if it differs from what was read.         *)

Updated(q, session, status) ==
    [session |-> IF session = NoKey /\ request[q].session = NoKey THEN saved.session ELSE session,
     status  |-> IF status = request[q].status THEN saved.status ELSE status]

(* A request reads the row.  A delivery gives up at once for some          *)
(* statuses, and without a session it goes on as if it were invalid.       *)
Load(q, w, kind) ==
    /\ request[q].at = "idle"
    /\ kind = "deliver" => saved.status # "banned"
    /\ kind = "check" => saved.session # NoKey
    /\ request' = [request EXCEPT ![q] =
          [Resting EXCEPT !.at = IF kind = "deliver" /\ saved.session = NoKey THEN "reload" ELSE "open",
                          !.kind = kind, !.worker = w,
                          !.session = saved.session, !.status = saved.status]]
    /\ UNCHANGED <<saved, pooled, hash, backup, keyState, sent, promised>>

-----------------------------------------------------------------------------
(* The client.  A pooled one is taken whatever the session of the row is;  *)
(* one made from a blank session gets a new key.                           *)

NewKeys == {k \in Key : keyState[k] = "unused"}

Candidates(q) ==
    LET w == By(q) IN
    IF pooled[w] # NoKey THEN {pooled[w]}
    ELSE IF request[q].session # NoKey THEN {request[q].session}
    ELSE IF NewKeys = {} THEN {} ELSE {CHOOSE k \in NewKeys : TRUE}

Pending(w) == IF hash[w] # 0 THEN hash[w] ELSE backup

(* verify-code looks for the hash first. *)
NothingPending(q) ==
    /\ request[q].at = "open" /\ request[q].kind = "verify" /\ Pending(By(q)) = 0
    /\ Rests(q)
    /\ UNCHANGED <<saved, pooled, hash, backup, keyState, sent, promised>>

Trusts(q, k) == request[q].kind \in {"check", "deliver"} => keyState[k] = "authorized"

TakeClient(q) ==
    LET w == By(q) IN
    /\ request[q].at = "open"
    /\ request[q].kind = "verify" => Pending(w) # 0
    /\ \E k \in Candidates(q) :
          /\ Trusts(q, k)
          /\ pooled' = [pooled EXCEPT ![w] = k]
          /\ keyState' = [keyState EXCEPT ![k] = IF @ = "unused" THEN "fresh" ELSE @]
          /\ hash' = IF request[q].kind = "verify" THEN [hash EXCEPT ![w] = Pending(w)] ELSE hash
          /\ request' = [request EXCEPT ![q].at = "client", ![q].key = k, ![q].hash = hash'[w]]
    /\ UNCHANGED <<saved, backup, sent, promised>>

(* The session is not authorized: the client leaves the pool, and with it  *)
(* the hash that this worker holds in memory.                              *)
RefuseClient(q) ==
    LET w == By(q) IN
    /\ request[q].at = "open"
    /\ \E k \in Candidates(q) : ~Trusts(q, k)
    /\ pooled' = [pooled EXCEPT ![w] = NoKey]
    /\ hash' = [hash EXCEPT ![w] = 0]
    /\ IF request[q].kind = "deliver" THEN Step(q, "reload") ELSE Rests(q)
    /\ UNCHANGED <<saved, backup, keyState, sent, promised>>

(* There is no connection to Telegram. *)
NoConnection(q) ==
    /\ request[q].at = "open"
    /\ pooled' = [pooled EXCEPT ![By(q)] = NoKey]
    /\ hash' = [hash EXCEPT ![By(q)] = 0]
    /\ Rests(q)
    /\ UNCHANGED <<saved, backup, keyState, sent, promised>>

(* A delivery reloads the row and clears its session.                      *)
ClearInvalid(q) ==
    /\ request[q].at = "reload"
    /\ saved' = [session |-> NoKey, status |-> "inactive"]
    /\ promised' = 0
    /\ Rests(q)
    /\ UNCHANGED <<pooled, hash, backup, keyState, sent>>

-----------------------------------------------------------------------------
(* What Telegram answers.                                                  *)

Asks(q, kind) == request[q].at = "client" /\ request[q].kind = kind

CodeSent(q) ==
    /\ Asks(q, "send") /\ ~HasKey(q, {"dead"})
    /\ sent.no < MaxSent
    /\ sent' = [no |-> sent.no + 1, key |-> request[q].key, valid |-> TRUE]
    /\ request' = [request EXCEPT ![q].at = "sent", ![q].hash = sent.no + 1]
    /\ UNCHANGED <<saved, pooled, hash, backup, keyState, promised>>

Matches(q) == sent.valid /\ request[q].hash = sent.no /\ request[q].key = sent.key

(* The right code signs the account in, or asks for its password.          *)
CodeAccepted(q) ==
    /\ Asks(q, "verify") /\ Matches(q) /\ ~HasKey(q, {"dead"})
    /\ \E st \in {"password", "authorized"} :
          /\ keyState' = [keyState EXCEPT ![request[q].key] = IF @ = "authorized" THEN @ ELSE st]
          /\ Step(q, IF st = "password" THEN "snapshot" ELSE "signed")
    /\ sent' = [sent EXCEPT !.valid = FALSE]
    /\ UNCHANGED <<saved, pooled, hash, backup, promised>>

PasswordAccepted(q) ==
    /\ Asks(q, "password") /\ HasKey(q, {"password"})
    /\ keyState' = [keyState EXCEPT ![request[q].key] = "authorized"]
    /\ Step(q, "signed")
    /\ UNCHANGED <<saved, pooled, hash, backup, sent, promised>>

(* A code that was sent with another key, or is not the last one, has      *)
(* expired.                                                                *)
CodeExpired(q) ==
    /\ Asks(q, "verify") /\ ~Matches(q) /\ ~HasKey(q, {"dead"})
    /\ hash' = [hash EXCEPT ![By(q)] = 0] /\ backup' = 0
    /\ promised' = 0
    /\ Rests(q)
    /\ UNCHANGED <<saved, pooled, keyState, sent>>

(* A typo, a flood wait, a timeout; a delivery goes on with its client.    *)
NothingDone(q) ==
    /\ request[q].at = "client" /\ request[q].kind # "check"
    /\ Rests(q)
    /\ UNCHANGED <<saved, pooled, hash, backup, keyState, sent, promised>>

(* _recover_from_dead_session: the client goes, then the session.          *)
KeyIsDead(q) ==
    /\ request[q].at = "client" /\ request[q].kind \in {"send", "verify", "password"}
    /\ HasKey(q, {"dead"})
    /\ pooled' = [pooled EXCEPT ![By(q)] = NoKey]
    /\ hash' = [hash EXCEPT ![By(q)] = 0]
    /\ promised' = 0
    /\ Step(q, "dead")
    /\ UNCHANGED <<saved, backup, keyState, sent>>

Recover(q) ==
    /\ request[q].at = "dead"
    /\ saved' = Updated(q, NoKey, "inactive")
    /\ Rests(q)
    /\ UNCHANGED <<pooled, hash, backup, keyState, sent, promised>>

Authorized(q) ==
    /\ Asks(q, "check")
    /\ request' = [request EXCEPT ![q].at = IF HasKey(q, {"authorized"}) THEN "is" ELSE "is not"]
    /\ UNCHANGED <<saved, pooled, hash, backup, keyState, sent, promised>>

(* The account is banned; its session stays. *)
TurnsBanned(q) ==
    /\ request[q].at = "client" /\ request[q].kind \in {"send", "check"}
    /\ saved' = Updated(q, saved.session, "banned")
    /\ Rests(q)
    /\ UNCHANGED <<pooled, hash, backup, keyState, sent, promised>>

-----------------------------------------------------------------------------
(* What the request writes in the end.                                     *)

(* The session is saved as soon as there is a code to enter ...            *)
(* Mutant: the snapshot is left out.                                       *)
SnapshotSkipped(q) == saved
Snapshot(q)        == [saved EXCEPT !.session = request[q].key]

AnswerSent(q) ==
    /\ request[q].at = "sent"
    /\ saved' = Snapshot(q)
    /\ hash' = [hash EXCEPT ![By(q)] = request[q].hash] /\ backup' = request[q].hash
    /\ promised' = request[q].hash
    /\ Rests(q)
    /\ UNCHANGED <<pooled, keyState, sent>>

(* ... or a password; *)
AnswerPassword(q) ==
    /\ request[q].at = "snapshot"
    /\ saved' = Snapshot(q)
    /\ Rests(q)
    /\ UNCHANGED <<pooled, hash, backup, keyState, sent, promised>>

(* with the status when the account is in.  verify-telegram-2fa leaves the *)
(* hash where it is.                                                       *)
AnswerSigned(q) ==
    /\ request[q].at = "signed"
    /\ saved' = Updated(q, request[q].key, "active")
    /\ \E clears \in IF request[q].kind = "password" THEN BOOLEAN ELSE {TRUE} :
          IF clears THEN hash' = [hash EXCEPT ![By(q)] = 0] /\ backup' = 0
          ELSE UNCHANGED <<hash, backup>>
    /\ promised' = 0
    /\ Rests(q)
    /\ UNCHANGED <<pooled, keyState, sent>>

AnswerStatus(q) ==
    /\ request[q].at \in {"is", "is not"}
    /\ saved' = Updated(q, saved.session, IF request[q].at = "is" THEN "active" ELSE "inactive")
    /\ Rests(q)
    /\ UNCHANGED <<pooled, hash, backup, keyState, sent, promised>>

-----------------------------------------------------------------------------
(* The owner ends the session from another device.                         *)
Revoke(k) ==
    /\ keyState[k] = "authorized"
    /\ keyState' = [keyState EXCEPT ![k] = "dead"]
    /\ UNCHANGED <<saved, pooled, hash, backup, sent, request, promised>>

(* A worker is started again. *)
RestartWorker(w) ==
    /\ pooled' = [pooled EXCEPT ![w] = NoKey]
    /\ hash' = [hash EXCEPT ![w] = 0]
    /\ request' = [q \in Request |-> IF By(q) = w THEN Resting ELSE request[q]]
    /\ UNCHANGED <<saved, backup, keyState, sent, promised>>

SignNext ==
    \/ \E q \in Request :
          \/ \E w \in Worker, kind \in {"send", "verify", "password", "check", "deliver"} :
                Load(q, w, kind)
          \/ NothingPending(q) \/ TakeClient(q) \/ RefuseClient(q) \/ NoConnection(q)
          \/ ClearInvalid(q) \/ CodeSent(q) \/ CodeAccepted(q) \/ PasswordAccepted(q)
          \/ CodeExpired(q) \/ NothingDone(q) \/ KeyIsDead(q) \/ Recover(q) \/ Authorized(q) \/ TurnsBanned(q)
          \/ AnswerSent(q) \/ AnswerPassword(q) \/ AnswerSigned(q) \/ AnswerStatus(q)
    \/ \E k \in Key : Revoke(k)
    \/ \E w \in Worker : RestartWorker(w)

SignSpec == SignInit /\ [][SignNext]_signVars

-----------------------------------------------------------------------------
(* Correctness.                                                            *)

(* Every variable has its type. *)
SignTypeOK ==
    /\ saved \in [session : Key \cup {NoKey}, status : {"pending_auth", "active", "inactive", "banned"}]
    /\ pooled \in [Worker -> Key \cup {NoKey}]
    /\ hash \in [Worker -> 0 .. MaxSent] /\ backup \in 0 .. MaxSent
    /\ keyState \in [Key -> {"unused", "fresh", "password", "authorized", "dead"}]
    /\ promised \in 0 .. MaxSent

(* Whatever is restarted, refused or checked between send-code and         *)
(* verify-code: while the code the user was told to enter is good, its     *)
(* hash can be found and the saved session is the one it goes with.        *)
SignInResumes ==
    promised # 0 /\ sent.valid /\ sent.no = promised /\ (\A q \in Request : request[q].at = "idle")
       => saved.session = sent.key /\ \A w \in Worker : Pending(w) = promised

(* The session that is cleared as invalid is not one that an account has   *)
(* just been signed in with, as the comment of the recovery in             *)
(* app/services/delivery.py has it.                                        *)
OnlyInvalidCleared ==
    [][saved.status = "active" /\ saved.session # NoKey /\ saved'.session = NoKey
          => keyState[saved.session] # "authorized"]_signVars
=============================================================================
