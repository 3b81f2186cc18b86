---------------------------- MODULE SingletonLock ----------------------------
(***************************************************************************)
(* The lock that picks the one worker process that runs the scheduler:     *)
(* acquire_singleton_lock and its renewal task in app/cache.py, as called  *)
(* once per process by the lifespan hook of app/main.py.                   *)
(*                                                                         *)
(* Redis is modelled by the one key: who set it and how long it has left.  *)
(* EXPIRE does not look at the value, so "holder" is only there to state   *)
(* the properties.  Time is discrete; a renewal that is due delays the     *)
(* clock unless the event loop of its process is stalled.                  *)
(***************************************************************************)
EXTENDS Integers, FiniteSets

CONSTANTS
    Proc,           \* uvicorn workers, of all containers
    TTL,            \* ttl of acquire_singleton_lock
    RedisFails,     \* whether Redis may become unreachable
    None            \* no key

ASSUME LockAssumption ==
    TTL \in Nat /\ TTL >= 2 /\ RedisFails \in BOOLEAN /\ None \notin Proc

RenewInterval == IF TTL \div 3 > 1 THEN TTL \div 3 ELSE 1

VARIABLES
    role,           \* role[p] \in {"down", "skipped", "running"}
    renewing,       \* renewing[p]: the renewal task of p exists
    timer,          \* timer[p]: time until its next renewal is due
    holder, left,   \* the key
    redis,          \* Redis can be reached
    troubled        \* history: Redis was unreachable or a renewal came late

vars == <<role, renewing, timer, holder, left, redis, troubled>>

Init ==
    /\ role = [p \in Proc |-> "down"]
    /\ renewing = [p \in Proc |-> FALSE]
    /\ timer = [p \in Proc |-> 0]
    /\ holder = None /\ left = 0
    /\ redis = TRUE
    /\ troubled = FALSE

(* Mutant: SET without NX. *)
SetAlways(p) == holder' = p /\ left' = TTL

(* SET key NX EX ttl. *)
SetIfAbsent(p) ==
    /\ holder = None
    /\ holder' = p /\ left' = TTL

(* The first worker wins and starts its renewal task; the others skip the  *)
(* scheduler and never ask again.                                          *)
Win(p) ==
    /\ role[p] = "down" /\ redis
    /\ SetIfAbsent(p)
    /\ role' = [role EXCEPT ![p] = "running"]
    /\ renewing' = [renewing EXCEPT ![p] = TRUE]
    /\ timer' = [timer EXCEPT ![p] = RenewInterval]
    /\ UNCHANGED <<redis, troubled>>

Lose(p) ==
    /\ role[p] = "down" /\ redis
    /\ holder # None
    /\ role' = [role EXCEPT ![p] = "skipped"]
    /\ UNCHANGED <<renewing, timer, holder, left, redis, troubled>>

(* Without Redis the scheduler is started all the same, and no renewal. *)
StartUnguarded(p) ==
    /\ role[p] = "down" /\ ~redis
    /\ role' = [role EXCEPT ![p] = "running"]
    /\ UNCHANGED <<renewing, timer, holder, left, redis, troubled>>

Start(p) == Win(p) \/ Lose(p) \/ StartUnguarded(p)

(* Mutant: every process renews, not only the winner. *)
AnyoneRenews(p) == timer[p] = 0
RenewalDue(p) == renewing[p] /\ timer[p] = 0

(* EXPIRE sets the time to live.  Mutant: it adds to it. *)
AddedTime == left + TTL
RenewedTime == TTL

(* EXPIRE of the key, whoever set it; nothing if it is gone or Redis is. *)
Renew(p) ==
    /\ RenewalDue(p)
    /\ timer' = [timer EXCEPT ![p] = RenewInterval]
    /\ left' = IF redis /\ holder # None THEN RenewedTime ELSE left
    /\ UNCHANGED <<role, renewing, holder, redis, troubled>>

(* The process ends, by a deployment or a crash.  The lock of the          *)
(* scheduler is not released.                                              *)
Stop(p) ==
    /\ role[p] # "down"
    /\ role' = [role EXCEPT ![p] = "down"]
    /\ renewing' = [renewing EXCEPT ![p] = FALSE]
    /\ timer' = [timer EXCEPT ![p] = 0]
    /\ UNCHANGED <<holder, left, redis, troubled>>

Tick ==
    /\ holder # None \/ \E p \in Proc : timer[p] > 0
    /\ timer' = [p \in Proc |-> IF timer[p] > 0 THEN timer[p] - 1 ELSE 0]
    /\ left' = IF left > 0 THEN left - 1 ELSE 0
    /\ holder' = IF left <= 1 THEN None ELSE holder
    /\ troubled' = (troubled \/ \E p \in Proc : renewing[p] /\ timer[p] = 0)
    /\ UNCHANGED <<role, renewing, redis>>

Outage ==
    /\ RedisFails /\ redis
    /\ redis' = FALSE
    /\ troubled' = TRUE
    /\ UNCHANGED <<role, renewing, timer, holder, left>>

(* Redis may have lost the key. *)
Recovery ==
    /\ ~redis
    /\ redis' = TRUE
    /\ \/ UNCHANGED <<holder, left>>
       \/ holder' = None /\ left' = 0
    /\ UNCHANGED <<role, renewing, timer, troubled>>

Next ==
    \/ \E p \in Proc : Start(p) \/ Renew(p) \/ Stop(p)
    \/ Tick \/ Outage \/ Recovery

Spec == Init /\ [][Next]_vars

(* Time passes, due renewals are made and stopped processes are restarted. *)
FairSpec ==
    /\ Spec
    /\ WF_vars(Tick)
    /\ \A p \in Proc : WF_vars(Renew(p)) /\ WF_vars(Start(p))

-----------------------------------------------------------------------------
(* Correctness.                                                            *)

(* Every variable has its type. *)
TypeOK ==
    /\ role \in [Proc -> {"down", "skipped", "running"}]
    /\ renewing \in [Proc -> BOOLEAN]
    /\ timer \in [Proc -> 0 .. RenewInterval]
    /\ holder \in Proc \cup {None}
    /\ left \in 0 .. TTL
    /\ redis \in BOOLEAN /\ troubled \in BOOLEAN

(* As long as Redis answers and renewals are on time, at most one worker   *)
(* runs the scheduler: the lock never expires under a running holder, not  *)
(* even while containers overlap.                                          *)
AtMostOneScheduler ==
    ~troubled => \A p, q \in Proc : role[p] = "running" /\ role[q] = "running" => p = q

(* The key of a holder that is gone expires, and does not keep a later     *)
(* worker out.                                                             *)
DeadKeyExpires ==
    (holder # None /\ \A p \in Proc : ~renewing[p])
        ~> (holder = None \/ \E p \in Proc : renewing[p])
=============================================================================
