------------------------- MODULE BroadcastLifecycle -------------------------
(***************************************************************************)
(* What the dispatch pipeline promises for one sendable broadcast (a       *)
(* one-time broadcast or one occurrence of a recurring series), with       *)
(* processes, claims, ticks and crashes left out.                          *)
(*                                                                         *)
(* A job is opened by its submission, delivered at most once per opening,  *)
(* and settles as "sent" or "failed".  Only a failed job opens again, and  *)
(* only as often as the retry limit allows.  Jobs move independently, so   *)
(* one step may move several of them.                                      *)
(***************************************************************************)
EXTENDS Integers

CONSTANTS
    Job,            \* sendable broadcasts
    RetryLimit      \* settings.broadcast_max_retries

VARIABLES
    phase,          \* phase[j] \in {"absent", "open", "sent", "failed"}
    left,           \* left[j]: reopenings j may still be granted
    started         \* started[j]: delivery of the current opening has begun

lifecycleVars == <<phase, left, started>>

LifecycleInit ==
    /\ phase   = [j \in Job |-> "absent"]
    /\ left    = [j \in Job |-> RetryLimit]
    /\ started = [j \in Job |-> FALSE]

Keep(j) ==
    /\ phase'[j] = phase[j]
    /\ left'[j] = left[j]
    /\ started'[j] = started[j]

Submit(j) ==
    /\ phase[j] = "absent"
    /\ phase'[j] = "open"
    /\ left'[j] = left[j]
    /\ started'[j] = started[j]

(* The only step that may reach a recipient. *)
Begin(j) ==
    /\ phase[j] = "open"
    /\ ~started[j]
    /\ phase'[j] = "open"
    /\ left'[j] = left[j]
    /\ started'[j] = TRUE

(* "sent" is never reported of an opening whose delivery did not begin. *)
Settle(j) ==
    /\ phase[j] = "open"
    /\ \/ phase'[j] = "failed"
       \/ started[j] /\ phase'[j] = "sent"
    /\ left'[j] = left[j]
    /\ started'[j] = started[j]

Reopen(j) ==
    /\ phase[j] = "failed"
    /\ left[j] > 0
    /\ phase'[j] = "open"
    /\ left'[j] = left[j] - 1
    /\ started'[j] = FALSE

JobStep(j) == Keep(j) \/ Submit(j) \/ Begin(j) \/ Settle(j) \/ Reopen(j)

LifecycleNext == \A j \in Job : JobStep(j)

LifecycleSpec == LifecycleInit /\ [][LifecycleNext]_lifecycleVars
=============================================================================
