----------------------------- MODULE MCBroadcasts -----------------------------
(***************************************************************************)
(* The broadcasts of one account, followed twice in one state space: the   *)
(* one-time broadcasts with every process as a scheduler, and the series   *)
(* with one of them, as the singleton lock intends, and the others serving *)
(* requests.  A process whose scheduler does not tick is one without a     *)
(* scheduler.  Crashes are left to the series and retries to the one-time  *)
(* broadcasts.                                                             *)
(***************************************************************************)
EXTENDS MCDispatch

VARIABLE schedulers   \* the processes whose scheduler ticks

broadcastVars == <<schedulers, vars>>

BroadcastsInit ==
    /\ schedulers \in {SchedProc} \cup {{p} : p \in SchedProc}
    /\ Init

Unused(S) == \A b \in S : status'[b] = "absent" /\ \A p \in Proc : pc'[p][b] = "idle"

OneTimeNext == Next /\ Unused(Parent) /\ UNCHANGED crashes

SeriesNext ==
    /\ Next /\ Unused(OneTime) /\ UNCHANGED retries
    /\ \A p \in Proc : IF p \in schedulers THEN api'[p] = NoRequest ELSE spc'[p] = "idle"

BroadcastsNext ==
    /\ UNCHANGED schedulers
    /\ \/ schedulers = SchedProc /\ OneTimeNext
       \/ schedulers # SchedProc /\ SeriesNext

BroadcastsSpec == BroadcastsInit /\ [][BroadcastsNext]_broadcastVars
=============================================================================
