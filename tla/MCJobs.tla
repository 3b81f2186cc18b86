-------------------------------- MODULE MCJobs --------------------------------
(***************************************************************************)
(* Small instances of the modules about background work, in one state      *)
(* space: the lock that picks the process of a job, the join queue, the    *)
(* tasks and schedules of the AI platform, live updates and automatic      *)
(* replies.  They share no variable, so that a property of one holds of    *)
(* all their interleavings if it holds while the others rest: each         *)
(* behaviour follows the one named by focus.  The joins are followed       *)
(* without selections, and with one and one queued link; the tasks with    *)
(* one worker and two tasks, and with two workers and one task; the        *)
(* schedules with two schedulers and no task, and with one scheduler, one  *)
(* worker and one task.  Updates are followed with two workers, updates    *)
(* and sockets, and with one update among three sockets, two that send     *)
(* notices (or one of three, without the update), or two and one pump.     *)
(* Replies are followed as listeners that come and go; with two messages   *)
(* in one process; with one message in two processes; and with one that a  *)
(* process forgets.                                                        *)
(***************************************************************************)
EXTENDS SingletonLock, MCQueue, AiTasks, Realtime, AutoReply

CONSTANTS i1, r1, k1, d1, u1, c1, c2, p1, p2, m1, x1

MCSenderOf == [m \in Message |-> x1]

VARIABLE focus

workVars == <<vars, joinVars, aiVars>>
jobVars == <<focus, workVars, rtVars, replyVars>>

JobsInit ==
    /\ focus \in {"lock", "joins", "selections", "queue", "workers", "schedules", "scheduled",
                  "updates", "sockets", "notices", "pumps",
                  "listeners", "replies", "processes", "repeats"}
    /\ Init /\ JoinInit /\ TaskInit /\ RealtimeInit /\ ReplyInit
    /\ focus # "listeners" => replying = TRUE

OneWorks == \A r \in Runner \ {r1} : work'[r] = Resting
OneTicks == \A r \in Runner \ {r1} : tick'[r] = Ticking0
OneTask  == \A k \in Task \ {k1} : task'[k].status = "none"
OneItem  == \A i \in Item \ {i1} : jstatus'[i] = "absent"

Follows(part) == focus = part /\ UNCHANGED focus

WorkNext ==
    \/ Follows("lock") /\ Next /\ UNCHANGED <<joinVars, aiVars>>
    \/ Follows("joins") /\ JoinNext /\ UNCHANGED <<batch, vars, aiVars>>
    \/ Follows("selections") /\ JoinNext /\ OneItem /\ UNCHANGED <<vars, aiVars>>
    \/ Follows("queue") /\ TaskNext /\ OneWorks /\ UNCHANGED <<sched, now, vars, joinVars>>
    \/ Follows("workers") /\ TaskNext /\ OneTask /\ UNCHANGED <<sched, now, vars, joinVars>>
    \/ Follows("schedules") /\ TaskNext /\ UNCHANGED <<task, work, vars, joinVars>>
    \/ Follows("scheduled") /\ TaskNext /\ OneWorks /\ OneTicks /\ OneTask /\ cancelling' = {}
       /\ UNCHANGED <<vars, joinVars>>

OneUpdate  == \A u \in Update \ {u1} : place'[u] = "none"
OneDrain   == \A d \in Drain \ {d1} : drain'[d] = Free
TwoSockets == \A c \in Socket \ {c1, c2} : sock'[c] = "new"
Notices(by) == \A c \in Socket \ by : loop'.typing[c] = NoLoop
Pumps(by)   == \A c \in Socket \ by : loop'.pump[c] = NoLoop

UpdateNext ==
    \/ Follows("updates") /\ RealtimeNext /\ TwoSockets /\ Notices({}) /\ pushed' = 0
    \/ Follows("sockets") /\ RealtimeNext /\ OneUpdate /\ OneDrain /\ Notices({}) /\ pushed' = 0
    \/ Follows("notices") /\ RealtimeNext /\ OneUpdate /\ OneDrain /\ pushed' = 0
       /\ (TwoSockets \/ (place'[u1] = "none" /\ Notices({c1})))
    \/ Follows("pumps") /\ RealtimeNext /\ OneUpdate /\ OneDrain /\ TwoSockets /\ Notices({})
       /\ Pumps({c1})

NoRun       == \A h \in Handler : handler'[h] = NoHandler
OneMessage  == \A h \in Handler : handler'[h].message \in {m1, NoMessage}
StaysPooled == \A w \in Process : pooled[w] # "none" => pooled'[w] = "live"
Forgets     == \E w \in Process, m \in Message : Forget(w, m)
Switched(by) == \A w \in Process \ by : toggle'[w] = NoToggle

RepliesNext ==
    \/ Follows("listeners") /\ ReplyNext /\ NoRun /\ Switched({p1}) /\ rule' = rule
    \/ Follows("replies") /\ ReplyNext /\ Switched({}) /\ StaysPooled /\ ~Forgets
    \/ Follows("processes") /\ ReplyNext /\ Switched({p2}) /\ toggle'[p2].pc # "disabling"
       /\ StaysPooled /\ OneMessage /\ ~Forgets /\ faults' = 0
    \/ Follows("repeats") /\ ReplyNext /\ Switched({}) /\ pooled'[p2] = "none" /\ StaysPooled
       /\ OneMessage

JobsNext ==
    \/ WorkNext /\ UNCHANGED <<rtVars, replyVars>>
    \/ UpdateNext /\ UNCHANGED <<workVars, replyVars>>
    \/ RepliesNext /\ UNCHANGED <<workVars, rtVars>>

(* The fairness of the modules, for the steps of the part that is          *)
(* followed: what rests owes nothing.                                      *)
Working(r) == focus = "workers" \/ (focus \in {"queue", "scheduled"} /\ r = r1)

Draining(d) == focus = "updates" \/ (focus \in {"sockets", "notices", "pumps"} /\ d = d1)

JobsFairness ==
    /\ WF_vars(focus = "lock" /\ Tick)
    /\ \A p \in Proc : /\ WF_vars(focus = "lock" /\ Renew(p))
                       /\ WF_vars(focus = "lock" /\ Start(p))
    /\ \A r \in Runner : WF_aiVars(Working(r) /\ WorkStep(r))
    /\ \A d \in Drain : WF_rtVars(Draining(d) /\ DrainStep(d))

JobsSpec == JobsInit /\ [][JobsNext]_jobVars /\ JobsFairness

(* The types of the modules. *)
JobsTypeOK == TypeOK /\ JoinTypeOK /\ TaskTypeOK /\ RealtimeTypeOK /\ ReplyTypeOK
=============================================================================
