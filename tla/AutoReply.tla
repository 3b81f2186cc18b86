------------------------------- MODULE AutoReply -------------------------------
(***************************************************************************)
(* Automatic replies of one account with one rule                          *)
(* (app/services/auto_reply_service.py, app/crud/auto_reply.py,            *)
(* app/api/auto_reply.py): the switch, the listener each process attaches  *)
(* to its pooled client, the handlers that run for incoming messages, and  *)
(* the log that cooldown and daily limit are read from.                    *)
(*                                                                         *)
(* A client that leaves the pool is disconnected and hears nothing more.   *)
(* Texts, drafts of the AI for messages no rule matches, and the rows of   *)
(* replies that were not sent are left out.  The rule has a cooldown.      *)
(***************************************************************************)
EXTENDS Integers, FiniteSets

CONSTANTS
    Process,    \* workers of the web server
    Winner,     \* the one that got the lock auto_reply_listeners
    Handler,    \* handlers running at once (a bound)
    Message, Sender, SenderOf,
    MaxPerDay,  \* max_replies_per_day
    ReplyFaults,    \* bound on restarts, unanswered sends and lost log rows
    NoProcess, NoMessage

ASSUME ReplyAssumption ==
    /\ Winner \in Process /\ NoProcess \notin Process /\ NoMessage \notin Message
    /\ SenderOf \in [Message -> Sender]
    /\ MaxPerDay \in Nat \ {0} /\ ReplyFaults \in Nat
    /\ IsFiniteSet(Handler)

VARIABLES
    replying,   \* auto_reply_enabled of the account
    rule,       \* the rule: active, off or deleted
    pooled,     \* the pooled client of each process
    attached,   \* the processes whose pooled client has the callback
    handlers,   \* the processes that have the account in _handlers
    toggle,     \* a request to switch on or off, and the value it loaded
    round,      \* startup and verification loop of the winner
    known,      \* _recent_messages of each process
    handler,    \* running handlers
    recent,     \* auto_reply_logs: senders replied to within the cooldown,
    logged,     \* and replies since midnight
    faults,
    \* history: replies that were sent, by the same clocks; whether handlers
    \* overlapped or rows were lost since; messages a process has forgotten
    sent, sentDay, loose, looseDay, forgotten

replyVars == <<replying, rule, pooled, attached, handlers, toggle, round, known, handler, recent,
               logged, faults, sent, sentDay, loose, looseDay, forgotten>>
listenVars  == <<replying, rule, pooled, attached, handlers, toggle, round>>
logVars     == <<recent, logged, sent, sentDay, loose, looseDay, forgotten>>

NoHandler == [pc |-> "none", process |-> NoProcess, message |-> NoMessage]
NoToggle  == [pc |-> "none", was |-> FALSE]

ReplyInit ==
    /\ replying \in BOOLEAN /\ rule = "active"
    /\ pooled = [w \in Process |-> "none"] /\ attached = {} /\ handlers = {}
    /\ toggle = [w \in Process |-> NoToggle] /\ round = "start"
    /\ known = [w \in Process |-> {}] /\ handler = [h \in Handler |-> NoHandler]
    /\ recent = {} /\ logged = 0 /\ faults = 0
    /\ sent = [s \in Sender |-> 0] /\ sentDay = 0
    /\ loose = {} /\ looseDay = FALSE /\ forgotten = {}

-----------------------------------------------------------------------------
(* The pooled client.                                                      *)

(* get_client hands out the pooled client, connected, or a new one.        *)
Connected(w) ==
    /\ pooled' = [pooled EXCEPT ![w] = "live"]
    /\ attached' = IF pooled[w] = "none" THEN attached \ {w} ELSE attached
(* It drops one that does not connect, or is not authorized.               *)
Dropped(w) ==
    /\ pooled' = [pooled EXCEPT ![w] = "none"]
    /\ attached' = attached \ {w}

(* The rest of the process uses the client, closes it, or loses it. *)
ClientChanges(w) ==
    /\ \/ Connected(w) \/ Dropped(w)
       \/ pooled[w] = "live" /\ pooled' = [pooled EXCEPT ![w] = "down"] /\ UNCHANGED attached
    /\ UNCHANGED <<replying, rule, handlers, toggle, round, known, handler, faults, logVars>>

(* _register returns where the account has a callback, whichever client it *)
(* was given to.                                                           *)
Register(w) ==
    /\ handlers' = handlers \cup {w}
    /\ attached' = IF w \in handlers \/ pooled[w] = "none" THEN attached ELSE attached \cup {w}

-----------------------------------------------------------------------------
(* enable_auto_reply and disable_auto_reply, one request per process.      *)

EnableLoads(w) ==
    /\ toggle[w] = NoToggle
    /\ toggle' = [toggle EXCEPT ![w] = [pc |-> "enabling", was |-> replying]]
    /\ UNCHANGED <<replying, rule, pooled, attached, handlers, round, known, handler, faults, logVars>>

EnableConnects(w) ==
    /\ toggle[w].pc = "enabling"
    /\ \/ Connected(w) /\ toggle' = [toggle EXCEPT ![w].pc = "connected"]
       \/ Dropped(w) /\ toggle' = [toggle EXCEPT ![w] = NoToggle]
    /\ UNCHANGED <<replying, rule, handlers, round, known, handler, faults, logVars>>

(* A commit writes the flag if it is not what the request has loaded.      *)
EnableSaves(w) ==
    /\ toggle[w].pc = "connected"
    /\ replying' = (replying \/ ~toggle[w].was)
    /\ toggle' = [toggle EXCEPT ![w].pc = "saved"]
    /\ UNCHANGED <<rule, pooled, attached, handlers, round, known, handler, faults, logVars>>

EnableRegisters(w) ==
    /\ toggle[w].pc = "saved" /\ Register(w)
    /\ toggle' = [toggle EXCEPT ![w] = NoToggle]
    /\ UNCHANGED <<replying, rule, pooled, round, known, handler, faults, logVars>>

DisableLoads(w) ==
    /\ toggle[w] = NoToggle
    /\ toggle' = [toggle EXCEPT ![w] = [pc |-> "disabling", was |-> replying]]
    /\ UNCHANGED <<replying, rule, pooled, attached, handlers, round, known, handler, faults, logVars>>

DisableSaves(w) ==
    /\ toggle[w].pc = "disabling"
    /\ replying' = (replying /\ ~toggle[w].was)
    /\ toggle' = [toggle EXCEPT ![w].pc = "disabled"]
    /\ UNCHANGED <<rule, pooled, attached, handlers, round, known, handler, faults, logVars>>

(* Without a pooled client the entry in _handlers stays; a request to      *)
(* another process leaves this one as it was.                              *)
DisableUnregisters(w) ==
    /\ toggle[w].pc = "disabled"
    /\ toggle' = [toggle EXCEPT ![w] = NoToggle]
    /\ IF pooled[w] # "none"
       THEN handlers' = handlers \ {w} /\ attached' = attached \ {w}
       ELSE UNCHANGED <<handlers, attached>>
    /\ UNCHANGED <<replying, rule, pooled, round, known, handler, faults, logVars>>

-----------------------------------------------------------------------------
(* attach_all_active_listeners and verify_listeners, of the winner.        *)

(* Startup reads the accounts; the loop reads those that are switched on   *)
(* and looks at the client of each.                                        *)
RoundReads ==
    /\ \/ round = "start"  /\ round' = IF replying THEN "attaching" ELSE "asleep"
       \/ round = "asleep" /\ replying /\ pooled[Winner] # "live" /\ round' = "verifying"
    /\ UNCHANGED <<replying, rule, pooled, attached, handlers, toggle, known, handler, faults, logVars>>

(* A client that answers is given the callback; an account that is not     *)
(* authorized is skipped; any other exception ends the startup before it   *)
(* starts the loop, or the loop.                                           *)
RoundConnects ==
    /\ round \in {"attaching", "verifying"}
    /\ \/ Connected(Winner) /\ round' = "registering"
       \/ Dropped(Winner) /\ round' \in {"asleep", "dead"}
    /\ UNCHANGED <<replying, rule, handlers, toggle, known, handler, faults, logVars>>

RoundRegisters ==
    /\ round = "registering" /\ Register(Winner)
    /\ round' = "asleep"
    /\ UNCHANGED <<replying, rule, pooled, toggle, known, handler, faults, logVars>>

-----------------------------------------------------------------------------
(* _handle_incoming_message.                                               *)

Runs(h, step) == handler[h].pc = step
Goes(h, step) == handler' = [handler EXCEPT ![h].pc = step]
Ends(h)       == handler' = [handler EXCEPT ![h] = NoHandler]
SenderOfRun(h) == SenderOf[handler[h].message]

(* A message is taken up once by a process while it remembers it.          *)
Receive(h, w, m) ==
    /\ Runs(h, "none") /\ h = CHOOSE g \in Handler : Runs(g, "none")
    /\ w \in attached /\ pooled[w] = "live"
    /\ m \notin known[w]
    /\ known' = [known EXCEPT ![w] = @ \cup {m}]
    /\ handler' = [handler EXCEPT ![h] = [pc |-> "called", process |-> w, message |-> m]]
    /\ UNCHANGED <<listenVars, faults, logVars>>

(* _MESSAGE_DEDUP_TTL is over, and Telegram delivers the message again.    *)
Forget(w, m) ==
    /\ m \in known[w]
    /\ known' = [known EXCEPT ![w] = @ \ {m}] /\ forgotten' = forgotten \cup {m}
    /\ UNCHANGED <<listenVars, handler, faults, recent, logged, sent, sentDay, loose, looseDay>>

ReadSwitch(h) ==
    /\ Runs(h, "called")
    /\ IF replying THEN Goes(h, "wanted") ELSE Ends(h)
    /\ UNCHANGED <<listenVars, known, faults, logVars>>

GetClient(h) ==
    /\ Runs(h, "wanted")
    /\ \/ Connected(handler[h].process) /\ Goes(h, "unmatched")
       \/ Dropped(handler[h].process) /\ Ends(h)
    /\ UNCHANGED <<replying, rule, handlers, toggle, round, known, faults, logVars>>

(* The message may be spam, or no match. *)
Match(h) ==
    /\ Runs(h, "unmatched")
    /\ Ends(h) \/ (rule = "active" /\ Goes(h, "matched"))
    /\ UNCHANGED <<listenVars, known, faults, logVars>>

Deciding == {"cleared", "replied", "unsure", "refused"}

(* History: another handler is between the limits and the log.  Two of one *)
(* message in one process are no excuse, unless the process forgot it.     *)
Overlaps(h, g) ==
    /\ g # h /\ handler[g].pc \in Deciding
    /\ \/ handler[g].process # handler[h].process
       \/ handler[g].message # handler[h].message
       \/ handler[h].message \in forgotten

(* Cooldown and daily limit.  Mutant: one reply more than the limit.       *)
LimitedBeyond(s) == s \in recent \/ logged > MaxPerDay
Limited(s)       == s \in recent \/ logged >= MaxPerDay

CheckLimits(h) ==
    LET s == SenderOfRun(h) IN
    /\ Runs(h, "matched")
    /\ IF Limited(s)
       THEN Ends(h) /\ UNCHANGED <<loose, looseDay>>
       ELSE /\ Goes(h, "cleared")
            /\ loose' = IF \E g \in Handler : Overlaps(h, g) /\ SenderOfRun(g) = s
                        THEN loose \cup {s} ELSE loose
            /\ looseDay' = (looseDay \/ \E g \in Handler : Overlaps(h, g))
    /\ UNCHANGED <<listenVars, known, faults, recent, logged, sent, sentDay, forgotten>>

(* deliver_message, whose attempts BroadcastDelivery follows: sent counts  *)
(* replies, not copies.  A send may be unanswered, and the reply is there. *)
Send(h) ==
    /\ Runs(h, "cleared")
    /\ \/ /\ Goes(h, "refused") /\ UNCHANGED <<faults, sent, sentDay>>
       \/ /\ \/ Goes(h, "replied") /\ UNCHANGED faults
             \/ Goes(h, "unsure") /\ faults < ReplyFaults /\ faults' = faults + 1
          /\ sent' = [sent EXCEPT ![SenderOfRun(h)] = @ + 1] /\ sentDay' = sentDay + 1
    /\ UNCHANGED <<listenVars, known, recent, logged, loose, looseDay, forgotten>>

Unlogged(s) == loose' = loose \cup {s} /\ looseDay' = TRUE /\ UNCHANGED <<recent, logged>>

(* create_log with its outcome.  With the rule deleted, or the database    *)
(* gone, there is no row.                                                  *)
Log(h) ==
    LET s == SenderOfRun(h) IN
    /\ \/ /\ Runs(h, "replied") /\ rule # "deleted"
          /\ recent' = recent \cup {s} /\ logged' = logged + 1
          /\ UNCHANGED <<faults, loose, looseDay>>
       \/ /\ Runs(h, "replied") /\ Unlogged(s)
          /\ \/ rule = "deleted" /\ faults' = faults
             \/ faults < ReplyFaults /\ faults' = faults + 1
       \/ Runs(h, "unsure") /\ Unlogged(s) /\ faults' = faults
       \/ Runs(h, "refused") /\ UNCHANGED <<faults, recent, logged, loose, looseDay>>
    /\ Ends(h)
    /\ UNCHANGED <<listenVars, known, sent, sentDay, forgotten>>

-----------------------------------------------------------------------------
(* The rule, the clocks, and restarts.                                     *)

(* update_rule *)
SwitchRule ==
    /\ rule # "deleted"
    /\ rule' = IF rule = "active" THEN "off" ELSE "active"
    /\ UNCHANGED <<replying, pooled, attached, handlers, toggle, round, known, handler, faults, logVars>>

(* delete_rule takes the log along. *)
DeleteRule ==
    /\ rule # "deleted" /\ rule' = "deleted"
    /\ recent' = {} /\ logged' = 0
    /\ loose' = loose \cup {s \in Sender : sent[s] > 0}
    /\ looseDay' = (looseDay \/ sentDay > 0)
    /\ UNCHANGED <<replying, pooled, attached, handlers, toggle, round, known, handler, faults,
                   sent, sentDay, forgotten>>

(* A cooldown is longer than a handler is between limits and log. *)
CooldownPasses(s) ==
    /\ s \in recent
    /\ \A h \in Handler : handler[h].pc \in Deciding => SenderOfRun(h) # s
    /\ recent' = recent \ {s} /\ sent' = [sent EXCEPT ![s] = 0] /\ loose' = loose \ {s}
    /\ UNCHANGED <<listenVars, known, handler, faults, logged, sentDay, looseDay, forgotten>>

DayEnds ==
    /\ sentDay > 0
    /\ logged' = 0 /\ sentDay' = 0
    /\ looseDay' = (looseDay /\ \E h \in Handler : handler[h].pc \in Deciding)
    /\ UNCHANGED <<listenVars, known, handler, faults, recent, sent, loose, forgotten>>

(* What a process has in memory is gone, and with it the row of a reply it *)
(* has sent.                                                               *)
Restart(w) ==
    /\ faults < ReplyFaults /\ faults' = faults + 1
    /\ Dropped(w) /\ handlers' = handlers \ {w}
    /\ toggle' = [toggle EXCEPT ![w] = NoToggle]
    /\ round' = IF w = Winner THEN "start" ELSE round
    /\ known' = [known EXCEPT ![w] = {}] /\ forgotten' = forgotten \cup known[w]
    /\ handler' = [h \in Handler |-> IF handler[h].process = w THEN NoHandler ELSE handler[h]]
    /\ LET cut == {SenderOfRun(h) : h \in {h \in Handler : handler[h].process = w
                                              /\ handler[h].pc \in {"replied", "unsure"}}}
       IN  loose' = loose \cup cut /\ looseDay' = (looseDay \/ cut # {})
    /\ UNCHANGED <<replying, rule, recent, logged, sent, sentDay>>

ReplyNext ==
    \/ \E w \in Process :
          \/ ClientChanges(w) \/ Restart(w)
          \/ EnableLoads(w) \/ EnableConnects(w) \/ EnableSaves(w) \/ EnableRegisters(w)
          \/ DisableLoads(w) \/ DisableSaves(w) \/ DisableUnregisters(w)
          \/ \E m \in Message : Forget(w, m) \/ \E h \in Handler : Receive(h, w, m)
    \/ RoundReads \/ RoundConnects \/ RoundRegisters
    \/ \E h \in Handler : \/ ReadSwitch(h) \/ GetClient(h) \/ Match(h)
                          \/ CheckLimits(h) \/ Send(h) \/ Log(h)
    \/ SwitchRule \/ DeleteRule \/ DayEnds \/ \E s \in Sender : CooldownPasses(s)

ReplySpec == ReplyInit /\ [][ReplyNext]_replyVars

-----------------------------------------------------------------------------
(* Correctness.                                                            *)

(* Every variable has its type; a callback is attached to a client there   *)
(* is, by a process that has it in _handlers.                              *)
ReplyTypeOK ==
    /\ replying \in BOOLEAN /\ rule \in {"active", "off", "deleted"}
    /\ pooled \in [Process -> {"none", "down", "live"}]
    /\ handlers \subseteq Process
    /\ attached \subseteq {w \in handlers : pooled[w] # "none"}
    /\ toggle \in [Process -> [pc : {"none", "enabling", "connected", "saved", "disabling",
                                     "disabled"}, was : BOOLEAN]]
    /\ round \in {"start", "attaching", "asleep", "verifying", "registering", "dead"}
    /\ known \in [Process -> SUBSET Message]
    /\ \A h \in Handler : handler[h] = NoHandler \/
          handler[h] \in [pc : Deciding \cup {"called", "wanted", "unmatched", "matched"},
                          process : Process, message : Message]
    /\ recent \subseteq Sender /\ logged \in Nat /\ faults \in 0 .. ReplyFaults
    /\ sent \in [Sender -> Nat] /\ sentDay \in Nat
    /\ loose \subseteq Sender /\ looseDay \in BOOLEAN /\ forgotten \subseteq Message

(* However its listeners come and go, the account replies to a sender once *)
(* within the cooldown and at most max_replies_per_day times a day, unless *)
(* handlers of different messages or processes passed the limits at once,  *)
(* or a reply that was sent is not in the log.                             *)
RepliesBounded ==
    /\ \A s \in Sender \ loose : sent[s] <= 1
    /\ ~looseDay => sentDay <= MaxPerDay
================================================================================
