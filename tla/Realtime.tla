-------------------------------- MODULE Realtime --------------------------------
(***************************************************************************)
(* Live updates of one account on their way to the chat sockets of one     *)
(* process (app/realtime/dispatcher.py, broadcast.py, /ws/chat of          *)
(* app/routes/ws.py, the pushed events of app/api/chats.py).               *)
(*                                                                         *)
(* Three kinds of loop go through the set of registered sockets and send:  *)
(* the workers of the dispatcher, the pump of each socket, and the handler *)
(* of a socket that passes on a typing notice.  Each waits in every send,  *)
(* and the set changes meanwhile.  Python's iterator then raises if the    *)
(* size is not what it was at the start; if only the members differ, any   *)
(* part of the rest may be visited.                                        *)
(*                                                                         *)
(* The contents of a message are left out, and frames that are no notice.  *)
(***************************************************************************)
EXTENDS Sequences, FiniteSets, Integers

CONSTANTS
    Socket,     \* connections to /ws/chat, each made once
    Update,     \* updates that Telegram delivers
    Quiet,      \* those of a kind no dialog list shows: typing, presence
    Drain,      \* workers of the dispatcher (4)
    QueueMax,   \* QUEUE_MAXSIZE
    PushMax,    \* events _WS_BROADCAST keeps (100)
    NoUpdate, NoSocket

ASSUME RealtimeAssumption ==
    /\ QueueMax \in Nat \ {0} /\ PushMax \in Nat
    /\ Quiet \subseteq Update /\ NoUpdate \notin Update
    /\ NoSocket \notin Socket /\ IsFiniteSet(Socket)

VARIABLES
    queue,      \* UpdateDispatcher._queue
    place,      \* where an update is
    drain,      \* what each worker has taken, and the consumer it is in
    sock,       \* a send that failed cuts the socket for further ones
    clients,    \* chat_clients[account_id]
    keyed,      \* chat_clients has the account
    loop,       \* passes over the set
    pump,       \* send_broadcast_events of each socket
    bag,        \* events a pump has popped and not begun
    pushed,     \* length of _WS_BROADCAST
    \* history: the updates during whose pass the set changed, and for the
    \* others the open sockets they were not sent to
    missed, disturbed

rtVars == <<queue, place, drain, sock, clients, keyed, loop, pump, bag, pushed, missed, disturbed>>
dispatchVars == <<queue, place, drain, missed, disturbed>>

NoLoop == [over |-> "none", size |-> 0, at |-> NoSocket, seen |-> {}, got |-> {}, dead |-> {},
           stirred |-> FALSE]
Free   == [pc |-> "free", update |-> NoUpdate]

RealtimeInit ==
    /\ queue = <<>> /\ place = [u \in Update |-> "none"]
    /\ drain = [d \in Drain |-> Free]
    /\ sock = [c \in Socket |-> "new"] /\ clients = {} /\ keyed = FALSE
    /\ loop = [drain |-> [d \in Drain |-> NoLoop], pump |-> [c \in Socket |-> NoLoop],
               typing |-> [c \in Socket |-> NoLoop]]
    /\ pump = [c \in Socket |-> "off"] /\ bag = [c \in Socket |-> 0] /\ pushed = 0
    /\ missed = [u \in Update |-> {}] /\ disturbed = {}

-----------------------------------------------------------------------------
(* Passes over the set of sockets.                                         *)

(* A pass over now begins: it waits in a send to the first it comes to, of *)
(* those it does not leave out.                                            *)
Begun(now, leftOut) ==
    {[NoLoop EXCEPT !.over = "live", !.size = Cardinality(now), !.at = c, !.seen = {c} \cup leftOut] :
        c \in now \ leftOut}

(* The iterator is asked for the next socket: it raises, has one, or is    *)
(* through.                                                                *)
Breaks(l, now)  == l.over = "gone" \/ Cardinality(now) # l.size
Rest(l, now)    == {c \in now \ l.seen : ~Breaks(l, now)}
Onward(l, now)  == {[l EXCEPT !.at = c, !.seen = @ \cup {c}] : c \in Rest(l, now)}
Through(l, now) == ~Breaks(l, now) /\ (Rest(l, now) = {} \/ l.stirred)

(* The passes that are under way when the set becomes now, or when the     *)
(* account loses its set, and they go on over the old one.                 *)
UnderWay(over, by) == [x \in DOMAIN by |->
    IF by[x].over = "live" THEN [by[x] EXCEPT !.over = over, !.stirred = TRUE] ELSE by[x]]
Stirred(loops, now) ==
    IF now = clients THEN loops ELSE [kind \in DOMAIN loops |-> UnderWay("live", loops[kind])]
Orphaned(loops) == [kind \in DOMAIN loops |-> UnderWay("gone", loops[kind])]

(* What a send may do.  It may succeed after the peer has gone; once it    *)
(* has raised WebSocketDisconnect there is nothing to send on.             *)
Outcomes(c) ==
    CASE sock[c] = "open" -> {"sent"}
      [] sock[c] = "gone" -> {"sent", "disconnect"}
      [] sock[c] = "cut"  -> {"error"}
      [] OTHER            -> {"disconnect", "error"}

(* The send that a pass waits in ends with the result.                     *)
Sends(l, result) ==
    /\ l # NoLoop /\ result \in Outcomes(l.at)
    /\ sock' = IF result = "disconnect" /\ sock[l.at] = "gone"
               THEN [sock EXCEPT ![l.at] = "cut"] ELSE sock

Noted(l, result) ==
    IF result = "sent" THEN [l EXCEPT !.got = @ \cup {l.at}] ELSE [l EXCEPT !.dead = @ \cup {l.at}]

-----------------------------------------------------------------------------
(* The dispatcher.                                                         *)

(* publish: a full queue drops the update. *)
Publish(u) ==
    /\ place[u] = "none"
    /\ IF Len(queue) < QueueMax
       THEN queue' = Append(queue, u) /\ place' = [place EXCEPT ![u] = "queued"]
       ELSE queue' = queue /\ place' = [place EXCEPT ![u] = "dropped"]
    /\ UNCHANGED <<drain, sock, clients, keyed, loop, pump, bag, pushed, missed, disturbed>>

(* A worker takes an update and begins with broadcast_to_account; with     *)
(* nobody to send to, neither consumer waits for anything.                 *)
Take(d) ==
    /\ drain[d] = Free /\ queue # <<>>
    /\ queue' = Tail(queue)
    /\ \/ /\ clients = {}
          /\ place' = [place EXCEPT ![Head(queue)] = "done"]
          /\ UNCHANGED <<drain, loop>>
       \/ /\ place' = [place EXCEPT ![Head(queue)] = "taken"]
          /\ drain' = [drain EXCEPT ![d] = [pc |-> "account", update |-> Head(queue)]]
          /\ \E l \in Begun(clients, {}) : loop' = [loop EXCEPT !.drain[d] = l]
    /\ UNCHANGED <<sock, clients, keyed, pump, bag, pushed, missed, disturbed>>

(* What a consumer takes for a dead socket: any exception.  Mutant: only a *)
(* disconnect, as the pump does.                                           *)
DeadOnDisconnect(result) == result # "error"
DeadOnAny(result)        == TRUE

DrainGoesOn(d) ==
    \E result \in {"sent", "disconnect", "error"} :
        /\ Sends(loop.drain[d], result) /\ DeadOnAny(result)
        /\ \E l \in Onward(Noted(loop.drain[d], result), clients) :
              loop' = [loop EXCEPT !.drain[d] = l]
        /\ UNCHANGED <<dispatchVars, clients, keyed, pump, bag, pushed>>

(* The consumer is left with the set at now: what it missed is noted, and  *)
(* the dialog consumer begins, or the worker is free.                      *)
EndsPass(d, l, now) ==
    LET u == drain[d].update
        rested == [Stirred(loop, now) EXCEPT !.drain[d] = NoLoop]
    IN
    /\ clients' = now
    /\ IF drain[d].pc = "account"
       THEN IF l.stirred
            THEN disturbed' = disturbed \cup {u} /\ missed' = missed
            ELSE /\ missed' = [missed EXCEPT ![u] = {c \in clients \ l.got : sock[c] = "open"}]
                 /\ disturbed' = disturbed
       ELSE UNCHANGED <<missed, disturbed>>
    /\ \/ /\ drain[d].pc = "account" /\ u \notin Quiet
          /\ drain' = [drain EXCEPT ![d].pc = "dialog"]
          /\ \E n \in Begun(now, {}) : loop' = [rested EXCEPT !.drain[d] = n]
          /\ place' = place
       \/ /\ drain[d].pc = "dialog" \/ u \in Quiet \/ now = {}
          /\ drain' = [drain EXCEPT ![d] = Free]
          /\ loop' = rested
          /\ place' = [place EXCEPT ![u] = "done"]
    /\ UNCHANGED <<queue, keyed, pump, bag, pushed>>

(* It takes the dead out of the set ... *)
DrainReturns(d) ==
    \E result \in {"sent", "disconnect", "error"} :
        LET l == Noted(loop.drain[d], result) IN
        /\ Sends(loop.drain[d], result) /\ DeadOnAny(result) /\ Through(l, clients)
        /\ EndsPass(d, l, clients \ l.dead)

(* ... unless it has raised, which the worker logs.  Mutant: which ends    *)
(* the worker.                                                             *)
UncaughtRaise(d) ==
    \E result \in {"sent", "disconnect", "error"} :
        /\ Sends(loop.drain[d], result) /\ Breaks(loop.drain[d], clients)
        /\ loop' = [loop EXCEPT !.drain[d] = NoLoop]
        /\ UNCHANGED <<dispatchVars, clients, keyed, pump, bag, pushed>>
DrainRaises(d) ==
    \E result \in {"sent", "disconnect", "error"} :
        LET l == Noted(loop.drain[d], result) IN
        /\ Sends(loop.drain[d], result) /\ (~DeadOnAny(result) \/ Breaks(l, clients))
        /\ EndsPass(d, l, clients)

DrainStep(d) == Take(d) \/ DrainGoesOn(d) \/ DrainReturns(d) \/ DrainRaises(d)

-----------------------------------------------------------------------------
(* The sockets.                                                            *)

(* The handler registers the socket, in a new set if there is none, and    *)
(* starts its pump.                                                        *)
Opens(c) ==
    /\ sock[c] = "new"
    /\ sock' = [sock EXCEPT ![c] = "open"]
    /\ clients' = clients \cup {c} /\ keyed' = TRUE
    /\ loop' = Stirred(loop, clients')
    /\ pump' = [pump EXCEPT ![c] = "asleep"]
    /\ UNCHANGED <<dispatchVars, bag, pushed>>

PeerGoes(c) ==
    /\ sock[c] = "open" /\ sock' = [sock EXCEPT ![c] = "gone"]
    /\ UNCHANGED <<dispatchVars, clients, keyed, loop, pump, bag, pushed>>

(* The handler of c is over: its pump is cancelled.                        *)
Closes(c, loops) ==
    /\ pump' = [pump EXCEPT ![c] = "off"] /\ bag' = [bag EXCEPT ![c] = 0]
    /\ loop' = [loops EXCEPT !.pump[c] = NoLoop, !.typing[c] = NoLoop]

(* receive_text raises WebSocketDisconnect.  Where the account has no set, *)
(* the handler fails on that instead.                                      *)
PeerLeft(c) ==
    /\ sock[c] \in {"gone", "cut"} /\ loop.typing[c] = NoLoop
    /\ sock' = [sock EXCEPT ![c] = "closed"]
    /\ clients' = IF keyed THEN clients \ {c} ELSE clients
    /\ keyed' = (keyed /\ clients' # {})
    /\ Closes(c, IF keyed /\ ~keyed' THEN Orphaned(loop) ELSE Stirred(loop, clients'))
    /\ UNCHANGED <<dispatchVars, pushed>>

(* A typing notice, for the others. *)
Notice(c) ==
    /\ sock[c] \in {"open", "gone"} /\ loop.typing[c] = NoLoop
    /\ \E l \in Begun(clients, {c}) : loop' = [loop EXCEPT !.typing[c] = l]
    /\ UNCHANGED <<dispatchVars, sock, clients, keyed, pump, bag, pushed>>

(* What its send leaves of the set: one that is disconnected is discarded  *)
(* at once, in the middle of the pass.                                     *)
Discarded(c, result) ==
    IF result = "disconnect" /\ keyed THEN clients \ {loop.typing[c].at} ELSE clients

NoticeGoesOn(c) ==
    \E result \in {"sent", "disconnect"} :
        /\ Sends(loop.typing[c], result) /\ (result = "sent" \/ keyed)
        /\ clients' = Discarded(c, result)
        /\ LET loops == Stirred(loop, clients')
               l == loops.typing[c]
           IN  \/ \E n \in Onward(l, clients') : loop' = [loops EXCEPT !.typing[c] = n]
               \/ /\ Through(l, clients') /\ sock[c] # "cut"
                  /\ loop' = [loops EXCEPT !.typing[c] = NoLoop]
        /\ UNCHANGED <<dispatchVars, keyed, pump, bag, pushed>>

(* Any other exception ends the handler, and so does receive_text of a     *)
(* socket that was cut meanwhile; the socket stays registered.             *)
NoticeFails(c) ==
    \E result \in {"sent", "disconnect", "error"} :
        /\ loop.typing[c] # NoLoop /\ result \in Outcomes(loop.typing[c].at)
        /\ clients' = Discarded(c, result)
        /\ LET loops == Stirred(loop, clients')
               l == loops.typing[c]
           IN  /\ \/ result = "error" \/ (result = "disconnect" /\ ~keyed)
                  \/ Breaks(l, clients')
                  \/ Through(l, clients') /\ sock[c] = "cut"
               /\ Closes(c, loops)
        /\ sock' = [sock EXCEPT ![c] = "closed",
                        ![loop.typing[c].at] =
                            IF result = "disconnect" /\ @ = "gone" THEN "cut" ELSE @]
        /\ UNCHANGED <<dispatchVars, keyed, pushed>>

-----------------------------------------------------------------------------
(* Pushed events, which name no account.                                   *)

(* broadcast_to_ws: the oldest gives way. *)
Push ==
    /\ pushed < PushMax /\ pushed' = pushed + 1
    /\ UNCHANGED <<dispatchVars, sock, clients, keyed, loop, pump, bag>>

(* A pump that wakes takes all there are, whoever they are for, and begins *)
(* with the first; in an empty set they are lost.                          *)
PumpWakes(c) ==
    /\ pump[c] = "asleep" /\ pushed > 0
    /\ pushed' = 0
    /\ \/ clients = {} /\ UNCHANGED <<pump, bag, loop>>
       \/ /\ pump' = [pump EXCEPT ![c] = "sending"] /\ bag' = [bag EXCEPT ![c] = pushed - 1]
          /\ \E l \in Begun(clients, {}) : loop' = [loop EXCEPT !.pump[c] = l]
    /\ UNCHANGED <<dispatchVars, sock, clients, keyed>>

PumpGoesOn(c) ==
    \E result \in {"sent", "disconnect"} :
        /\ Sends(loop.pump[c], result)
        /\ \E l \in Onward(Noted(loop.pump[c], result), clients) :
              loop' = [loop EXCEPT !.pump[c] = l]
        /\ UNCHANGED <<dispatchVars, clients, keyed, pump, bag, pushed>>

(* An event is through: the stale leave the set, and the next begins.      *)
PumpReturns(c) ==
    \E result \in {"sent", "disconnect"} :
        LET l == Noted(loop.pump[c], result)
            loops == [Stirred(loop, clients \ l.dead) EXCEPT !.pump[c] = NoLoop]
        IN
        /\ Sends(loop.pump[c], result) /\ Through(l, clients) /\ (keyed \/ l.dead = {})
        /\ clients' = clients \ l.dead
        /\ \/ /\ bag[c] > 0 /\ bag' = [bag EXCEPT ![c] = @ - 1] /\ pump' = pump
              /\ \E n \in Begun(clients', {}) : loop' = [loops EXCEPT !.pump[c] = n]
           \/ /\ bag[c] = 0 \/ clients' = {}
              /\ bag' = [bag EXCEPT ![c] = 0] /\ pump' = [pump EXCEPT ![c] = "asleep"]
              /\ loop' = loops
        /\ UNCHANGED <<dispatchVars, keyed, pushed>>

(* Anything but a disconnect ends the pump, for as long as its socket is   *)
(* connected.                                                              *)
PumpDies(c) ==
    \E result \in {"sent", "disconnect", "error"} :
        LET l == Noted(loop.pump[c], result) IN
        /\ Sends(loop.pump[c], result)
        /\ result = "error" \/ Breaks(l, clients) \/ (Through(l, clients) /\ l.dead # {} /\ ~keyed)
        /\ pump' = [pump EXCEPT ![c] = "dead"] /\ bag' = [bag EXCEPT ![c] = 0]
        /\ loop' = [loop EXCEPT !.pump[c] = NoLoop]
        /\ UNCHANGED <<dispatchVars, clients, keyed, pushed>>

SocketStep(c) ==
    \/ Opens(c) \/ PeerGoes(c) \/ PeerLeft(c)
    \/ Notice(c) \/ NoticeGoesOn(c) \/ NoticeFails(c)
    \/ PumpWakes(c) \/ PumpGoesOn(c) \/ PumpReturns(c) \/ PumpDies(c)

RealtimeNext ==
    \/ \E u \in Update : Publish(u)
    \/ \E d \in Drain : DrainStep(d)
    \/ \E c \in Socket : SocketStep(c)
    \/ Push

(* A worker that can go on does: a send ends, and nothing stops the worker *)
(* before the process.                                                     *)
RealtimeFairness == \A d \in Drain : WF_rtVars(DrainStep(d))

RealtimeSpec == RealtimeInit /\ [][RealtimeNext]_rtVars /\ RealtimeFairness

-----------------------------------------------------------------------------
(* Correctness.                                                            *)

LoopRow == [over : {"none", "live", "gone"}, size : Nat, at : Socket \cup {NoSocket},
            seen : SUBSET Socket, got : SUBSET Socket, dead : SUBSET Socket, stirred : BOOLEAN]

(* Every variable has its type. *)
RealtimeTypeOK ==
    /\ queue \in Seq(Update) /\ Len(queue) <= QueueMax
    /\ place \in [Update -> {"none", "queued", "taken", "done", "dropped"}]
    /\ drain \in [Drain -> [pc : {"free", "account", "dialog"}, update : Update \cup {NoUpdate}]]
    /\ sock \in [Socket -> {"new", "open", "gone", "cut", "closed"}]
    /\ clients \subseteq Socket /\ keyed \in BOOLEAN /\ (clients # {} => keyed)
    /\ loop \in [drain : [Drain -> LoopRow], pump : [Socket -> LoopRow],
                typing : [Socket -> LoopRow]]
    /\ pump \in [Socket -> {"off", "asleep", "sending", "dead"}]
    /\ bag \in [Socket -> 0 .. PushMax] /\ pushed \in 0 .. PushMax
    /\ missed \in [Update -> SUBSET Socket] /\ disturbed \subseteq Update

(* An update reaches every socket that is open and registered, dead ones   *)
(* among them or not - unless a socket came or went while it was sent: the *)
(* iterator then raises, or passes over sockets.                           *)
UpdateReachesAll == \A u \in Update \ disturbed : missed[u] = {}

(* Whatever becomes of its sockets, an update that was queued is handled,  *)
(* and its worker is free for the next.                                    *)
UpdateHandled == \A u \in Update : place[u] = "queued" ~> place[u] = "done"
================================================================================
