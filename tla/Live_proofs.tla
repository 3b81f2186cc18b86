------------------------------ MODULE Live_proofs ------------------------------
(***************************************************************************)
(* Proofs about Realtime and AutoReply: for every number of sockets,       *)
(* updates and workers, and of processes, handlers, messages and senders.  *)
(***************************************************************************)
EXTENDS MCJobs, Jobs_proofs, FiniteSetTheorems, TLAPS

-----------------------------------------------------------------------------
(* Live updates.                                                           *)

(* A pass that waits in a send waits for a socket.                         *)
PassRow == {NoLoop} \cup
           [over : {"live", "gone"}, size : Nat, at : Socket, seen : SUBSET Socket,
            got : SUBSET Socket, dead : SUBSET Socket, stirred : BOOLEAN]
Passes  == [drain : [Drain -> PassRow], pump : [Socket -> PassRow], typing : [Socket -> PassRow]]

LEMMA SizeTyped == \A socks \in SUBSET Socket : Cardinality(socks) \in Nat
BY RealtimeAssumption, FS_Subset, FS_CardinalityType DEF RealtimeAssumption

LEMMA BegunTyped ==
    ASSUME NEW socks \in SUBSET Socket, NEW leftOut \in SUBSET Socket, NEW l \in Begun(socks, leftOut)
    PROVE  l \in PassRow
<1>1. PICK c \in socks \ leftOut :
          l = [over |-> "live", size |-> Cardinality(socks), at |-> c, seen |-> {c} \cup leftOut,
               got |-> {}, dead |-> {}, stirred |-> FALSE]
  BY DEF Begun, NoLoop
<1>2. Cardinality(socks) \in Nat
  BY SizeTyped
<1> QED
  BY <1>1, <1>2 DEF PassRow

LEMMA BegunAll ==
    ASSUME NEW socks \in SUBSET Socket, NEW l \in Begun(socks, {})
    PROVE  /\ l \in PassRow /\ l.over = "live" /\ l.size = Cardinality(socks)
           /\ l.at \in socks /\ l.seen = {l.at} /\ l.dead = {}
<1>1. l \in PassRow
  BY BegunTyped
<1>2. PICK c \in socks :
          l = [over |-> "live", size |-> Cardinality(socks), at |-> c, seen |-> {c},
               got |-> {}, dead |-> {}, stirred |-> FALSE]
  BY DEF Begun, NoLoop
<1> QED
  BY <1>1, <1>2

LEMMA OnwardTyped ==
    ASSUME NEW l \in PassRow, l # NoLoop, NEW socks \in SUBSET Socket, NEW n \in Onward(l, socks)
    PROVE  /\ n \in PassRow /\ n # NoLoop
           /\ n.over = l.over /\ n.size = l.size /\ n.at \in socks /\ n.seen = l.seen \cup {n.at}
           /\ n.got = l.got /\ n.dead = l.dead /\ n.stirred = l.stirred
<1>1. PICK c \in socks : n = [l EXCEPT !.at = c, !.seen = l.seen \cup {c}]
  BY DEF Onward, Rest
<1>2. l \in [over : {"live", "gone"}, size : Nat, at : Socket, seen : SUBSET Socket,
             got : SUBSET Socket, dead : SUBSET Socket, stirred : BOOLEAN]
  BY DEF PassRow
<1>3. /\ n \in [over : {"live", "gone"}, size : Nat, at : Socket, seen : SUBSET Socket,
                got : SUBSET Socket, dead : SUBSET Socket, stirred : BOOLEAN]
      /\ n.over = l.over /\ n.size = l.size /\ n.at = c /\ n.seen = l.seen \cup {c}
      /\ n.got = l.got /\ n.dead = l.dead /\ n.stirred = l.stirred
  BY <1>1, <1>2
<1> QED
  BY <1>3 DEF PassRow, NoLoop

LEMMA NotedTyped ==
    ASSUME NEW l \in PassRow, l # NoLoop, NEW result
    PROVE  /\ Noted(l, result) \in PassRow /\ Noted(l, result) # NoLoop
           /\ Noted(l, result).at = l.at /\ Noted(l, result).seen = l.seen
           /\ Noted(l, result).over = l.over /\ Noted(l, result).size = l.size
           /\ Noted(l, result).stirred = l.stirred
           /\ Noted(l, result).got = IF result = "sent" THEN l.got \cup {l.at} ELSE l.got
           /\ Noted(l, result).dead = IF result = "sent" THEN l.dead ELSE l.dead \cup {l.at}
<1>1. CASE result = "sent"
  BY <1>1, RealtimeAssumption DEF RealtimeAssumption, Noted, PassRow, NoLoop
<1>2. CASE result # "sent"
  BY <1>2, RealtimeAssumption DEF RealtimeAssumption, Noted, PassRow, NoLoop
<1> QED
  BY <1>1, <1>2

LEMMA UnderWayTyped ==
    ASSUME NEW over \in {"live", "gone"}, NEW X, NEW by \in [X -> PassRow]
    PROVE  /\ UnderWay(over, by) \in [X -> PassRow]
           /\ \A x \in X : \/ UnderWay(over, by)[x] = by[x] /\ by[x].over # "live"
                           \/ UnderWay(over, by)[x].stirred
           /\ \A x \in X : by[x] = NoLoop => UnderWay(over, by)[x] = NoLoop
<1>1. ASSUME NEW x \in X PROVE /\ UnderWay(over, by)[x] \in PassRow
                               /\ \/ UnderWay(over, by)[x] = by[x] /\ by[x].over # "live"
                                  \/ UnderWay(over, by)[x].stirred
                               /\ by[x] = NoLoop => UnderWay(over, by)[x] = NoLoop
  <2>1. UnderWay(over, by)[x] = IF by[x].over = "live"
                                THEN [by[x] EXCEPT !.over = over, !.stirred = TRUE] ELSE by[x]
    BY DEF UnderWay
  <2>2. by[x] \in PassRow
    OBVIOUS
  <2>3. CASE by[x].over = "live"
    <3>1. by[x] # NoLoop
      BY <2>3 DEF NoLoop
    <3>2. [by[x] EXCEPT !.over = over, !.stirred = TRUE] \in PassRow
      BY <2>2, <3>1 DEF PassRow
    <3>3. [by[x] EXCEPT !.over = over, !.stirred = TRUE].stirred
      BY <2>2, <3>1 DEF PassRow
    <3> QED
      BY <2>1, <2>3, <3>1, <3>2, <3>3
  <2> QED
    BY <2>1, <2>2, <2>3
<1>2. UnderWay(over, by) = [x \in X |-> UnderWay(over, by)[x]]
  BY DEF UnderWay
<1> QED
  BY <1>1, <1>2

LEMMA StirredTyped ==
    ASSUME NEW loops \in Passes, NEW socks
    PROVE  Stirred(loops, socks) \in Passes /\ Orphaned(loops) \in Passes
<1>1. DOMAIN loops = {"drain", "pump", "typing"}
  BY DEF Passes
<1>2. ASSUME NEW over \in {"live", "gone"}
      PROVE  [kind \in DOMAIN loops |-> UnderWay(over, loops[kind])] \in Passes
  <2>1. [kind \in DOMAIN loops |-> UnderWay(over, loops[kind])] =
        [drain |-> UnderWay(over, loops.drain), pump |-> UnderWay(over, loops.pump),
         typing |-> UnderWay(over, loops.typing)]
    BY <1>1
  <2> QED
    BY <2>1, UnderWayTyped DEF Passes
<1> QED
  BY <1>2 DEF Stirred, Orphaned

(* A pass that nothing has stirred goes through the set as it is; of what  *)
(* it has seen, it has sent to all but the socket it waits for and those   *)
(* it found dead.                                                          *)
Sound(l, socks, of) ==
    /\ l.over = "live" /\ l.size = Cardinality(socks) /\ of[l.at] # "new"
    /\ l.seen \subseteq {l.at} \cup l.got \cup l.dead
    /\ \A c \in l.dead : of[c] \notin {"new", "open"}
PassOK(l, socks, of) == l = NoLoop \/ l.stirred \/ Sound(l, socks, of)

UpdatesTyped ==
    /\ RealtimeTypeOK /\ loop \in Passes
    /\ \A c \in clients : sock[c] # "new"
    /\ \A d \in Drain : loop.drain[d] = NoLoop \/ drain[d].update \in Update

UpdatesInv ==
    /\ UpdatesTyped /\ UpdateReachesAll
    /\ \A d \in Drain : PassOK(loop.drain[d], clients, sock)

LEMMA PassesAreRows ==
    \A l \in Passes : l \in [drain : [Drain -> LoopRow], pump : [Socket -> LoopRow],
                             typing : [Socket -> LoopRow]]
<1>1. NoLoop \in LoopRow
  BY DEF LoopRow, NoLoop
<1>2. PassRow \ {NoLoop} \subseteq LoopRow
  BY DEF PassRow, LoopRow
<1> QED
  BY <1>1, <1>2 DEF Passes

(* Of a socket that is open or was not yet, this was true before.          *)
Aged(of, then) ==
    \A c \in Socket : /\ then[c] \in {"new", "open"} => of[c] \in {"new", "open"}
                      /\ then[c] = "new" => of[c] = "new"

LEMMA PassStays ==
    ASSUME NEW l \in PassRow, NEW socks, NEW of, NEW then, PassOK(l, socks, of), Aged(of, then)
    PROVE  PassOK(l, socks, then)
<1>1. CASE l # NoLoop /\ Sound(l, socks, of)
  <2>1. l.at \in Socket /\ l.dead \subseteq Socket
    BY <1>1 DEF PassRow
  <2> QED
    BY <1>1, <2>1 DEF Sound, PassOK, Aged
<1> QED
  BY <1>1 DEF PassOK

(* A send may cut a socket whose peer has gone, and succeeds to an open    *)
(* one.                                                                    *)
LEMMA SendTyped ==
    ASSUME UpdatesTyped, NEW l \in PassRow,
           NEW result \in {"sent", "disconnect", "error"}, Sends(l, result)
    PROVE  /\ sock' \in [Socket -> {"new", "open", "gone", "cut", "closed"}]
           /\ l # NoLoop /\ l.at \in Socket
           /\ \A c \in Socket : sock'[c] = sock[c] \/ (sock[c] = "gone" /\ sock'[c] = "cut")
           /\ result # "sent" => sock[l.at] # "open"
BY DEF Sends, Outcomes, UpdatesTyped, RealtimeTypeOK, PassRow

(* A worker's pass that a step leaves to itself stays sound, or the step   *)
(* has stirred it.                                                         *)
LEMMA PassKept ==
    ASSUME UpdatesInv, NEW d \in Drain, Aged(sock, sock'),
           \/ loop'.drain[d] = Stirred(loop, clients').drain[d]
           \/ loop'.drain[d] = Orphaned(loop).drain[d]
    PROVE  /\ PassOK(loop'.drain[d], clients', sock')
           /\ loop.drain[d] = NoLoop => loop'.drain[d] = NoLoop
<1> DEFINE l == loop.drain[d]
<1>1. l \in PassRow /\ loop.drain \in [Drain -> PassRow] /\ DOMAIN loop = {"drain", "pump", "typing"}
  BY DEF UpdatesInv, UpdatesTyped, Passes
<1>2. PassOK(l, clients, sock)
  BY DEF UpdatesInv
<1>3. CASE loop'.drain[d] = l /\ clients' = clients
  BY <1>1, <1>2, <1>3, PassStays
<1>4. ASSUME NEW over \in {"live", "gone"}, loop'.drain[d] = UnderWay(over, loop.drain)[d]
      PROVE  /\ loop'.drain[d] = NoLoop \/ loop'.drain[d].stirred
             /\ loop.drain[d] = NoLoop => loop'.drain[d] = NoLoop
  BY <1>1, <1>2, <1>4, UnderWayTyped DEF Sound, PassOK
<1> QED
  BY <1>1, <1>3, <1>4 DEF Stirred, Orphaned, PassOK

(* The dispatcher. *)
LEMMA TakeKeeps == ASSUME UpdatesInv, NEW d \in Drain, Take(d) PROVE UpdatesInv'
<1>1. /\ queue' = Tail(queue) /\ queue # <<>> /\ queue \in Seq(Update) /\ Len(queue) <= QueueMax
      /\ UNCHANGED <<sock, clients, keyed, pump, bag, pushed, missed, disturbed>>
  BY DEF Take, UpdatesInv, UpdatesTyped, RealtimeTypeOK
<1>2. /\ queue' \in Seq(Update) /\ Len(queue') <= QueueMax /\ Head(queue) \in Update
  BY <1>1, RealtimeAssumption DEF RealtimeAssumption
<1>3. \/ UNCHANGED <<drain, loop>>
      \/ \E l \in Begun(clients, {}) :
            /\ loop' = [loop EXCEPT !.drain[d] = l]
            /\ drain' = [drain EXCEPT ![d] = [pc |-> "account", update |-> Head(queue)]]
  BY DEF Take
<1>4. place' \in [Update -> {"none", "queued", "taken", "done", "dropped"}]
  BY <1>2 DEF Take, UpdatesInv, UpdatesTyped, RealtimeTypeOK
<1>5. CASE UNCHANGED <<drain, loop>>
  BY <1>1, <1>2, <1>4, <1>5 DEF UpdatesInv, UpdatesTyped, RealtimeTypeOK, UpdateReachesAll
<1>6. ASSUME NEW l \in Begun(clients, {}), loop' = [loop EXCEPT !.drain[d] = l],
             drain' = [drain EXCEPT ![d] = [pc |-> "account", update |-> Head(queue)]]
      PROVE  UpdatesInv'
  <2>1. /\ l \in PassRow /\ l.over = "live" /\ l.size = Cardinality(clients)
        /\ l.seen = {l.at} /\ l.dead = {} /\ l.at \in clients
    <3>1. clients \in SUBSET Socket
      BY DEF UpdatesInv, UpdatesTyped, RealtimeTypeOK
    <3> QED
      BY <1>6, <3>1, BegunAll
  <2>2. loop' \in Passes /\ \A e \in Drain : loop'.drain[e] = IF e = d THEN l ELSE loop.drain[e]
    BY <1>6, <2>1 DEF UpdatesInv, UpdatesTyped, Passes
  <2>3. UpdatesTyped'
    BY <1>1, <1>2, <1>4, <1>6, <2>2, PassesAreRows DEF UpdatesInv, UpdatesTyped, RealtimeTypeOK
  <2>4. PassOK(l, clients', sock')
    BY <1>1, <2>1 DEF PassOK, Sound, UpdatesInv, UpdatesTyped
  <2> QED
    BY <1>1, <2>2, <2>3, <2>4 DEF UpdatesInv, UpdateReachesAll
<1> QED
  BY <1>3, <1>5, <1>6

LEMMA DrainGoesOnKeeps == ASSUME UpdatesInv, NEW d \in Drain, DrainGoesOn(d) PROVE UpdatesInv'
<1> DEFINE old == loop.drain[d]
<1>0. PICK result \in {"sent", "disconnect", "error"} :
         /\ Sends(old, result)
         /\ \E l \in Onward(Noted(old, result), clients) : loop' = [loop EXCEPT !.drain[d] = l]
         /\ UNCHANGED <<dispatchVars, clients, keyed, pump, bag, pushed>>
  BY DEF DrainGoesOn
<1>1. PICK l \in Onward(Noted(old, result), clients) : loop' = [loop EXCEPT !.drain[d] = l]
  BY <1>0
<1>2. old \in PassRow /\ old # NoLoop
  BY <1>0 DEF Sends, UpdatesInv, UpdatesTyped, Passes
<1>3. /\ sock' \in [Socket -> {"new", "open", "gone", "cut", "closed"}] /\ old.at \in Socket
      /\ \A c \in Socket : sock'[c] = sock[c] \/ (sock[c] = "gone" /\ sock'[c] = "cut")
      /\ result # "sent" => sock[old.at] # "open"
  BY <1>0, <1>2, SendTyped DEF UpdatesInv
<1>4. /\ l \in PassRow /\ l # NoLoop /\ l.at \in clients
      /\ l.over = old.over /\ l.size = old.size /\ l.seen = old.seen \cup {l.at}
      /\ l.stirred = old.stirred
      /\ l.got = IF result = "sent" THEN old.got \cup {old.at} ELSE old.got
      /\ l.dead = IF result = "sent" THEN old.dead ELSE old.dead \cup {old.at}
  <2>1. Noted(old, result) \in PassRow /\ Noted(old, result) # NoLoop
    BY <1>2, NotedTyped
  <2>2. clients \in SUBSET Socket
    BY DEF UpdatesInv, UpdatesTyped, RealtimeTypeOK
  <2>3. /\ l \in PassRow /\ l # NoLoop /\ l.at \in clients
        /\ l.over = Noted(old, result).over /\ l.size = Noted(old, result).size
        /\ l.seen = Noted(old, result).seen \cup {l.at} /\ l.got = Noted(old, result).got
        /\ l.dead = Noted(old, result).dead /\ l.stirred = Noted(old, result).stirred
    BY <1>1, <2>1, <2>2, OnwardTyped
  <2> QED
    BY <1>2, <2>3, NotedTyped
<1>5. loop' \in Passes /\ \A e \in Drain : loop'.drain[e] = IF e = d THEN l ELSE loop.drain[e]
  BY <1>1, <1>4 DEF UpdatesInv, UpdatesTyped, Passes
<1>6. UpdatesTyped'
  <2>1. \A e \in Drain : loop'.drain[e] = NoLoop \/ drain'[e].update \in Update
    BY <1>0, <1>2, <1>5 DEF UpdatesInv, UpdatesTyped, dispatchVars
  <2>2. \A c \in clients' : sock'[c] # "new"
    BY <1>0, <1>3 DEF UpdatesInv, UpdatesTyped, RealtimeTypeOK
  <2> QED
    BY <1>0, <1>3, <1>5, <2>1, <2>2, PassesAreRows
       DEF UpdatesInv, UpdatesTyped, RealtimeTypeOK, dispatchVars
<1>7. Aged(sock, sock')
  BY <1>3 DEF Aged
<1>8. PassOK(l, clients', sock')
  <2>1. CASE ~l.stirred
    <3>1. Sound(old, clients, sock)
      BY <1>2, <1>4, <2>1 DEF UpdatesInv, PassOK
    <3>2. \A c \in l.dead : sock'[c] \notin {"new", "open"}
      BY <1>2, <1>3, <1>4, <3>1 DEF Sound, PassRow
    <3>3. sock'[l.at] # "new"
      BY <1>0, <1>4, <1>6 DEF UpdatesTyped
    <3> QED
      BY <1>0, <1>4, <3>1, <3>2, <3>3 DEF Sound, PassOK
  <2> QED
    BY <2>1 DEF PassOK
<1>9. ASSUME NEW e \in Drain, e # d PROVE PassOK(loop'.drain[e], clients', sock')
  <2>1. loop.drain[e] \in PassRow /\ loop'.drain[e] = loop.drain[e] /\ PassOK(loop.drain[e], clients, sock)
    BY <1>5, <1>9 DEF UpdatesInv, UpdatesTyped, Passes
  <2> QED
    BY <1>0, <1>7, <2>1, PassStays
<1> QED
  BY <1>0, <1>5, <1>6, <1>8, <1>9 DEF UpdatesInv, UpdateReachesAll, dispatchVars

(* A worker whose pass is over, with the set left at socks.                *)
LEMMA EndsPassKeeps ==
    ASSUME UpdatesInv, NEW d \in Drain, loop.drain[d] # NoLoop,
           NEW l \in PassRow, NEW socks \in SUBSET clients, EndsPass(d, l, socks),
           sock' \in [Socket -> {"new", "open", "gone", "cut", "closed"}],
           \A c \in Socket : sock'[c] = sock[c] \/ (sock[c] = "gone" /\ sock'[c] = "cut"),
           l.stirred \/ \A c \in clients \ l.got : sock[c] # "open"
    PROVE  UpdatesInv'
<1> DEFINE u == drain[d].update
           rested == [Stirred(loop, socks) EXCEPT !.drain[d] = NoLoop]
<1>1. /\ clients' = socks /\ socks \subseteq Socket /\ u \in Update
      /\ UNCHANGED <<queue, keyed, pump, bag, pushed>>
      /\ drain \in [Drain -> [pc : {"free", "account", "dialog"}, update : Update \cup {NoUpdate}]]
  BY DEF EndsPass, UpdatesInv, UpdatesTyped, RealtimeTypeOK
<1>2. UpdateReachesAll' /\ missed' \in [Update -> SUBSET Socket] /\ disturbed' \subseteq Update
  <2>1. CASE drain[d].pc = "account" /\ ~l.stirred
    <3>1. /\ missed' = [missed EXCEPT ![u] = {c \in clients \ l.got : sock[c] = "open"}]
          /\ disturbed' = disturbed
      BY <2>1 DEF EndsPass
    <3>2. {c \in clients \ l.got : sock[c] = "open"} = {}
      BY <2>1
    <3> QED
      BY <1>1, <3>1, <3>2 DEF UpdatesInv, UpdatesTyped, RealtimeTypeOK, UpdateReachesAll
  <2>2. CASE ~(drain[d].pc = "account" /\ ~l.stirred)
    <3>1. missed' = missed /\ (disturbed' = disturbed \/ disturbed' = disturbed \cup {u})
      BY <2>2 DEF EndsPass
    <3> QED
      BY <1>1, <3>1 DEF UpdatesInv, UpdatesTyped, RealtimeTypeOK, UpdateReachesAll
  <2> QED
    BY <2>1, <2>2
<1>3. /\ rested \in Passes
      /\ \A e \in Drain : rested.drain[e] = IF e = d THEN NoLoop ELSE Stirred(loop, socks).drain[e]
  <2>1. Stirred(loop, socks) \in Passes
    BY StirredTyped DEF UpdatesInv, UpdatesTyped
  <2> QED
    BY <2>1 DEF Passes, PassRow
<1>4. Aged(sock, sock') /\ \A c \in clients' : sock'[c] # "new"
  BY <1>1 DEF Aged, UpdatesInv, UpdatesTyped
<1> HIDE DEF rested
<1>5. \E n \in PassRow :
         /\ loop' \in Passes
         /\ \A e \in Drain : loop'.drain[e] = IF e = d THEN n ELSE Stirred(loop, socks).drain[e]
         /\ n = NoLoop \/ (PassOK(n, socks, sock') /\ drain'[d].update = u)
  <2>1. CASE loop' = rested
    <3>1. NoLoop \in PassRow
      BY DEF PassRow
    <3> QED
      BY <1>3, <2>1, <3>1
  <2>2. ASSUME NEW n \in Begun(socks, {}), loop' = [rested EXCEPT !.drain[d] = n],
               drain' = [drain EXCEPT ![d].pc = "dialog"]
        PROVE  /\ n \in PassRow /\ PassOK(n, socks, sock') /\ drain'[d].update = u
               /\ loop' \in Passes
               /\ \A e \in Drain : loop'.drain[e] = IF e = d THEN n ELSE Stirred(loop, socks).drain[e]
    <3>1. socks \in SUBSET Socket
      BY <1>1
    <3>2. /\ n \in PassRow /\ n.over = "live" /\ n.size = Cardinality(socks)
          /\ n.at \in socks /\ n.seen = {n.at} /\ n.dead = {}
      BY <2>2, <3>1, BegunAll
    <3>3. PassOK(n, socks, sock')
      BY <1>1, <1>4, <3>2 DEF PassOK, Sound
    <3>4. /\ loop' \in Passes
          /\ \A e \in Drain : loop'.drain[e] = IF e = d THEN n ELSE Stirred(loop, socks).drain[e]
      BY <1>3, <2>2, <3>2 DEF Passes
    <3> QED
      BY <1>1, <2>2, <3>2, <3>3, <3>4
  <2>3. \/ loop' = rested
        \/ /\ drain' = [drain EXCEPT ![d].pc = "dialog"]
           /\ \E n \in Begun(socks, {}) : loop' = [rested EXCEPT !.drain[d] = n]
    BY DEF EndsPass, rested
  <2> QED
    BY <2>1, <2>2, <2>3
<1>6. PICK n \in PassRow :
         /\ loop' \in Passes
         /\ \A e \in Drain : loop'.drain[e] = IF e = d THEN n ELSE Stirred(loop, socks).drain[e]
         /\ n = NoLoop \/ (PassOK(n, socks, sock') /\ drain'[d].update = u)
  BY <1>5
<1>7. place' \in [Update -> {"none", "queued", "taken", "done", "dropped"}]
  <2>1. place' = place \/ place' = [place EXCEPT ![u] = "done"]
    BY DEF EndsPass
  <2> QED
    BY <1>1, <2>1 DEF UpdatesInv, UpdatesTyped, RealtimeTypeOK
<1>8. /\ drain' \in [Drain -> [pc : {"free", "account", "dialog"}, update : Update \cup {NoUpdate}]]
      /\ \A e \in Drain : e # d => drain'[e] = drain[e]
  <2>1. drain' = [drain EXCEPT ![d] = Free] \/ drain' = [drain EXCEPT ![d].pc = "dialog"]
    BY DEF EndsPass
  <2> QED
    BY <1>1, <2>1 DEF Free
<1>9. ASSUME NEW e \in Drain
      PROVE  /\ PassOK(loop'.drain[e], clients', sock')
             /\ loop'.drain[e] = NoLoop \/ drain'[e].update \in Update
  <2>1. CASE e = d
    BY <1>1, <1>6, <2>1 DEF PassOK
  <2>2. CASE e # d
    <3>1. loop'.drain[e] = Stirred(loop, clients').drain[e]
      BY <1>1, <1>6, <2>2
    <3>2. /\ PassOK(loop'.drain[e], clients', sock')
          /\ loop.drain[e] = NoLoop => loop'.drain[e] = NoLoop
      BY <1>4, <3>1, PassKept
    <3> QED
      BY <1>8, <2>2, <3>2 DEF UpdatesInv, UpdatesTyped
  <2> QED
    BY <2>1, <2>2
<1>10. RealtimeTypeOK'
  BY <1>1, <1>2, <1>6, <1>7, <1>8, PassesAreRows DEF UpdatesInv, UpdatesTyped, RealtimeTypeOK
<1> QED
  BY <1>2, <1>4, <1>6, <1>9, <1>10 DEF UpdatesInv, UpdatesTyped

(* What a worker's send leaves of its pass, and of the sockets.            *)
LEMMA DrainSent ==
    ASSUME UpdatesInv, NEW d \in Drain, NEW result \in {"sent", "disconnect", "error"},
           Sends(loop.drain[d], result)
    PROVE  /\ loop.drain[d] # NoLoop /\ Noted(loop.drain[d], result) \in PassRow
           /\ sock' \in [Socket -> {"new", "open", "gone", "cut", "closed"}]
           /\ \A c \in Socket : sock'[c] = sock[c] \/ (sock[c] = "gone" /\ sock'[c] = "cut")
<1>1. loop.drain[d] \in PassRow
  BY DEF UpdatesInv, UpdatesTyped, Passes
<1>2. loop.drain[d] # NoLoop
  BY DEF Sends
<1> QED
  BY <1>1, <1>2, NotedTyped, SendTyped DEF UpdatesInv

LEMMA DrainReturnsKeeps == ASSUME UpdatesInv, NEW d \in Drain, DrainReturns(d) PROVE UpdatesInv'
<1> DEFINE old == loop.drain[d]
<1>1. PICK result \in {"sent", "disconnect", "error"} :
         /\ Sends(old, result) /\ Through(Noted(old, result), clients)
         /\ EndsPass(d, Noted(old, result), clients \ Noted(old, result).dead)
  BY DEF DrainReturns
<1>2. old \in PassRow /\ old # NoLoop /\ PassOK(old, clients, sock)
  BY <1>1, DrainSent DEF UpdatesInv, UpdatesTyped, Passes
<1> DEFINE l == Noted(old, result)
<1>3. /\ l \in PassRow /\ l # NoLoop /\ l.at = old.at /\ l.seen = old.seen /\ l.stirred = old.stirred
      /\ l.got = IF result = "sent" THEN old.got \cup {old.at} ELSE old.got
      /\ l.dead = IF result = "sent" THEN old.dead ELSE old.dead \cup {old.at}
  BY <1>2, NotedTyped
<1>4. ASSUME ~l.stirred, NEW c \in clients \ l.got PROVE sock[c] # "open"
  <2>1. Sound(old, clients, sock)
    BY <1>2, <1>3, <1>4 DEF PassOK
  <2>2. c \in l.seen
    BY <1>1, <1>4 DEF Through, Rest
  <2>3. result # "sent" => sock[old.at] # "open"
    BY <1>1, <1>2, SendTyped DEF UpdatesInv
  <2> QED
    BY <1>3, <1>4, <2>1, <2>2, <2>3 DEF Sound
<1> HIDE DEF l
<1> QED
  BY <1>1, <1>3, <1>4, DrainSent, EndsPassKeeps DEF l

LEMMA DrainRaisesKeeps == ASSUME UpdatesInv, NEW d \in Drain, DrainRaises(d) PROVE UpdatesInv'
<1> DEFINE old == loop.drain[d]
<1>1. PICK result \in {"sent", "disconnect", "error"} :
         /\ Sends(old, result) /\ Breaks(Noted(old, result), clients)
         /\ EndsPass(d, Noted(old, result), clients)
  BY DEF DrainRaises, DeadOnAny
<1>2. old \in PassRow /\ old # NoLoop /\ PassOK(old, clients, sock)
  BY <1>1, DrainSent DEF UpdatesInv, UpdatesTyped, Passes
<1> DEFINE l == Noted(old, result)
<1>3. l \in PassRow /\ l.over = old.over /\ l.size = old.size /\ l.stirred = old.stirred
  BY <1>2, NotedTyped
<1>4. l.stirred
  BY <1>1, <1>2, <1>3 DEF PassOK, Sound, Breaks
<1> HIDE DEF l
<1>5. clients \in SUBSET clients
  OBVIOUS
<1> QED
  BY <1>1, <1>3, <1>4, <1>5, DrainSent, EndsPassKeeps DEF l

(* A step that is none of a worker's: what it has to keep.                 *)
LEMMA OtherStep ==
    ASSUME UpdatesInv, UNCHANGED dispatchVars, Aged(sock, sock'),
           sock' \in [Socket -> {"new", "open", "gone", "cut", "closed"}],
           clients' \subseteq Socket, \A c \in clients' : sock'[c] # "new",
           keyed' \in BOOLEAN, clients' # {} => keyed',
           loop' \in Passes,
           \/ loop'.drain = Stirred(loop, clients').drain
           \/ loop'.drain = Orphaned(loop).drain,
           pump' \in [Socket -> {"off", "asleep", "sending", "dead"}],
           bag' \in [Socket -> 0 .. PushMax], pushed' \in 0 .. PushMax
    PROVE  UpdatesInv'
<1>1. \A d \in Drain : /\ PassOK(loop'.drain[d], clients', sock')
                       /\ loop.drain[d] = NoLoop => loop'.drain[d] = NoLoop
  BY PassKept
<1>2. RealtimeTypeOK'
  BY PassesAreRows DEF UpdatesInv, UpdatesTyped, RealtimeTypeOK, dispatchVars
<1> QED
  BY <1>1, <1>2 DEF UpdatesInv, UpdatesTyped, UpdateReachesAll, dispatchVars

LEMMA OtherTypes ==
    ASSUME UpdatesInv
    PROVE  /\ sock \in [Socket -> {"new", "open", "gone", "cut", "closed"}]
           /\ clients \in SUBSET Socket /\ (\A c \in clients : sock[c] # "new")
           /\ keyed \in BOOLEAN /\ (clients # {} => keyed)
           /\ pump \in [Socket -> {"off", "asleep", "sending", "dead"}]
           /\ bag \in [Socket -> 0 .. PushMax] /\ pushed \in 0 .. PushMax
           /\ loop \in Passes /\ PushMax \in Nat
BY RealtimeAssumption DEF RealtimeAssumption, UpdatesInv, UpdatesTyped, RealtimeTypeOK

LEMMA OpensKeeps == ASSUME UpdatesInv, NEW c \in Socket, Opens(c) \/ PeerGoes(c) PROVE UpdatesInv'
<1>1. CASE Opens(c)
  <2>1. loop' \in Passes /\ loop'.drain = Stirred(loop, clients').drain
    BY <1>1, OtherTypes, StirredTyped DEF Opens
  <2>2. Aged(sock, sock')
    BY <1>1, OtherTypes DEF Opens, Aged
  <2> QED
    BY <1>1, <2>1, <2>2, OtherTypes, OtherStep DEF Opens
<1>2. CASE PeerGoes(c)
  BY <1>2, OtherTypes, OtherStep DEF PeerGoes, Aged, Stirred
<1> QED
  BY <1>1, <1>2

(* A handler that is over takes nothing but its own passes along.          *)
LEMMA ClosesTyped ==
    ASSUME UpdatesInv, NEW c \in Socket, NEW loops \in Passes, Closes(c, loops)
    PROVE  /\ loop' \in Passes /\ loop'.drain = loops.drain
           /\ pump' \in [Socket -> {"off", "asleep", "sending", "dead"}]
           /\ bag' \in [Socket -> 0 .. PushMax]
<1>1. NoLoop \in PassRow /\ 0 \in 0 .. PushMax
  BY OtherTypes DEF PassRow
<1>2. loop' = [loops EXCEPT !.pump[c] = NoLoop, !.typing[c] = NoLoop]
  BY DEF Closes
<1>3. loop' \in Passes /\ loop'.drain = loops.drain
  BY <1>1, <1>2 DEF Passes
<1> QED
  BY <1>1, <1>3, OtherTypes DEF Closes

LEMMA PeerLeftKeeps == ASSUME UpdatesInv, NEW c \in Socket, PeerLeft(c) PROVE UpdatesInv'
<1> DEFINE loops == IF keyed /\ ~keyed' THEN Orphaned(loop) ELSE Stirred(loop, clients')
<1>1. /\ sock' = [sock EXCEPT ![c] = "closed"] /\ UNCHANGED <<dispatchVars, pushed>>
      /\ clients' \subseteq clients
      /\ keyed' = (keyed /\ clients' # {}) /\ Closes(c, loops)
  BY DEF PeerLeft
<1>2. loops \in Passes
  BY OtherTypes, StirredTyped
<1>3. /\ loops.drain = Orphaned(loop).drain \/ loops.drain = Stirred(loop, clients').drain
  OBVIOUS
<1> HIDE DEF loops
<1>4. Aged(sock, sock')
  BY <1>1, OtherTypes DEF Aged
<1>5. keyed' \in BOOLEAN /\ (clients' # {} => keyed')
  BY <1>1, OtherTypes
<1>6. /\ loop' \in Passes /\ loop'.drain = loops.drain
      /\ pump' \in [Socket -> {"off", "asleep", "sending", "dead"}]
      /\ bag' \in [Socket -> 0 .. PushMax]
  BY <1>1, <1>2, ClosesTyped
<1>7. /\ clients' \subseteq Socket /\ \A e \in clients' : sock'[e] # "new"
      /\ sock' \in [Socket -> {"new", "open", "gone", "cut", "closed"}] /\ pushed' \in 0 .. PushMax
  BY <1>1, OtherTypes
<1> QED
  BY <1>1, <1>3, <1>4, <1>5, <1>6, <1>7, OtherStep

(* The notices. *)
LEMMA NoticeKeeps == ASSUME UpdatesInv, NEW c \in Socket, Notice(c) PROVE UpdatesInv'
<1>1. PICK l \in Begun(clients, {c}) : loop' = [loop EXCEPT !.typing[c] = l]
  BY DEF Notice
<1>2. clients \in SUBSET Socket /\ {c} \in SUBSET Socket
  BY OtherTypes
<1>3. l \in PassRow
  BY <1>1, <1>2, BegunTyped
<1>4. loop' \in Passes /\ loop'.drain = loop.drain
  BY <1>1, <1>3, OtherTypes DEF Passes
<1> QED
  BY <1>4, OtherTypes, OtherStep DEF Notice, Aged, Stirred

LEMMA CutTyped ==
    ASSUME UpdatesInv, NEW l \in PassRow,
           NEW result \in {"sent", "disconnect", "error"}, Sends(l, result)
    PROVE  /\ Aged(sock, sock') /\ sock' \in [Socket -> {"new", "open", "gone", "cut", "closed"}]
           /\ l # NoLoop /\ \A c \in clients : sock'[c] # "new"
BY SendTyped, OtherTypes DEF UpdatesInv, Aged

LEMMA NoticeGoesOnKeeps == ASSUME UpdatesInv, NEW c \in Socket, NoticeGoesOn(c) PROVE UpdatesInv'
<1> DEFINE loops == Stirred(loop, clients')
           l == loops.typing[c]
<1>1. PICK result \in {"sent", "disconnect"} :
         /\ Sends(loop.typing[c], result) /\ clients' = Discarded(c, result)
         /\ \/ \E n \in Onward(l, clients') : loop' = [loops EXCEPT !.typing[c] = n]
            \/ loop' = [loops EXCEPT !.typing[c] = NoLoop]
         /\ UNCHANGED <<dispatchVars, keyed, pump, bag, pushed>>
  BY DEF NoticeGoesOn
<1>2. clients' \subseteq clients /\ loops \in Passes
  BY <1>1, OtherTypes, StirredTyped DEF Discarded
<1>3. loop.typing[c] \in PassRow /\ l \in PassRow
  BY <1>2, OtherTypes DEF Passes
<1>4. /\ Aged(sock, sock') /\ sock' \in [Socket -> {"new", "open", "gone", "cut", "closed"}]
      /\ loop.typing[c] # NoLoop /\ \A e \in clients : sock'[e] # "new"
  BY <1>1, <1>3, CutTyped
<1>5. l # NoLoop
  <2>1. l = loop.typing[c] \/ l = UnderWay("live", loop.typing)[c]
    BY OtherTypes DEF Stirred, Passes
  <2> QED
    BY <1>4, <2>1, UnderWayTyped, OtherTypes DEF Passes, NoLoop
<1> HIDE DEF l
<1>6. \E n \in PassRow : loop' = [loops EXCEPT !.typing[c] = n]
  <2>1. ASSUME NEW n \in Onward(l, clients') PROVE n \in PassRow
    BY <1>2, <1>3, <1>5, <2>1, OnwardTyped, OtherTypes
  <2>2. NoLoop \in PassRow
    BY DEF PassRow
  <2> QED
    BY <1>1, <2>1, <2>2
<1>7. loop' \in Passes /\ loop'.drain = loops.drain
  BY <1>2, <1>6 DEF Passes
<1> QED
  BY <1>1, <1>2, <1>4, <1>7, OtherTypes, OtherStep

LEMMA NoticeFailsKeeps == ASSUME UpdatesInv, NEW c \in Socket, NoticeFails(c) PROVE UpdatesInv'
<1> DEFINE loops == Stirred(loop, clients')
           at == loop.typing[c].at
<1>1. PICK result \in {"sent", "disconnect", "error"} :
         /\ clients' = Discarded(c, result) /\ Closes(c, loops)
         /\ sock' = [sock EXCEPT ![c] = "closed",
                        ![at] = IF result = "disconnect" /\ @ = "gone" THEN "cut" ELSE @]
         /\ UNCHANGED <<dispatchVars, keyed, pushed>>
  BY DEF NoticeFails
<1>2. clients' \subseteq clients /\ loops \in Passes
  BY <1>1, OtherTypes, StirredTyped DEF Discarded
<1>3. /\ loop' \in Passes /\ loop'.drain = loops.drain
      /\ pump' \in [Socket -> {"off", "asleep", "sending", "dead"}]
      /\ bag' \in [Socket -> 0 .. PushMax]
  BY <1>1, <1>2, ClosesTyped
<1>4. /\ sock' \in [Socket -> {"new", "open", "gone", "cut", "closed"}]
      /\ \A e \in Socket : sock'[e] = sock[e] \/ sock'[e] \in {"closed", "cut"}
  BY <1>1, OtherTypes
<1>5. Aged(sock, sock')
  BY <1>4 DEF Aged
<1>6. \A e \in clients' : sock'[e] # "new"
  BY <1>2, <1>4, OtherTypes
<1> QED
  BY <1>1, <1>2, <1>3, <1>4, <1>5, <1>6, OtherTypes, OtherStep

(* The pumps. *)
LEMMA PumpWakesKeeps == ASSUME UpdatesInv, NEW c \in Socket, PumpWakes(c) PROVE UpdatesInv'
<1>0. 0 \in 0 .. PushMax /\ pushed - 1 \in 0 .. PushMax
  BY OtherTypes DEF PumpWakes
<1>1. loop' \in Passes /\ loop'.drain = loop.drain
  <2>1. ASSUME NEW l \in Begun(clients, {}), loop' = [loop EXCEPT !.pump[c] = l]
        PROVE  loop' \in Passes /\ loop'.drain = loop.drain
    <3>1. l \in PassRow
      BY <2>1, BegunAll, OtherTypes
    <3> QED
      BY <2>1, <3>1, OtherTypes DEF Passes
  <2> QED
    BY <2>1, OtherTypes DEF PumpWakes
<1>2. /\ pump' \in [Socket -> {"off", "asleep", "sending", "dead"}]
      /\ bag' \in [Socket -> 0 .. PushMax] /\ pushed' \in 0 .. PushMax
  BY <1>0, OtherTypes DEF PumpWakes
<1> QED
  BY <1>1, <1>2, OtherTypes, OtherStep DEF PumpWakes, Aged, Stirred

LEMMA PumpGoesOnKeeps == ASSUME UpdatesInv, NEW c \in Socket, PumpGoesOn(c) PROVE UpdatesInv'
<1> DEFINE old == loop.pump[c]
<1>1. PICK result \in {"sent", "disconnect"} :
         /\ Sends(old, result)
         /\ \E l \in Onward(Noted(old, result), clients) : loop' = [loop EXCEPT !.pump[c] = l]
         /\ UNCHANGED <<dispatchVars, clients, keyed, pump, bag, pushed>>
  BY DEF PumpGoesOn
<1>2. old \in PassRow
  BY OtherTypes DEF Passes
<1>3. /\ Aged(sock, sock') /\ sock' \in [Socket -> {"new", "open", "gone", "cut", "closed"}]
      /\ old # NoLoop /\ \A e \in clients : sock'[e] # "new"
  BY <1>1, <1>2, CutTyped
<1>4. PICK l \in Onward(Noted(old, result), clients) : loop' = [loop EXCEPT !.pump[c] = l]
  BY <1>1
<1>5. Noted(old, result) \in PassRow /\ Noted(old, result) # NoLoop
  BY <1>2, <1>3, NotedTyped
<1>6. l \in PassRow
  BY <1>4, <1>5, OnwardTyped, OtherTypes
<1>7. loop' \in Passes /\ loop'.drain = loop.drain
  BY <1>4, <1>6, OtherTypes DEF Passes
<1> QED
  BY <1>1, <1>3, <1>7, OtherTypes, OtherStep DEF Stirred

LEMMA PumpReturnsKeeps == ASSUME UpdatesInv, NEW c \in Socket, PumpReturns(c) PROVE UpdatesInv'
<1> DEFINE old == loop.pump[c]
<1>1. PICK result \in {"sent", "disconnect"} :
         LET l == Noted(old, result)
             loops == [Stirred(loop, clients \ l.dead) EXCEPT !.pump[c] = NoLoop]
         IN  /\ Sends(old, result)
             /\ clients' = clients \ l.dead
             /\ \/ /\ bag[c] > 0 /\ bag' = [bag EXCEPT ![c] = @ - 1] /\ pump' = pump
                   /\ \E n \in Begun(clients', {}) : loop' = [loops EXCEPT !.pump[c] = n]
                \/ /\ bag' = [bag EXCEPT ![c] = 0] /\ pump' = [pump EXCEPT ![c] = "asleep"]
                   /\ loop' = loops
             /\ UNCHANGED <<dispatchVars, keyed, pushed>>
  BY DEF PumpReturns
<1> DEFINE l == Noted(old, result)
           loops == [Stirred(loop, clients') EXCEPT !.pump[c] = NoLoop]
<1>2. old \in PassRow
  BY OtherTypes DEF Passes
<1>3. /\ Aged(sock, sock') /\ sock' \in [Socket -> {"new", "open", "gone", "cut", "closed"}]
      /\ \A e \in clients : sock'[e] # "new"
  BY <1>1, <1>2, CutTyped
<1>4. clients' \in SUBSET Socket /\ clients' \subseteq clients
  BY <1>1, OtherTypes
<1>5. loops \in Passes /\ loops.drain = Stirred(loop, clients').drain
  <2>1. Stirred(loop, clients') \in Passes /\ NoLoop \in PassRow
    BY StirredTyped, OtherTypes DEF PassRow
  <2> QED
    BY <2>1 DEF Passes
<1>6. \/ loop' = loops
      \/ \E n \in Begun(clients', {}) : loop' = [loops EXCEPT !.pump[c] = n]
  BY <1>1
<1> HIDE DEF loops
<1>7. loop' \in Passes /\ loop'.drain = loops.drain
  <2>1. ASSUME NEW n \in Begun(clients', {}), loop' = [loops EXCEPT !.pump[c] = n]
        PROVE  loop' \in Passes /\ loop'.drain = loops.drain
    <3>1. n \in PassRow
      BY <1>4, <2>1, BegunAll
    <3> QED
      BY <1>5, <2>1, <3>1 DEF Passes
  <2> QED
    BY <1>5, <1>6, <2>1
<1>8. /\ pump' \in [Socket -> {"off", "asleep", "sending", "dead"}]
      /\ bag' \in [Socket -> 0 .. PushMax]
  <2>1. \/ bag[c] > 0 /\ bag' = [bag EXCEPT ![c] = bag[c] - 1] /\ pump' = pump
        \/ bag' = [bag EXCEPT ![c] = 0] /\ pump' = [pump EXCEPT ![c] = "asleep"]
    BY <1>1
  <2>2. 0 \in 0 .. PushMax /\ (bag[c] > 0 => bag[c] - 1 \in 0 .. PushMax)
    BY OtherTypes
  <2> QED
    BY <2>1, <2>2, OtherTypes
<1> QED
  BY <1>1, <1>3, <1>4, <1>5, <1>7, <1>8, OtherTypes, OtherStep

LEMMA PumpDiesKeeps == ASSUME UpdatesInv, NEW c \in Socket, PumpDies(c) PROVE UpdatesInv'
<1>1. PICK result \in {"sent", "disconnect", "error"} : Sends(loop.pump[c], result)
  BY DEF PumpDies
<1>2. /\ pump' = [pump EXCEPT ![c] = "dead"] /\ bag' = [bag EXCEPT ![c] = 0]
      /\ loop' = [loop EXCEPT !.pump[c] = NoLoop]
      /\ UNCHANGED <<dispatchVars, clients, keyed, pushed>>
  BY DEF PumpDies
<1>3. loop.pump[c] \in PassRow /\ NoLoop \in PassRow
  BY OtherTypes DEF Passes, PassRow
<1>4. /\ Aged(sock, sock') /\ sock' \in [Socket -> {"new", "open", "gone", "cut", "closed"}]
      /\ \A e \in clients : sock'[e] # "new"
  BY <1>1, <1>3, CutTyped
<1>5. loop' \in Passes /\ loop'.drain = loop.drain
  BY <1>2, <1>3, OtherTypes DEF Passes
<1>6. /\ pump' \in [Socket -> {"off", "asleep", "sending", "dead"}]
      /\ bag' \in [Socket -> 0 .. PushMax]
  BY <1>2, OtherTypes
<1> QED
  BY <1>2, <1>4, <1>5, <1>6, OtherTypes, OtherStep DEF Stirred

LEMMA PublishKeeps == ASSUME UpdatesInv, NEW u \in Update, Publish(u) PROVE UpdatesInv'
<1>1. queue' \in Seq(Update) /\ Len(queue') <= QueueMax
  <2>1. queue \in Seq(Update) /\ Len(queue) <= QueueMax
    BY DEF UpdatesInv, UpdatesTyped, RealtimeTypeOK
  <2>2. queue' = queue \/ (Len(queue) < QueueMax /\ queue' = Append(queue, u))
    BY DEF Publish
  <2> QED
    BY <2>1, <2>2, RealtimeAssumption DEF RealtimeAssumption
<1>2. /\ place' \in [Update -> {"none", "queued", "taken", "done", "dropped"}]
      /\ UNCHANGED <<drain, sock, clients, keyed, loop, pump, bag, pushed, missed, disturbed>>
  BY DEF Publish, UpdatesInv, UpdatesTyped, RealtimeTypeOK
<1> QED
  BY <1>1, <1>2 DEF UpdatesInv, UpdatesTyped, RealtimeTypeOK, UpdateReachesAll

LEMMA UpdatesStep == UpdatesInv /\ [RealtimeNext]_rtVars => UpdatesInv'
<1> SUFFICES ASSUME UpdatesInv, [RealtimeNext]_rtVars PROVE UpdatesInv'
  OBVIOUS
<1>1. CASE UNCHANGED rtVars
  BY <1>1 DEF rtVars, UpdatesInv, UpdatesTyped, RealtimeTypeOK, UpdateReachesAll
<1>2. CASE Push
  <2>1. pushed' \in 0 .. PushMax
    BY <1>2, OtherTypes DEF Push
  <2> QED
    BY <1>2, <2>1, OtherTypes, OtherStep DEF Push, Aged, Stirred
<1>3. ASSUME NEW d \in Drain, DrainStep(d) PROVE UpdatesInv'
  BY <1>3, TakeKeeps, DrainGoesOnKeeps, DrainReturnsKeeps, DrainRaisesKeeps DEF DrainStep
<1>4. ASSUME NEW c \in Socket, SocketStep(c) PROVE UpdatesInv'
  BY <1>4, OpensKeeps, PeerLeftKeeps, NoticeKeeps, NoticeGoesOnKeeps, NoticeFailsKeeps,
     PumpWakesKeeps, PumpGoesOnKeeps, PumpReturnsKeeps, PumpDiesKeeps DEF SocketStep
<1> QED
  BY <1>1, <1>2, <1>3, <1>4, PublishKeeps DEF RealtimeNext

LEMMA UpdatesHold == RealtimeInit /\ [][RealtimeNext]_rtVars => []UpdatesInv
<1>1. RealtimeInit => UpdatesInv
  <2> SUFFICES ASSUME RealtimeInit PROVE UpdatesInv
    OBVIOUS
  <2>1. loop \in Passes /\ \A d \in Drain : loop.drain[d] = NoLoop
    BY DEF RealtimeInit, Passes, PassRow
  <2>2. queue \in Seq(Update) /\ Len(queue) <= QueueMax /\ 0 \in 0 .. PushMax
    BY RealtimeAssumption DEF RealtimeAssumption, RealtimeInit
  <2>3. RealtimeTypeOK
    BY <2>1, <2>2, PassesAreRows DEF RealtimeInit, RealtimeTypeOK, Free
  <2> QED
    BY <2>1, <2>3 DEF RealtimeInit, UpdatesInv, UpdatesTyped, PassOK, UpdateReachesAll
<1> QED
  BY <1>1, UpdatesStep, PTL

(* Every variable of the live updates has its type.                        *)
THEOREM UpdatesKeepType == RealtimeSpec => []RealtimeTypeOK
<1>1. UpdatesInv => RealtimeTypeOK
  BY DEF UpdatesInv, UpdatesTyped
<1> QED
  BY <1>1, UpdatesHold, PTL DEF RealtimeSpec

(* For any number of sockets, updates and workers, and however sends fail, *)
(* an update misses no socket that is open and registered, unless sockets  *)
(* came or went while it was sent.                                         *)
THEOREM UpdatesReachAll == RealtimeSpec => []UpdateReachesAll
<1>1. UpdatesInv => UpdateReachesAll
  BY DEF UpdatesInv
<1> QED
  BY <1>1, UpdatesHold, PTL DEF RealtimeSpec

-----------------------------------------------------------------------------
(* Automatic replies.                                                      *)

Steps      == Deciding \cup {"called", "wanted", "unmatched", "matched"}
HandlerRow == {NoHandler} \cup [pc : Steps, process : Process, message : Message]

RepliesTyped ==
    /\ handler \in [Handler -> HandlerRow]
    /\ known \in [Process -> SUBSET Message] /\ forgotten \subseteq Message
    /\ recent \subseteq Sender /\ logged \in Nat
    /\ sent \in [Sender -> Nat] /\ sentDay \in Nat
    /\ loose \subseteq Sender /\ looseDay \in BOOLEAN

(* A process handles only messages that it knows, each in one handler,     *)
(* until it has forgotten one.                                             *)
HandledOnce ==
    /\ \A h \in Handler : Runs(h, "none") \/ handler[h].message \in known[handler[h].process] \cup forgotten
    /\ \A g, h \in Handler :
          g # h /\ handler[g].process = handler[h].process /\ handler[g].message = handler[h].message
          => Runs(h, "none") \/ handler[h].message \in forgotten

Answering(h)  == handler[h].pc \in Deciding
Answered(h)   == handler[h].pc \in {"replied", "unsure"}
Answers(h, s) == Answering(h) /\ SenderOfRun(h) = s

(* A sender is answered by one handler, and has a reply on record or on    *)
(* its way to the log if one was sent.                                     *)
SenderKept(s) ==
    /\ \A g, h \in Handler : Answers(g, s) /\ Answers(h, s) => g = h
    /\ \A h \in Handler : Answers(h, s) => s \notin recent /\ (Answered(h) \/ sent[s] = 0)
    /\ sent[s] \in {0, 1}
    /\ sent[s] = 0 \/ s \in recent \/ \E h \in Handler : Answers(h, s) /\ Answered(h)

(* The same of the day. *)
DayKept ==
    /\ \A g, h \in Handler : Answering(g) /\ Answering(h) => g = h
    /\ \A h \in Handler : Answering(h) => logged < MaxPerDay
    /\ logged <= MaxPerDay
    /\ sentDay <= logged \/ (sentDay = logged + 1 /\ \E h \in Handler : Answered(h))

RepliesInv ==
    /\ RepliesTyped /\ HandledOnce
    /\ \A s \in Sender \ loose : SenderKept(s)
    /\ looseDay \/ DayKept

(* A running handler has a process, a message and a sender.                *)
LEMMA RunTyped ==
    ASSUME RepliesTyped, NEW h \in Handler
    PROVE  /\ handler[h] = NoHandler <=> Runs(h, "none")
           /\ handler[h] # NoHandler =>
                 /\ handler[h] \in [pc : Steps, process : Process, message : Message]
                 /\ SenderOfRun(h) \in Sender
           /\ Answering(h) => handler[h] # NoHandler
BY ReplyAssumption
   DEF ReplyAssumption, RepliesTyped, HandlerRow, Steps, Deciding, Runs, NoHandler, SenderOfRun, Answering

(* A handler h goes from one step to another, or ends, and the log stays:  *)
(* it was not past the limits, or ends without a reply.                    *)
LEMMA Undecided ==
    ASSUME RepliesInv, NEW h \in Handler, NEW row \in HandlerRow,
           handler' = [handler EXCEPT ![h] = row], UNCHANGED <<known, logVars>>,
           ~Answered(h), row.pc \notin Deciding, handler[h] # NoHandler,
           row # NoHandler => row.process = handler[h].process /\ row.message = handler[h].message
    PROVE  RepliesInv'
<1>1. RepliesTyped'
  BY DEF RepliesInv, RepliesTyped, logVars
<1>2. HandledOnce'
  BY ReplyAssumption, RunTyped, <1>1
     DEF ReplyAssumption, RepliesInv, RepliesTyped, HandledOnce, HandlerRow, Runs, NoHandler, logVars,
         Steps, Deciding
<1>3. \A g \in Handler : handler'[g] = handler[g] \/ (g = h /\ ~Answering(g)')
  BY DEF RepliesInv, RepliesTyped, Answering, Deciding
<1>4. \A g \in Handler : Answered(g) => handler'[g] = handler[g]
  BY <1>3
<1>5. ASSUME NEW s \in Sender \ loose' PROVE SenderKept(s)'
  <2>1. SenderKept(s)
    BY <1>5 DEF RepliesInv, logVars
  <2> QED
    BY <1>3, <1>4, <2>1 DEF SenderKept, Answers, Answering, Answered, SenderOfRun, logVars
<1>6. looseDay' \/ DayKept'
  BY <1>3, <1>4 DEF RepliesInv, DayKept, Answering, Answered, logVars
<1> QED
  BY <1>1, <1>2, <1>5, <1>6 DEF RepliesInv

LEMMA ReceiveKeeps ==
    ASSUME RepliesInv, NEW h \in Handler, NEW w \in Process, NEW m \in Message, Receive(h, w, m)
    PROVE  RepliesInv'
<1> DEFINE row == [pc |-> "called", process |-> w, message |-> m]
<1>0. /\ handler' = [handler EXCEPT ![h] = row] /\ row \in HandlerRow
      /\ known' = [known EXCEPT ![w] = @ \cup {m}] /\ m \notin known[w]
      /\ Runs(h, "none") /\ UNCHANGED logVars
  BY DEF Receive, HandlerRow, Steps, logVars
<1>1. RepliesTyped'
  BY <1>0 DEF RepliesInv, RepliesTyped, logVars
<1>2. HandledOnce'
  <2>1. \A g \in Handler : handler'[g] = IF g = h THEN row ELSE handler[g]
    BY <1>0 DEF RepliesInv, RepliesTyped
  <2>2. \A p \in Process : known[p] \subseteq known'[p]
    BY <1>0 DEF RepliesInv, RepliesTyped
  <2>3. m \in known'[w]
    BY <1>0 DEF RepliesInv, RepliesTyped
  <2>4. \A g \in Handler : Runs(g, "none")' \/ handler'[g].message \in known'[handler'[g].process] \cup forgotten'
    BY <1>0, <2>1, <2>2, <2>3, RunTyped DEF RepliesInv, HandledOnce, Runs, logVars
  <2>5. ASSUME NEW g \in Handler, NEW f \in Handler, g # f, ~Runs(f, "none")',
               handler'[g].process = handler'[f].process, handler'[g].message = handler'[f].message
        PROVE  handler'[f].message \in forgotten'
    BY <1>0, <2>1, <2>5, RunTyped, ReplyAssumption
       DEF ReplyAssumption, RepliesInv, HandledOnce, Runs, logVars, NoHandler
  <2> QED
    BY <2>4, <2>5 DEF HandledOnce
<1>3. \A g \in Handler : handler'[g] = handler[g] \/ (g = h /\ ~Answering(g)' /\ ~Answering(g))
  BY <1>0 DEF RepliesInv, RepliesTyped, Answering, Deciding, Runs
<1>4. ASSUME NEW s \in Sender \ loose' PROVE SenderKept(s)'
  <2>1. SenderKept(s)
    BY <1>0 DEF RepliesInv, logVars
  <2> QED
    BY <1>0, <1>3, <2>1 DEF SenderKept, Answers, Answering, Answered, SenderOfRun, logVars, Deciding
<1>5. looseDay' \/ DayKept'
  BY <1>0, <1>3 DEF RepliesInv, DayKept, Answering, Answered, logVars, Deciding
<1> QED
  BY <1>1, <1>2, <1>4, <1>5 DEF RepliesInv

LEMMA ForgetKeeps ==
    ASSUME RepliesInv, NEW w \in Process, NEW m \in Message, Forget(w, m)
    PROVE  RepliesInv'
<1>0. /\ known' = [known EXCEPT ![w] = @ \ {m}] /\ forgotten' = forgotten \cup {m}
      /\ UNCHANGED <<handler, recent, logged, sent, sentDay, loose, looseDay>>
  BY DEF Forget
<1>1. RepliesTyped'
  BY <1>0 DEF RepliesInv, RepliesTyped
<1>2. HandledOnce'
  BY <1>0 DEF RepliesInv, RepliesTyped, HandledOnce, Runs
<1>3. (\A s \in Sender \ loose' : SenderKept(s)') /\ (looseDay' \/ DayKept')
  BY <1>0 DEF RepliesInv, SenderKept, DayKept, Answers, Answering, Answered, SenderOfRun
<1> QED
  BY <1>1, <1>2, <1>3 DEF RepliesInv

(* A handler goes on to another step with its message.                     *)
LEMMA GoesOn ==
    ASSUME RepliesInv, NEW h \in Handler, NEW pc \in Steps, ~Runs(h, "none"), Goes(h, pc)
    PROVE  /\ handler' \in [Handler -> HandlerRow]
           /\ \A g \in Handler : /\ handler'[g].process = handler[g].process
                                 /\ handler'[g].message = handler[g].message
                                 /\ Runs(g, "none")' <=> Runs(g, "none")
                                 /\ g # h => handler'[g] = handler[g]
                                 /\ SenderOfRun(g)' = SenderOfRun(g)
           /\ handler'[h].pc = pc
<1>1. handler[h] \in [pc : Steps, process : Process, message : Message]
  BY RunTyped DEF RepliesInv, Runs, NoHandler
<1> DEFINE row == [handler[h] EXCEPT !.pc = pc]
<1>2. /\ row \in [pc : Steps, process : Process, message : Message] /\ row.pc = pc
      /\ row.process = handler[h].process /\ row.message = handler[h].message
  BY <1>1
<1>3. handler' = [handler EXCEPT ![h] = row]
  BY DEF Goes
<1>4. pc # "none"
  BY DEF Steps, Deciding
<1> HIDE DEF row
<1> QED
  BY <1>2, <1>3, <1>4 DEF RepliesInv, RepliesTyped, HandlerRow, Runs, SenderOfRun

LEMMA StillHandledOnce ==
    ASSUME RepliesInv, NEW h \in Handler, NEW pc \in Steps, ~Runs(h, "none"), Goes(h, pc),
           UNCHANGED <<known, forgotten>>
    PROVE  HandledOnce'
BY GoesOn DEF RepliesInv, HandledOnce

(* Two handlers past the limits, one of them h, overlap or are the same.   *)
LEMMA Alone ==
    ASSUME RepliesInv, NEW h \in Handler, NEW g \in Handler, ~Runs(h, "none"), Answering(g), g # h
    PROVE  Overlaps(h, g)
BY DEF RepliesInv, HandledOnce, Overlaps, Answering, Deciding, Runs

LEMMA CheckLimitsKeeps ==
    ASSUME RepliesInv, NEW h \in Handler, CheckLimits(h)
    PROVE  RepliesInv'
<1> DEFINE s == SenderOfRun(h)
<1>0. Runs(h, "matched") /\ s \in Sender /\ ~Answering(h) /\ ~Answered(h) /\ handler[h] # NoHandler
  BY RunTyped DEF CheckLimits, RepliesInv, Runs, Answering, Answered, Deciding, NoHandler
<1>1. CASE Limited(s)
  <2>1. handler' = [handler EXCEPT ![h] = NoHandler] /\ UNCHANGED <<known, logVars>>
    BY <1>1 DEF CheckLimits, Ends, logVars
  <2> QED
    BY <1>0, <2>1, Undecided DEF NoHandler, HandlerRow, Deciding
<1>2. CASE ~Limited(s)
  <2>1. /\ Goes(h, "cleared") /\ ~Runs(h, "none") /\ "cleared" \in Steps
        /\ UNCHANGED <<known, recent, logged, sent, sentDay, forgotten>>
        /\ loose' = IF \E g \in Handler : Overlaps(h, g) /\ SenderOfRun(g) = s
                    THEN loose \cup {s} ELSE loose
        /\ looseDay' = (looseDay \/ \E g \in Handler : Overlaps(h, g))
    BY <1>0, <1>2 DEF CheckLimits, Steps, Deciding, Runs
  <2>2. /\ handler' \in [Handler -> HandlerRow]
        /\ \A g \in Handler : /\ g # h => handler'[g] = handler[g]
                              /\ SenderOfRun(g)' = SenderOfRun(g)
        /\ handler'[h].pc = "cleared"
    BY <2>1, GoesOn
  <2>3. RepliesTyped' /\ HandledOnce'
    BY <1>0, <2>1, <2>2, StillHandledOnce DEF RepliesInv, RepliesTyped
  <2>4. ASSUME NEW t \in Sender \ loose' PROVE SenderKept(t)'
    <3>1. SenderKept(t)
      BY <2>1, <2>4 DEF RepliesInv
    <3>2. CASE t = s
      <4>1. \A g \in Handler : g # h => ~Answers(g, s)
        BY <1>0, <2>1, <2>4, <3>2, Alone DEF Answers, Runs
      <4>2. sent[s] = 0 /\ s \notin recent
        BY <1>0, <1>2, <3>1, <3>2, <4>1 DEF SenderKept, Limited, Answers
      <4> QED
        BY <2>1, <2>2, <3>2, <4>1, <4>2 DEF SenderKept, Answers, Answering
    <3>3. CASE t # s
      BY <1>0, <2>1, <2>2, <3>1, <3>3 DEF SenderKept, Answers, Answering, Answered
    <3> QED
      BY <3>2, <3>3
  <2>5. ASSUME ~looseDay' PROVE DayKept'
    <3>1. DayKept /\ \A g \in Handler : g # h => ~Answering(g)
      BY <1>0, <2>1, <2>5, Alone DEF RepliesInv, Runs
    <3>2. logged < MaxPerDay
      BY <1>2, ReplyAssumption DEF Limited, ReplyAssumption, RepliesInv, RepliesTyped
    <3> QED
      BY <1>0, <2>1, <2>2, <3>1, <3>2 DEF DayKept, Answering, Answered, Deciding
  <2> QED
    BY <2>3, <2>4, <2>5 DEF RepliesInv
<1> QED
  BY <1>1, <1>2

LEMMA SendKeeps ==
    ASSUME RepliesInv, NEW h \in Handler, Send(h)
    PROVE  RepliesInv'
<1> DEFINE s == SenderOfRun(h)
<1>0. Runs(h, "cleared") /\ ~Runs(h, "none") /\ s \in Sender /\ Answering(h) /\ ~Answered(h)
  BY RunTyped DEF Send, RepliesInv, Runs, Answering, Answered, Deciding, NoHandler
<1>1. UNCHANGED <<known, recent, logged, loose, looseDay, forgotten>>
  BY DEF Send
<1>2. PICK pc \in {"refused", "replied", "unsure"} :
          /\ Goes(h, pc)
          /\ IF pc = "refused" THEN UNCHANGED <<sent, sentDay>>
             ELSE sent' = [sent EXCEPT ![s] = @ + 1] /\ sentDay' = sentDay + 1
  BY DEF Send
<1>3. pc \in Steps
  BY DEF Steps, Deciding
<1>4. /\ handler' \in [Handler -> HandlerRow]
      /\ \A g \in Handler : /\ g # h => handler'[g] = handler[g]
                            /\ SenderOfRun(g)' = SenderOfRun(g)
                            /\ Answering(g)' <=> Answering(g)
                            /\ \A t \in Sender : Answers(g, t)' <=> Answers(g, t)
      /\ handler'[h].pc = pc
  BY <1>0, <1>2, <1>3, GoesOn DEF Answering, Deciding, Answers
<1>5. RepliesTyped' /\ HandledOnce'
  BY <1>0, <1>1, <1>2, <1>3, <1>4, StillHandledOnce DEF RepliesInv, RepliesTyped
<1>6. ASSUME NEW t \in Sender \ loose' PROVE SenderKept(t)'
  <2>1. SenderKept(t)
    BY <1>1, <1>6 DEF RepliesInv
  <2>2. CASE t = s
    <3>1. sent[s] = 0 /\ s \notin recent /\ Answers(h, s)
      BY <1>0, <2>1, <2>2 DEF SenderKept, Answers
    <3>2. sent'[s] = IF pc = "refused" THEN 0 ELSE 1
      BY <1>0, <1>2, <3>1 DEF RepliesInv, RepliesTyped
    <3>3. \A g \in Handler : Answers(g, s)' => g = h
      BY <1>0, <1>4, <2>1, <2>2, <3>1 DEF SenderKept
    <3>4. Answered(h)' <=> pc # "refused"
      BY <1>4 DEF Answered
    <3> QED
      BY <1>0, <1>1, <1>4, <2>2, <3>1, <3>2, <3>3, <3>4 DEF SenderKept
  <2>3. CASE t # s
    <3>1. sent'[t] = sent[t]
      BY <1>0, <1>2, <2>3 DEF RepliesInv, RepliesTyped
    <3>2. \A g \in Handler : Answers(g, t) => g # h /\ (Answered(g)' <=> Answered(g))
      BY <1>4, <2>3 DEF Answers, Answered
    <3> QED
      BY <1>1, <1>4, <2>1, <3>1, <3>2 DEF SenderKept
  <2> QED
    BY <2>2, <2>3
<1>7. ASSUME ~looseDay' PROVE DayKept'
  <2>1. DayKept /\ sentDay <= logged
    BY <1>0, <1>1, <1>7 DEF RepliesInv, DayKept, Answered, Answering, Deciding
  <2>2. Answered(h)' <=> pc # "refused"
    BY <1>4 DEF Answered
  <2>3. sentDay' = IF pc = "refused" THEN sentDay ELSE sentDay + 1
    BY <1>2
  <2>4. sentDay' <= logged' \/ (sentDay' = logged' + 1 /\ Answered(h)')
    BY <1>1, <2>1, <2>2, <2>3 DEF RepliesInv, RepliesTyped
  <2> QED
    BY <1>1, <1>4, <2>1, <2>4 DEF DayKept
<1> QED
  BY <1>5, <1>6, <1>7 DEF RepliesInv

LEMMA LogKeeps ==
    ASSUME RepliesInv, NEW h \in Handler, Log(h)
    PROVE  RepliesInv'
<1> DEFINE s == SenderOfRun(h)
<1>0. /\ s \in Sender /\ Answers(h, s) /\ Answering(h)
      /\ Runs(h, "refused") \/ Answered(h)
      /\ handler' = [handler EXCEPT ![h] = NoHandler]
      /\ UNCHANGED <<known, sent, sentDay, forgotten>>
  BY RunTyped DEF Log, Ends, RepliesInv, Runs, Answering, Answered, Answers, Deciding, NoHandler
<1>1. \/ /\ Runs(h, "replied") /\ recent' = recent \cup {s} /\ logged' = logged + 1
         /\ UNCHANGED <<loose, looseDay>>
      \/ loose' = loose \cup {s} /\ looseDay' = TRUE /\ UNCHANGED <<recent, logged>>
      \/ Runs(h, "refused") /\ UNCHANGED <<recent, logged, loose, looseDay>>
  BY DEF Log, Unlogged
<1>2. \A g \in Handler : /\ g # h => handler'[g] = handler[g]
                         /\ ~Answering(h)' /\ Runs(h, "none")'
  BY <1>0 DEF RepliesInv, RepliesTyped, Answering, Deciding, Runs, NoHandler
<1>3. RepliesTyped'
  <2>1. handler' \in [Handler -> HandlerRow]
    BY <1>0 DEF RepliesInv, RepliesTyped, HandlerRow
  <2>2. recent' \subseteq Sender /\ logged' \in Nat /\ loose' \subseteq Sender
    BY <1>0, <1>1 DEF RepliesInv, RepliesTyped
  <2>3. looseDay' \in BOOLEAN
    BY <1>1, ZenonT(20) DEF RepliesInv, RepliesTyped
  <2> QED
    BY <1>0, <2>1, <2>2, <2>3 DEF RepliesInv, RepliesTyped
<1>4. HandledOnce'
  <2>1. \A g \in Handler : ~Runs(g, "none")' => g # h /\ handler'[g] = handler[g]
    BY <1>2
  <2>2. ASSUME NEW g \in Handler, ~Runs(g, "none")'
        PROVE  handler'[g].message \in known'[handler'[g].process] \cup forgotten'
    BY <1>0, <2>1, <2>2 DEF RepliesInv, HandledOnce, Runs
  <2>3. ASSUME NEW f \in Handler, NEW g \in Handler, f # g, ~Runs(g, "none")',
               handler'[f].process = handler'[g].process, handler'[f].message = handler'[g].message
        PROVE  handler'[g].message \in forgotten'
    <3>1. handler[g].process \in Process /\ handler'[h] = NoHandler
      BY <1>0, <2>1, <2>3, RunTyped DEF RepliesInv, RepliesTyped, Runs
    <3>2. f # h
      BY <2>1, <2>3, <3>1, ReplyAssumption DEF ReplyAssumption, NoHandler
    <3> QED
      BY <1>0, <1>2, <2>1, <2>3, <3>2 DEF RepliesInv, HandledOnce, Runs
  <2> QED
    BY <2>2, <2>3 DEF HandledOnce
<1>5. ASSUME NEW t \in Sender \ loose' PROVE SenderKept(t)'
  <2>1. SenderKept(t)
    BY <1>1, <1>5 DEF RepliesInv
  <2>2. CASE t = s
    <3>1. ASSUME NEW g \in Handler, Answering(g)' /\ SenderOfRun(g)' = s PROVE FALSE
      <4>1. g # h /\ handler'[g] = handler[g]
        BY <1>2, <3>1
      <4>2. Answers(g, s)
        BY <3>1, <4>1 DEF Answers, Answering, SenderOfRun
      <4> QED
        BY <1>0, <2>1, <2>2, <4>1, <4>2 DEF SenderKept
    <3>2. sent[s] = 0 \/ s \in recent'
      BY <1>0, <1>1, <1>5, <2>1, <2>2 DEF SenderKept, Answered, Runs
    <3>3. sent'[s] \in {0, 1}
      BY <1>0, <2>1, <2>2 DEF SenderKept
    <3> HIDE DEF s
    <3> QED
      BY <1>0, <2>2, <3>1, <3>2, <3>3 DEF SenderKept, Answers
  <2>3. CASE t # s
    BY <1>0, <1>1, <1>2, <2>1, <2>3 DEF SenderKept, Answers, Answering, Answered, SenderOfRun
  <2> QED
    BY <2>2, <2>3
<1>6. ASSUME ~looseDay' PROVE DayKept'
  <2>1. DayKept
    BY <1>1, <1>6 DEF RepliesInv
  <2>2. \A g \in Handler : ~Answering(g)'
    BY <1>0, <1>2, <2>1 DEF DayKept, Answering
  <2>3. logged' <= MaxPerDay /\ sentDay' <= logged'
    BY <1>0, <1>1, <1>6, <2>1, ReplyAssumption
       DEF DayKept, RepliesInv, RepliesTyped, ReplyAssumption, Answered, Answering, Deciding, Runs
  <2> QED
    BY <2>2, <2>3 DEF DayKept
<1> QED
  BY <1>3, <1>4, <1>5, <1>6 DEF RepliesInv

LEMMA DeleteRuleKeeps == RepliesInv /\ DeleteRule => RepliesInv'
<1> SUFFICES ASSUME RepliesInv, DeleteRule PROVE RepliesInv'
  OBVIOUS
<1>0. /\ UNCHANGED <<known, handler, sent, sentDay, forgotten>>
      /\ recent' = {} /\ logged' = 0
      /\ loose' = loose \cup {s \in Sender : sent[s] > 0}
      /\ ~looseDay' => ~looseDay /\ ~(sentDay > 0)
      /\ looseDay' \in BOOLEAN
  BY DEF DeleteRule
<1>1. RepliesTyped' /\ HandledOnce'
  BY <1>0 DEF RepliesInv, RepliesTyped, HandledOnce, Runs
<1>2. ASSUME NEW s \in Sender \ loose' PROVE SenderKept(s)'
  <2>1. SenderKept(s) /\ sent[s] = 0
    BY <1>0, <1>2 DEF RepliesInv, RepliesTyped
  <2> QED
    BY <1>0, <2>1 DEF SenderKept, Answers, Answering, Answered, SenderOfRun
<1>3. ASSUME ~looseDay' PROVE DayKept'
  <2>1. DayKept /\ sentDay = 0
    BY <1>0, <1>3 DEF RepliesInv, RepliesTyped
  <2> QED
    BY <1>0, <2>1, ReplyAssumption DEF ReplyAssumption, DayKept, Answering, Answered
<1> QED
  BY <1>1, <1>2, <1>3 DEF RepliesInv

LEMMA CooldownPassesKeeps ==
    ASSUME RepliesInv, NEW s \in Sender, CooldownPasses(s)
    PROVE  RepliesInv'
<1>0. /\ UNCHANGED <<known, handler, logged, sentDay, looseDay, forgotten>>
      /\ \A h \in Handler : ~Answers(h, s)
      /\ recent' = recent \ {s} /\ sent' = [sent EXCEPT ![s] = 0] /\ loose' = loose \ {s}
  BY DEF CooldownPasses, Answers, Answering
<1>1. RepliesTyped' /\ HandledOnce' /\ (looseDay' \/ DayKept')
  BY <1>0 DEF RepliesInv, RepliesTyped, HandledOnce, Runs, DayKept, Answering, Answered
<1>2. ASSUME NEW t \in Sender \ loose' PROVE SenderKept(t)'
  <2>1. CASE t = s
    BY <1>0, <2>1 DEF RepliesInv, RepliesTyped, SenderKept, Answers, Answering, SenderOfRun
  <2>2. CASE t # s
    BY <1>0, <1>2, <2>2
       DEF RepliesInv, RepliesTyped, SenderKept, Answers, Answering, Answered, SenderOfRun
  <2> QED
    BY <2>1, <2>2
<1> QED
  BY <1>1, <1>2 DEF RepliesInv

LEMMA DayEndsKeeps == RepliesInv /\ DayEnds => RepliesInv'
<1> SUFFICES ASSUME RepliesInv, DayEnds PROVE RepliesInv'
  OBVIOUS
<1>0. /\ UNCHANGED <<known, handler, recent, sent, loose, forgotten>>
      /\ logged' = 0 /\ sentDay' = 0
      /\ ~looseDay' => ~looseDay \/ \A h \in Handler : ~Answering(h)
      /\ looseDay' \in BOOLEAN
  BY DEF DayEnds, Answering
<1>1. RepliesTyped' /\ HandledOnce' /\ \A s \in Sender \ loose' : SenderKept(s)'
  BY <1>0 DEF RepliesInv, RepliesTyped, HandledOnce, Runs, SenderKept, Answers, Answering, Answered,
              SenderOfRun
<1>2. ASSUME ~looseDay' PROVE DayKept'
  BY <1>0, <1>2, ReplyAssumption DEF ReplyAssumption, RepliesInv, DayKept, Answering, Answered
<1> QED
  BY <1>1, <1>2 DEF RepliesInv

LEMMA ProcessRestarts ==
    ASSUME RepliesInv, NEW w \in Process, Restart(w)
    PROVE  RepliesInv'
<1> DEFINE Lost(h) == handler[h].process = w /\ Answered(h)
<1>0. /\ known' = [known EXCEPT ![w] = {}] /\ forgotten' = forgotten \cup known[w]
      /\ handler' = [h \in Handler |-> IF handler[h].process = w THEN NoHandler ELSE handler[h]]
      /\ UNCHANGED <<recent, logged, sent, sentDay>>
  BY DEF Restart
<1>1. /\ \A h \in Handler : Lost(h) => SenderOfRun(h) \in loose' /\ looseDay' = TRUE
      /\ loose \subseteq loose' /\ loose' \subseteq Sender
      /\ looseDay' \in BOOLEAN /\ (looseDay => looseDay')
  <2> DEFINE cut == {SenderOfRun(h) : h \in {h \in Handler : Lost(h)}}
  <2>1. loose' = loose \cup cut /\ looseDay' = (looseDay \/ cut # {})
    BY DEF Restart, Answered
  <2>2. \A h \in Handler : Lost(h) => SenderOfRun(h) \in cut
    OBVIOUS
  <2>3. cut \subseteq Sender
    BY RunTyped DEF RepliesInv, Answered, NoHandler
  <2> HIDE DEF cut
  <2> QED
    BY <2>1, <2>2, <2>3 DEF RepliesInv, RepliesTyped
<1>2. \A h \in Handler : /\ handler[h].process # w => handler'[h] = handler[h]
                         /\ handler[h].process = w => handler'[h] = NoHandler
  BY <1>0
<1>3. RepliesTyped'
  BY <1>0, <1>1 DEF RepliesInv, RepliesTyped, HandlerRow
<1>4. HandledOnce'
  <2>1. \A h \in Handler : ~Runs(h, "none")' => handler'[h] = handler[h] /\ handler[h].process # w
    BY <1>2 DEF Runs, NoHandler
  <2>2. \A h \in Handler : handler[h].process \in Process \/ Runs(h, "none")
    BY RunTyped DEF RepliesInv, Runs
  <2>3. ASSUME NEW h \in Handler, ~Runs(h, "none")'
        PROVE  handler'[h].message \in known'[handler'[h].process] \cup forgotten'
    BY <1>0, <2>1, <2>2, <2>3 DEF RepliesInv, RepliesTyped, HandledOnce, Runs
  <2>4. ASSUME NEW g \in Handler, NEW h \in Handler, g # h, ~Runs(h, "none")',
               handler'[g].process = handler'[h].process, handler'[g].message = handler'[h].message
        PROVE  handler'[h].message \in forgotten'
    <3>1. handler[h].process \in Process
      BY <2>1, <2>2, <2>4 DEF Runs
    <3>2. handler'[g].process # NoProcess
      BY <2>1, <2>4, <3>1, ReplyAssumption DEF ReplyAssumption
    <3>3. handler'[g] = handler[g]
      BY <1>2, <3>2 DEF NoHandler
    <3> QED
      BY <1>0, <2>1, <2>4, <3>3 DEF RepliesInv, HandledOnce, Runs
  <2> QED
    BY <2>3, <2>4 DEF HandledOnce
<1>5. \A h \in Handler : Answering(h)' => handler'[h] = handler[h] /\ Answering(h)
  BY <1>2 DEF Answering, NoHandler, Deciding
<1>6. ASSUME NEW s \in Sender \ loose' PROVE SenderKept(s)'
  <2>1. SenderKept(s)
    BY <1>1, <1>6 DEF RepliesInv
  <2>2. \A h \in Handler : Answers(h, s)' => Answers(h, s) /\ (Answered(h)' <=> Answered(h))
    BY <1>5 DEF Answers, SenderOfRun, Answered
  <2>3. \A h \in Handler : Answers(h, s) /\ Answered(h) => Answers(h, s)' /\ Answered(h)'
    BY <1>1, <1>2, <1>6 DEF Answers, Answering, SenderOfRun, Answered
  <2> QED
    BY <1>0, <2>1, <2>2, <2>3 DEF SenderKept
<1>7. ASSUME ~looseDay' PROVE DayKept'
  <2>1. DayKept
    BY <1>1, <1>7 DEF RepliesInv
  <2>2. \A h \in Handler : Answered(h) => Answered(h)'
    BY <1>1, <1>2, <1>7 DEF Answered
  <2> QED
    BY <1>0, <1>5, <2>1, <2>2 DEF DayKept
<1> QED
  BY <1>3, <1>4, <1>6, <1>7 DEF RepliesInv

(* The handlers before the limits, and the messages.                       *)
LEMMA EarlyStepKeeps ==
    ASSUME RepliesInv, NEW h \in Handler, ReadSwitch(h) \/ GetClient(h) \/ Match(h)
    PROVE  RepliesInv'
<1>1. PICK pc \in {"called", "wanted", "unmatched"} : Runs(h, pc)
  BY DEF ReadSwitch, GetClient, Match
<1>2. /\ ~Answered(h) /\ handler[h] # NoHandler
      /\ handler[h] \in [pc : Steps, process : Process, message : Message]
  BY <1>1, RunTyped DEF RepliesInv, Runs, Answered, NoHandler
<1>3. UNCHANGED <<known, logVars>>
  BY DEF ReadSwitch, GetClient, Match
<1>4. CASE Ends(h)
  BY <1>2, <1>3, <1>4, Undecided DEF Ends, NoHandler, HandlerRow, Deciding
<1>5. ASSUME NEW next \in {"wanted", "unmatched", "matched"}, Goes(h, next) PROVE RepliesInv'
  <2> DEFINE row == [handler[h] EXCEPT !.pc = next]
  <2>1. /\ row \in HandlerRow /\ row.pc \notin Deciding
        /\ row.process = handler[h].process /\ row.message = handler[h].message
    BY <1>2 DEF HandlerRow, Steps, Deciding
  <2>2. handler' = [handler EXCEPT ![h] = row]
    BY <1>5 DEF Goes
  <2> HIDE DEF row
  <2> QED
    BY <1>2, <1>3, <2>1, <2>2, Undecided
<1> QED
  BY <1>4, <1>5 DEF ReadSwitch, GetClient, Match

LEMMA RepliesStep == RepliesInv /\ [ReplyNext]_replyVars => RepliesInv'
<1> SUFFICES ASSUME RepliesInv, [ReplyNext]_replyVars PROVE RepliesInv'
  OBVIOUS
<1>1. ASSUME UNCHANGED <<known, handler, logVars>> PROVE RepliesInv'
  BY <1>1 DEF RepliesInv, RepliesTyped, HandledOnce, SenderKept, DayKept, Runs, Answers, Answering,
              Answered, SenderOfRun, logVars
<1>2. CASE UNCHANGED replyVars
  BY <1>1, <1>2 DEF replyVars, logVars
<1>3. ASSUME NEW w \in Process,
             \/ ClientChanges(w) \/ EnableLoads(w) \/ EnableConnects(w) \/ EnableSaves(w)
             \/ EnableRegisters(w) \/ DisableLoads(w) \/ DisableSaves(w) \/ DisableUnregisters(w)
      PROVE  RepliesInv'
  BY <1>1, <1>3 DEF ClientChanges, EnableLoads, EnableConnects, EnableSaves, EnableRegisters,
                    DisableLoads, DisableSaves, DisableUnregisters
<1>4. CASE RoundReads \/ RoundConnects \/ RoundRegisters \/ SwitchRule
  BY <1>1, <1>4 DEF RoundReads, RoundConnects, RoundRegisters, SwitchRule
<1> QED
  BY <1>2, <1>3, <1>4, ReceiveKeeps, ForgetKeeps, EarlyStepKeeps, CheckLimitsKeeps, SendKeeps,
     LogKeeps, DeleteRuleKeeps, CooldownPassesKeeps, DayEndsKeeps, ProcessRestarts DEF ReplyNext

LEMMA RepliesStart == ReplyInit => RepliesInv
<1> SUFFICES ASSUME ReplyInit PROVE RepliesInv
  OBVIOUS
<1>1. \A h \in Handler : Runs(h, "none") /\ ~Answering(h)
  BY DEF ReplyInit, Runs, NoHandler, Answering, Deciding
<1>2. RepliesTyped /\ HandledOnce
  BY <1>1 DEF ReplyInit, RepliesTyped, HandlerRow, HandledOnce
<1>3. DayKept /\ \A s \in Sender : SenderKept(s)
  BY <1>1, ReplyAssumption DEF ReplyAssumption, ReplyInit, DayKept, SenderKept, Answers
<1> QED
  BY <1>2, <1>3 DEF RepliesInv

(* However listeners, requests and restarts interleave, for any number of  *)
(* processes, handlers and messages a sender has one reply within the      *)
(* cooldown and the account at most max_replies_per_day a day, as long as  *)
(* handlers did not pass the limits at once and every reply is logged.     *)
THEOREM RepliesAreBounded == ReplySpec => []RepliesBounded
<1>1. RepliesInv => RepliesBounded
  <2> SUFFICES ASSUME RepliesInv PROVE RepliesBounded
    OBVIOUS
  <2>1. \A s \in Sender \ loose : sent[s] <= 1
    BY DEF RepliesInv, SenderKept
  <2>2. ASSUME ~looseDay PROVE sentDay <= MaxPerDay
    <3>1. DayKept
      BY <2>2 DEF RepliesInv
    <3>2. \A h \in Handler : Answered(h) => logged < MaxPerDay
      BY <3>1 DEF DayKept, Answered, Answering, Deciding
    <3> QED
      BY <3>1, <3>2, ReplyAssumption DEF DayKept, ReplyAssumption, RepliesInv, RepliesTyped
  <2> QED
    BY <2>1, <2>2 DEF RepliesBounded
<1> QED
  BY <1>1, RepliesStart, RepliesStep, PTL DEF ReplySpec

(* The listeners: types. *)
ToggleRow == [pc : {"none", "enabling", "connected", "saved", "disabling", "disabled"}, was : BOOLEAN]

ListenTyped ==
    /\ replying \in BOOLEAN /\ rule \in {"active", "off", "deleted"}
    /\ pooled \in [Process -> {"none", "down", "live"}]
    /\ handlers \subseteq Process /\ attached \subseteq handlers
    /\ \A w \in attached : pooled[w] # "none"
    /\ toggle \in [Process -> ToggleRow]
    /\ round \in {"start", "attaching", "asleep", "verifying", "registering", "dead"}
    /\ faults \in 0 .. ReplyFaults

(* A callback stays with a client there is. *)
LEMMA ClientTyped ==
    ASSUME ListenTyped, NEW w \in Process, UNCHANGED handlers,
           Connected(w) \/ Dropped(w) \/ (pooled' = [pooled EXCEPT ![w] = "down"] /\ UNCHANGED attached)
    PROVE  /\ pooled' \in [Process -> {"none", "down", "live"}]
           /\ attached' \subseteq handlers' /\ \A v \in attached' : pooled'[v] # "none"
BY DEF ListenTyped, Connected, Dropped

LEMMA RegisterTyped ==
    ASSUME ListenTyped, NEW w \in Process, Register(w), UNCHANGED pooled
    PROVE  /\ handlers' \subseteq Process /\ attached' \subseteq handlers'
           /\ \A v \in attached' : pooled'[v] # "none"
BY DEF ListenTyped, Register

LEMMA ToggleKeeps ==
    ASSUME ListenTyped, NEW w \in Process,
           \/ ClientChanges(w) \/ EnableLoads(w) \/ EnableConnects(w) \/ EnableSaves(w)
           \/ EnableRegisters(w) \/ DisableLoads(w) \/ DisableSaves(w) \/ DisableUnregisters(w)
    PROVE  ListenTyped'
<1>1. CASE ClientChanges(w)
  BY <1>1, ClientTyped DEF ClientChanges, ListenTyped
<1>2. CASE EnableLoads(w) \/ DisableLoads(w)
  <2>1. toggle' \in [Process -> ToggleRow]
    BY <1>2 DEF EnableLoads, DisableLoads, ListenTyped, ToggleRow
  <2> QED
    BY <1>2, <2>1 DEF EnableLoads, DisableLoads, ListenTyped
<1>3. CASE EnableConnects(w)
  <2>1. toggle' \in [Process -> ToggleRow]
    <3>1. toggle' = [toggle EXCEPT ![w].pc = "connected"] \/ toggle' = [toggle EXCEPT ![w] = NoToggle]
      BY <1>3 DEF EnableConnects
    <3>2. [toggle EXCEPT ![w].pc = "connected"] \in [Process -> ToggleRow]
      BY DEF ListenTyped, ToggleRow
    <3>3. [toggle EXCEPT ![w] = NoToggle] \in [Process -> ToggleRow]
      BY DEF ListenTyped, ToggleRow, NoToggle
    <3> QED
      BY <3>1, <3>2, <3>3
  <2> QED
    BY <1>3, <2>1, ClientTyped DEF EnableConnects, ListenTyped
<1>4. CASE EnableSaves(w) \/ DisableSaves(w)
  <2>1. toggle' \in [Process -> ToggleRow]
    BY <1>4 DEF EnableSaves, DisableSaves, ListenTyped, ToggleRow
  <2>2. replying' \in BOOLEAN
    BY <1>4 DEF EnableSaves, DisableSaves
  <2> QED
    BY <1>4, <2>1, <2>2 DEF EnableSaves, DisableSaves, ListenTyped
<1>5. CASE EnableRegisters(w)
  <2>1. toggle' \in [Process -> ToggleRow]
    BY <1>5 DEF EnableRegisters, ListenTyped, ToggleRow, NoToggle
  <2> QED
    BY <1>5, <2>1, RegisterTyped DEF EnableRegisters, ListenTyped
<1>6. CASE DisableUnregisters(w)
  <2>1. toggle' \in [Process -> ToggleRow]
    BY <1>6 DEF DisableUnregisters, ListenTyped, ToggleRow, NoToggle
  <2> QED
    BY <1>6, <2>1 DEF DisableUnregisters, ListenTyped
<1> QED
  BY <1>1, <1>2, <1>3, <1>4, <1>5, <1>6

LEMMA RoundKeeps ==
    ASSUME ListenTyped, RoundReads \/ RoundConnects \/ RoundRegisters \/ SwitchRule \/ DeleteRule
    PROVE  ListenTyped'
<1>1. CASE RoundReads \/ SwitchRule \/ DeleteRule
  BY <1>1 DEF RoundReads, SwitchRule, DeleteRule, ListenTyped
<1>2. CASE RoundConnects
  BY <1>2, ClientTyped, ReplyAssumption DEF RoundConnects, ListenTyped, ReplyAssumption
<1>3. CASE RoundRegisters
  BY <1>3, RegisterTyped, ReplyAssumption DEF RoundRegisters, ListenTyped, ReplyAssumption
<1> QED
  BY <1>1, <1>2, <1>3

LEMMA HandlerKeepsListeners ==
    ASSUME ListenTyped, RepliesTyped, NEW h \in Handler,
           \/ ReadSwitch(h) \/ GetClient(h) \/ Match(h) \/ CheckLimits(h) \/ Send(h) \/ Log(h)
    PROVE  ListenTyped'
<1>1. CASE ReadSwitch(h) \/ Match(h) \/ CheckLimits(h)
  BY <1>1 DEF ReadSwitch, Match, CheckLimits, listenVars, ListenTyped
<1>2. CASE Send(h) \/ Log(h)
  <2>1. faults' \in 0 .. ReplyFaults
    BY <1>2, ReplyAssumption DEF ReplyAssumption, Send, Log, ListenTyped
  <2> QED
    BY <1>2, <2>1 DEF Send, Log, listenVars, ListenTyped
<1>3. CASE GetClient(h)
  <2>1. handler[h].process \in Process
    BY <1>3, RunTyped DEF GetClient, Runs
  <2> QED
    BY <1>3, <2>1, ClientTyped DEF GetClient, ListenTyped
<1> QED
  BY <1>1, <1>2, <1>3

LEMMA ListenStep == ListenTyped /\ RepliesTyped /\ [ReplyNext]_replyVars => ListenTyped'
<1> SUFFICES ASSUME ListenTyped, RepliesTyped, [ReplyNext]_replyVars PROVE ListenTyped'
  OBVIOUS
<1>1. CASE UNCHANGED <<listenVars, faults>>
  BY <1>1 DEF ListenTyped, listenVars
<1>2. CASE UNCHANGED replyVars
  BY <1>1, <1>2 DEF replyVars, listenVars
<1>3. ASSUME NEW w \in Process, Restart(w) PROVE ListenTyped'
  <2>1. /\ faults' \in 0 .. ReplyFaults /\ Dropped(w) /\ handlers' = handlers \ {w}
        /\ toggle' = [toggle EXCEPT ![w] = NoToggle] /\ UNCHANGED <<replying, rule>>
        /\ round' = IF w = Winner THEN "start" ELSE round
    BY <1>3, ReplyAssumption DEF ReplyAssumption, Restart, ListenTyped
  <2>2. toggle' \in [Process -> ToggleRow]
    BY <2>1 DEF ListenTyped, ToggleRow, NoToggle
  <2> QED
    BY <2>1, <2>2 DEF Dropped, ListenTyped
<1>4. ASSUME NEW w \in Process, NEW m \in Message, Forget(w, m) \/ \E h \in Handler : Receive(h, w, m)
      PROVE  ListenTyped'
  BY <1>1, <1>4 DEF Forget, Receive
<1>5. ASSUME DayEnds \/ \E s \in Sender : CooldownPasses(s) PROVE ListenTyped'
  BY <1>1, <1>5 DEF DayEnds, CooldownPasses
<1> QED
  BY <1>2, <1>3, <1>4, <1>5, ToggleKeeps, RoundKeeps, HandlerKeepsListeners DEF ReplyNext

(* Every variable of the automatic replies has its type; a callback is     *)
(* attached to a client there is.                                          *)
THEOREM RepliesKeepType == ReplySpec => []ReplyTypeOK
<1>1. ReplyInit => ListenTyped /\ RepliesInv
  BY RepliesStart, ReplyAssumption
     DEF ReplyAssumption, ReplyInit, ListenTyped, ToggleRow, NoToggle
<1>2. RepliesInv => RepliesTyped
  BY DEF RepliesInv
<1>3. ListenTyped /\ RepliesTyped => ReplyTypeOK
  <2> SUFFICES ASSUME ListenTyped, RepliesTyped PROVE ReplyTypeOK
    OBVIOUS
  <2>1. \A h \in Handler : handler[h] = NoHandler \/
           handler[h] \in [pc : Steps, process : Process, message : Message]
    BY DEF RepliesTyped, HandlerRow
  <2> QED
    BY <2>1 DEF ListenTyped, RepliesTyped, ReplyTypeOK, ToggleRow, Steps
<1> QED
  BY <1>1, <1>2, <1>3, RepliesStep, ListenStep, PTL DEF ReplySpec

-----------------------------------------------------------------------------
(* The parts together, for every value of all their constants.  MCJobs     *)
(* follows one part in each behaviour; here all of them are at work and    *)
(* interleave as they please.                                              *)
allJobVars == <<workVars, rtVars, replyVars>>

AllJobsNext ==
    \/ Next /\ UNCHANGED <<joinVars, aiVars, rtVars, replyVars>>
    \/ JoinNext /\ UNCHANGED <<vars, aiVars, rtVars, replyVars>>
    \/ TaskNext /\ UNCHANGED <<vars, joinVars, rtVars, replyVars>>
    \/ RealtimeNext /\ UNCHANGED <<workVars, replyVars>>
    \/ ReplyNext /\ UNCHANGED <<workVars, rtVars>>

AllJobsSpec ==
    /\ Init /\ JoinInit /\ TaskInit /\ RealtimeInit /\ ReplyInit
    /\ [][AllJobsNext]_allJobVars

(* A step of the whole is a step of every part, or leaves the part alone.  *)
LEMMA AllJobsStep ==
    [AllJobsNext]_allJobVars => /\ [Next]_vars /\ [JoinNext]_joinVars /\ [TaskNext]_aiVars
                                /\ [RealtimeNext]_rtVars /\ [ReplyNext]_replyVars
BY DEF AllJobsNext, allJobVars, workVars

LEMMA AllJobsKeepSpecs ==
    AllJobsSpec => /\ Spec /\ JoinSpec /\ TaskSpec /\ ReplySpec
                   /\ RealtimeInit /\ [][RealtimeNext]_rtVars
BY AllJobsStep, PTL DEF AllJobsSpec, Spec, JoinSpec, TaskSpec, ReplySpec

(* What the run follows is one of these behaviours, so that whatever is    *)
(* proved of the whole holds of the run, whatever instance it checks.      *)
LEMMA JobsAreFollowed == JobsSpec => AllJobsSpec
<1>1. JobsInit => Init /\ JoinInit /\ TaskInit /\ RealtimeInit /\ ReplyInit
  BY DEF JobsInit
<1>2. [JobsNext]_jobVars => [AllJobsNext]_allJobVars
  <2> SUFFICES ASSUME [JobsNext]_jobVars PROVE [AllJobsNext]_allJobVars
    OBVIOUS
  <2>1. CASE WorkNext /\ UNCHANGED <<rtVars, replyVars>>
    BY <2>1 DEF WorkNext, AllJobsNext
  <2>2. CASE UpdateNext /\ UNCHANGED <<workVars, replyVars>>
    BY <2>2 DEF UpdateNext, AllJobsNext
  <2>3. CASE RepliesNext /\ UNCHANGED <<workVars, rtVars>>
    BY <2>3 DEF RepliesNext, AllJobsNext
  <2>4. CASE UNCHANGED jobVars
    BY <2>4 DEF jobVars, allJobVars
  <2> QED
    BY <2>1, <2>2, <2>3, <2>4 DEF JobsNext
<1> QED
  BY <1>1, <1>2, PTL DEF JobsSpec, AllJobsSpec

LEMMA AllJobsKeepType == AllJobsSpec => []JobsTypeOK
<1>1. UpdatesInv => RealtimeTypeOK
  BY DEF UpdatesInv, UpdatesTyped
<1>2. TypeOK /\ JoinTypeOK /\ TaskTypeOK /\ RealtimeTypeOK /\ ReplyTypeOK => JobsTypeOK
  BY DEF JobsTypeOK
<1> QED
  BY <1>1, <1>2, AllJobsKeepSpecs, LockTyped, JoinsKeepType, TasksKeepType, UpdatesHold, RepliesKeepType, PTL

(* Every variable of the lock, the join queue, the AI tasks and schedules, *)
(* the live updates and the automatic replies keeps its type, whichever of *)
(* them is followed.                                                       *)
THEOREM JobsKeepType == JobsSpec => []JobsTypeOK
BY JobsAreFollowed, AllJobsKeepType, PTL

(* What is promised of each kind of background work holds while all of     *)
(* them are at work: one process has the lock, an account joins within its *)
(* limit, at most the item under way is joined in a pause, none is joined  *)
(* twice or in a flood wait, a schedule keeps its interval, a cancelled    *)
(* task stays cancelled, an update reaches every open socket, and a sender *)
(* gets no more replies a day than the rule allows.                        *)
THEOREM JobsAreSafe ==
    ASSUME OneJoinScheduler
    PROVE  AllJobsSpec => /\ []AtMostOneScheduler
                          /\ [](DailyBudget /\ JoinedOnce /\ FloodRespected /\ PauseStopsQueue)
                          /\ []IntervalKept /\ CancelSticks
                          /\ []UpdateReachesAll /\ []RepliesBounded
<1>1. UpdatesInv => UpdateReachesAll
  BY DEF UpdatesInv
<1>2. JoinSpec => []JoinedOnce /\ []FloodRespected /\ []PauseStopsQueue
  BY LinkJoinedOnce, FloodIsRespected, PauseStopsJoins
<1> QED
  BY <1>1, <1>2, AllJobsKeepSpecs, OneScheduler, LimitKept, IntervalIsKept, CancelIsKept, UpdatesHold,
     RepliesAreBounded, PTL
=============================================================================
