---------------------------- MODULE EdbusConnection ----------------------------
(***************************************************************************)
(* EdbusConnection.cpp: EdbusConnection objects of one program.  The       *)
(* objects of a bus share one DBusConnection of libdbus with its queue,    *)
(* its filters and its watch; FLTK's loop has one handler for the          *)
(* descriptor of a bus and the timers of all.                              *)
(***************************************************************************)
EXTENDS Naturals, Sequences, FiniteSets, SequencesExt

CONSTANTS
  Conns,    \* EdbusConnection objects
  Buses,
  Paths,    \* object paths
  Null,
  Joins,    \* the buses that the program connects each object to
  MaxCalls, \* bound: calls of the program that change each object
  Mail      \* bound: the messages that the daemon sends, in order

ASSUME ConnsAssumption ==
  /\ Joins \in [Conns -> SUBSET Buses] /\ MaxCalls \in [Conns -> Nat]
  /\ Mail \in Seq([bus : Buses, path : Paths])
  /\ Null \notin Conns \cup Buses

VARIABLES
  dc,          \* EdbusConnImpl of each object
  socket,      \* messages that the daemon has sent and nobody has read
  queue,       \* messages in the queue of libdbus
  filters,     \* filters of each bus: the objects whose dc they were given
  watcher,     \* whose dc the watch functions of a bus are given
  handler,     \* whose read_watch_cb() FLTK calls for the descriptor of a bus
  timers,      \* the objects with a dispatch_cb() timeout
  dispatching, \* the object whose dispatch_cb() runs
  alive,       \* FALSE when the program has ended
  sent,        \* history: number of messages the daemon has sent
  made,        \* history: calls of the program that change its objects
  calls,       \* history: how often the last step called whose callback
  registered,  \* history: the paths that the program has registered
  stalled      \* history: buses with messages in the queue and no timer, since
               \* read_watch_cb() is not who has read or who dispatches them

objectVars == <<dc, registered, made>>
libVars    == <<filters, watcher, handler>>
dbusVars   == <<objectVars, libVars, socket, queue, timers, dispatching, alive, sent, calls, stalled>>

(* EdbusConnImpl, "none" before the first connect(), "freed" when the      *)
(* destructor has run; callback stands for both signal_cb and              *)
(* method_call_cb; watch_list has the watch of each bus that is in it.     *)
NoList == {Null}
Impl == [phase : {"none", "there", "freed"}, conn : Buses \cup {Null}, callback : BOOLEAN,
         object_list : Seq(Paths), watch_list : (SUBSET Buses) \cup {NoList}]

NoImpl == [phase |-> "none", conn |-> Null, callback |-> FALSE, object_list |-> <<>>, watch_list |-> NoList]

Connected(e) == dc[e].conn # Null
NoCalls      == [e \in Conns |-> 0]

DbusInit ==
  /\ dc = [e \in Conns |-> NoImpl]
  /\ socket = [b \in Buses |-> <<>>] /\ queue = socket /\ filters = socket
  /\ watcher = [b \in Buses |-> Null] /\ handler = watcher
  /\ timers = {} /\ dispatching = Null /\ alive = TRUE
  /\ sent = 0 /\ made = [e \in Conns |-> 0]
  /\ calls = NoCalls /\ registered = [e \in Conns |-> {}] /\ stalled = {}
-------------------------------------------------------------------------------
(* The program, between callbacks.                                         *)
(* A timer is set for what is in the queue of a bus.                       *)
Timed(b) == \E e \in timers : dc[e].conn = b

(* A blocking call or a wait() sets none.                                  *)
Stalled(b) ==
  stalled' = (stalled \ {b}) \cup {c \in {b} : queue'[c] # <<>> /\ ~Timed(c)}

Idle == alive /\ dispatching = Null

(* A call that changes an object.                                          *)
ProgramCall(e) ==
  /\ Idle
  /\ made[e] < MaxCalls[e] /\ made' = [made EXCEPT ![e] = @ + 1]
  /\ calls' = NoCalls

(* connect(), also of an object that is connected, and to another bus: the *)
(* connection it had keeps its filter, its watch and its handler.  When it *)
(* fails, conn is NULL and the rest of dc stays.                           *)
Connect(e, b) ==
  /\ ProgramCall(e) /\ dc[e].phase # "freed" /\ b \in Joins[e]
  /\ \E conn \in {b, Null} : dc' = [dc EXCEPT ![e].phase = "there", ![e].conn = conn]
  /\ UNCHANGED <<registered, libVars, socket, queue, timers, dispatching, alive, sent, stalled>>

(* signal_callback() and method_callback(), with a function or with NULL,  *)
(* connected or not                                                        *)
SetCallback(e) ==
  /\ ProgramCall(e) /\ dc[e].phase = "there"
  /\ dc' = [dc EXCEPT ![e].callback = ~@]
  /\ UNCHANGED <<registered, libVars, socket, queue, timers, dispatching, alive, sent, stalled>>

(* Mutant: an empty list means that nothing is registered.                 *)
HaveRegisteredStrict(e, p) == \E k \in DOMAIN dc[e].object_list : dc[e].object_list[k] = p

(* have_registered_object()                                                *)
HaveRegistered(e, p) ==
  dc[e].object_list = <<>> \/ \E k \in DOMAIN dc[e].object_list : dc[e].object_list[k] = p

RegisterObject(e, p) ==
  /\ ProgramCall(e) /\ Connected(e)
  /\ dc' = [dc EXCEPT ![e].object_list = IF HaveRegistered(e, p) THEN @ ELSE Append(@, p)]
  /\ registered' = [registered EXCEPT ![e] = @ \cup {p}]
  /\ UNCHANGED <<libVars, socket, queue, timers, dispatching, alive, sent, stalled>>

UnregisterObject(e, p) ==
  /\ ProgramCall(e) /\ Connected(e)
  /\ dc' = [dc EXCEPT ![e].object_list = RemoveFirst(@, p)]
  /\ registered' = [registered EXCEPT ![e] = @ \ {p}]
  /\ UNCHANGED <<libVars, socket, queue, timers, dispatching, alive, sent, stalled>>

(* setup_listener_with_fltk(): libdbus calls the new edbus_add_watch()     *)
(* before or after the old edbus_remove_watch(), which takes the handler   *)
(* of the descriptor away whosever it is.  An old dc without a watch_list  *)
(* fails its assertion; one that was freed does, or does not.              *)
SetWatchFunctions(e, b, old) ==
  /\ watcher' = [watcher EXCEPT ![b] = e]
  /\ \E h \in IF old = Null THEN {e} ELSE {e, Null} :
       /\ handler' = [handler EXCEPT ![b] = h]
       /\ dc' = [c \in Conns |->
                  CASE c = e -> [dc[c] EXCEPT !.watch_list = IF h = Null /\ old = e THEN {} ELSE {b}]
                    [] c # e /\ c = old -> [dc[c] EXCEPT !.watch_list = @ \ {b}]
                    [] OTHER -> dc[c]]
  /\ alive' \in IF old \in {Null, e} THEN {TRUE}
                ELSE IF dc[old].phase = "freed" THEN BOOLEAN ELSE {dc[old].watch_list # NoList}

(* setup_listener() and setup_listener_with_fltk(): setup_filter() adds a  *)
(* filter on each call.                                                    *)
SetupListener(e, fltk) ==
  LET b == dc[e].conn IN
  /\ ProgramCall(e) /\ Connected(e)
  /\ filters' = [filters EXCEPT ![b] = Append(@, e)]
  /\ IF fltk THEN SetWatchFunctions(e, b, watcher[b]) ELSE UNCHANGED <<dc, watcher, handler, alive>>
  /\ UNCHANGED <<registered, socket, queue, timers, dispatching, sent, stalled>>

(* disconnect(): the filter, the timers and the functions of libdbus stay, *)
(* and all of dc if there is no connection.                                *)
Disconnected(e, phase) ==
  /\ dc' = [dc EXCEPT ![e] = [NoImpl EXCEPT !.phase = phase]]
  /\ registered' = [registered EXCEPT ![e] = {}]
  /\ handler' = [b \in Buses |-> IF Connected(e) /\ b \in dc[e].watch_list THEN Null ELSE handler[b]]
  /\ UNCHANGED <<filters, watcher, socket, queue, timers, dispatching, alive, sent, stalled>>

Disconnect(e) == ProgramCall(e) /\ Connected(e) /\ Disconnected(e, "there")

(* ~EdbusConnection()                                                      *)
Destroy(e) == ProgramCall(e) /\ dc[e].phase = "there" /\ Disconnected(e, "freed")

(* A call that blocks until the daemon answers (request_name(), the        *)
(* matches, send_with_reply_and_block()): libdbus queues what else it      *)
(* reads, and nobody dispatches it.                                        *)
BlockingCall(e) ==
  LET b == dc[e].conn IN
  /\ Idle /\ Connected(e) /\ socket[b] # <<>>
  /\ queue' = [queue EXCEPT ![b] = @ \o socket[b]]
  /\ socket' = [socket EXCEPT ![b] = <<>>]
  /\ Stalled(b)
  /\ calls' = NoCalls
  /\ UNCHANGED <<objectVars, libVars, timers, dispatching, alive, sent>>
-------------------------------------------------------------------------------
(* edbus_signal_filter() of each filter, until one has handled the         *)
(* message.  A dc that was freed may look like anything, also like one     *)
(* with a callback, or end the program.                                    *)
Wants(e, m) == HaveRegistered(e, Mail[m].path) /\ dc[e].callback

Ghosts(b) == {e \in Range(filters[b]) : dc[e].phase = "freed"}

(* dbus_connection_dispatch() of the first message of b in q               *)
Dispatch(b, q) ==
  /\ q[b] # <<>>
  /\ \E ghosts \in SUBSET Ghosts(b), k \in DOMAIN filters[b] \cup {0}, ends \in BOOLEAN :
       LET Called(j) == filters[b][j] \in ghosts \/ Wants(filters[b][j], Head(q[b])) IN
       /\ ends => k > 0 /\ filters[b][k] \in Ghosts(b)
       /\ k < Len(filters[b]) => ends \/ (k > 0 /\ Called(k))
       /\ calls' = [e \in Conns |-> Cardinality({j \in 1..k : filters[b][j] = e /\ Called(j)})]
       /\ alive' = ~ends
  /\ queue' = [q EXCEPT ![b] = Tail(@)]

(* Mutant: what remains in the queue waits for more input.                 *)
TimersAfterNone(e, c) == timers' = timers

(* A timer is for what remains in the queue.                               *)
TimersAfter(e, c) == timers' = IF queue'[c] = <<>> THEN timers ELSE timers \cup {e}

(* read_watch_cb() reads if the watch is in the watch_list of its dc, and  *)
(* dispatches one message of the bus that this is connected to now.        *)
ReadWatch(b) ==
  LET h == handler[b]
      c == dc[h].conn
      reads == b \in dc[h].watch_list
      q == IF reads THEN [queue EXCEPT ![b] = @ \o socket[b]] ELSE queue
  IN
  /\ Idle /\ h # Null /\ socket[b] # <<>> /\ dc[h].watch_list # NoList
  /\ socket' = IF reads THEN [socket EXCEPT ![b] = <<>>] ELSE socket
  /\ IF c # Null /\ q[c] # <<>>
       THEN Dispatch(c, q) /\ TimersAfter(h, c)
       ELSE /\ queue' = q /\ calls' = NoCalls /\ UNCHANGED timers
            /\ alive' \in IF c = Null THEN BOOLEAN ELSE {TRUE}
  /\ stalled' = (stalled \ {b, c}) \cup {x \in {b} \ {c} : queue'[x] # <<>> /\ ~Timed(x)}
  /\ UNCHANGED <<objectVars, libVars, dispatching, sent>>

(* Without a watch_list its assertion fails, if dc was not freed.          *)
ReadWatchBare(b) ==
  LET h == handler[b] IN
  /\ Idle /\ h # Null /\ socket[b] # <<>> /\ dc[h].watch_list = NoList
  /\ alive' \in IF dc[h].phase = "freed" THEN BOOLEAN ELSE {FALSE}
  /\ calls' = NoCalls
  /\ UNCHANGED <<objectVars, libVars, socket, queue, timers, dispatching, sent, stalled>>

(* dispatch_cb(); with no connection, or of a dc that was freed, libdbus   *)
(* may end the program.                                                    *)
Timeout(e) ==
  /\ Idle /\ e \in timers
  /\ timers' = timers \ {e}
  /\ dispatching' = e
  /\ alive' \in IF Connected(e) THEN {TRUE} ELSE BOOLEAN
  /\ calls' = NoCalls
  /\ UNCHANGED <<objectVars, libVars, socket, queue, sent, stalled>>

DispatchNext ==
  /\ alive /\ dispatching # Null /\ Connected(dispatching)
  /\ Dispatch(dc[dispatching].conn, queue)
  /\ UNCHANGED <<objectVars, libVars, socket, timers, dispatching, sent, stalled>>

(* The timers of all objects are removed.                                  *)
DispatchEnd ==
  /\ alive /\ dispatching # Null
  /\ Connected(dispatching) => queue[dc[dispatching].conn] = <<>>
  /\ dispatching' = Null
  /\ timers' = {}
  /\ stalled' = {b \in Buses : queue[b] # <<>>}
  /\ calls' = NoCalls
  /\ UNCHANGED <<objectVars, libVars, socket, queue, alive, sent>>

(* wait()                                                                  *)
Wait(e) ==
  LET b == dc[e].conn IN
  /\ Idle /\ Connected(e)
  /\ \/ queue[b] # <<>> /\ Dispatch(b, queue) /\ UNCHANGED socket
     \/ /\ queue[b] = <<>> /\ Dispatch(b, [queue EXCEPT ![b] = socket[b]])
        /\ socket' = [socket EXCEPT ![b] = <<>>]
  /\ Stalled(b)
  /\ UNCHANGED <<objectVars, libVars, timers, dispatching, sent>>

Arrive ==
  LET b == Mail[sent + 1].bus IN
  /\ alive /\ sent < Len(Mail)
  /\ sent' = sent + 1
  /\ socket' = [socket EXCEPT ![b] = Append(@, sent')]
  /\ calls' = NoCalls
  /\ UNCHANGED <<objectVars, libVars, queue, timers, dispatching, alive, stalled>>

Object(e) ==
  \/ \E b \in Buses : Connect(e, b)
  \/ SetCallback(e) \/ Disconnect(e) \/ Destroy(e)
  \/ \E fltk \in BOOLEAN : SetupListener(e, fltk)
  \/ \E p \in Paths : RegisterObject(e, p) \/ UnregisterObject(e, p)
  \/ BlockingCall(e) \/ Wait(e)

Loop ==
  \/ \E b \in Buses : ReadWatch(b) \/ ReadWatchBare(b)
  \/ \E e \in Conns : Timeout(e)
  \/ DispatchNext \/ DispatchEnd

DbusNext ==
  \/ \E e \in Conns : Object(e)
  \/ Loop
  \/ Arrive

DbusSpec == DbusInit /\ [][DbusNext]_dbusVars /\ WF_dbusVars(Loop)
-------------------------------------------------------------------------------
DbusTypeOK ==
  /\ dc \in [Conns -> Impl]
  /\ socket \in [Buses -> Seq(DOMAIN Mail)] /\ queue \in [Buses -> Seq(DOMAIN Mail)]
  /\ filters \in [Buses -> Seq(Conns)]
  /\ watcher \in [Buses -> Conns \cup {Null}] /\ handler \in [Buses -> Conns \cup {Null}]
  /\ timers \in SUBSET Conns
  /\ dispatching \in Conns \cup {Null} /\ alive \in BOOLEAN
  /\ sent \in 0..Len(Mail) /\ made \in [Conns -> Nat]
  /\ calls \in [Conns -> Nat] /\ registered \in [Conns -> SUBSET Paths]
  /\ stalled \in SUBSET Buses

Pending(b) == queue[b] \o socket[b]

(* The first message of b is taken in this step.                           *)
Takes(b) == Pending(b) # <<>> /\ (Pending(b)' # <<>> => Head(Pending(b))' # Head(Pending(b)))

FiltersOf(e, b) == {k \in DOMAIN filters[b] : filters[b][k] = e}

(* What a program expects of its callback: messages for the object paths   *)
(* it registered, or for all if it has none.                               *)
Expects(e, b, m) ==
  /\ dc[e].conn = b /\ dc[e].callback /\ FiltersOf(e, b) # {}
  /\ registered[e] = {} \/ Mail[m].path \in registered[e]

Before(b, c, e) == \E j \in FiltersOf(c, b), k \in FiltersOf(e, b) : j < k

(* A message that is taken is given to every object of its bus that        *)
(* expects it, once for each listener that the object set up there, unless *)
(* one of these comes behind one that was given it or the program ends,    *)
(* whoever reads and dispatches it; nobody is given it more often, and     *)
(* with no message taken nobody is called (EdbusConnection.cpp:89-130,     *)
(* "this will allow us to track some services that emits a lot of          *)
(* signals").  It does not say that nobody else is called: one with other  *)
(* paths is, and one that has disconnected and set a callback after that.  *)
ListenersAreCalled ==
  [][/\ (\A b \in Buses : ~Takes(b)) => calls' = NoCalls
     /\ \A b \in {c \in Buses : Takes(c)} : \A e \in Conns :
          /\ calls'[e] <= Cardinality(FiltersOf(e, b))
          /\ alive' /\ Expects(e, b, Head(Pending(b))) =>
               \/ calls'[e] = Cardinality(FiltersOf(e, b))
               \/ \E c \in Conns : Before(b, c, e) /\ calls'[c] > 0]_dbusVars

(* The object whose read_watch_cb() FLTK calls is connected to the bus and *)
(* watches it.                                                             *)
Serves(b) ==
  /\ handler[b] # Null
  /\ dc[handler[b]].conn = b /\ b \in dc[handler[b]].watch_list

(* No message stays in a queue while FLTK serves its bus: what             *)
(* read_watch_cb() leaves is dispatched later (EdbusConnection.cpp:154-166,*)
(* "we can miss initial (or later) messages that are sent to us"), unless  *)
(* its timer was taken away, or it was read by a call that blocks or by an *)
(* object that has gone over to another bus.                               *)
MessagesDispatched ==
  \A n \in DOMAIN Mail :
    (sent >= n /\ Serves(Mail[n].bus)) ~>
      \/ ~Contains(Pending(Mail[n].bus), n)
      \/ ~Serves(Mail[n].bus) \/ Mail[n].bus \in stalled \/ ~alive
===============================================================================
