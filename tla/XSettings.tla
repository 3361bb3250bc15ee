------------------------------- MODULE XSettings -------------------------------
(***************************************************************************)
(* The XSETTINGS protocol of XSettingsManager.cpp and XSettingsClient.cpp. *)
(*                                                                         *)
(* Managers and clients are X clients in processes of their own: they meet *)
(* only at the X server, one request at a time, and learn of each other    *)
(* through events that wait in one FIFO per connection.  Each action is    *)
(* one X request that another process can observe, together with the local *)
(* work the code does before the next request.                             *)
(***************************************************************************)
EXTENDS XSettingsMap, Sequences, FiniteSets

CONSTANTS
  Managers,   \* processes that run an XSettingsManager
  Clients,    \* processes that run an XSettingsClient
  MaySet,     \* the names each client sets, none for one that only reads
  Windows,    \* ids of the windows managers create, each used at most once
  Creator,    \* the manager whose connection allocates a window id
  Root,       \* the root window
  None,       \* the null window id
  MaxTime,    \* bound: server timestamps
  MaxQueue    \* bound: events waiting when a client publishes

ASSUME MaySetAssumption == MaySet \in [Clients -> SUBSET Names]
ASSUME WindowsAssumption ==
  /\ Creator \in [Windows -> Managers]
  /\ None \notin Windows
  /\ Root \notin Windows
ASSUME BoundsAssumption == MaxTime \in Nat /\ MaxQueue \in Nat

Writers == {c \in Clients : MaySet[c] # {}}

VARIABLES
  \* the X server
  now,           \* its clock
  owner,         \* owner of the selection _XSETTINGS_S<screen>
  lastChange,    \* the selection's last-change time
  created,       \* windows created so far
  alive,         \* windows created and not destroyed
  property,      \* property _XSETTINGS_SETTINGS of each window
  selected,      \* windows each client gets Property and Destroy events of
  rootListeners, \* clients that selected StructureNotify on the root window
  \* managers
  mpc,           \* where each manager is in init()
  timestamp,     \* local "timestamp" of init()
  manager_data,  \* XSettingsManager::manager_data
  mevents,       \* SelectionClear events waiting, by the window they name
  \* clients
  cpc,           \* where each client is in init() or process_xevent()
  client_data,   \* XSettingsClient::client_data
  cevents        \* events waiting

serverVars  == <<now, owner, lastChange, created, alive, property, selected, rootListeners>>
managerVars == <<mpc, timestamp, manager_data, mevents>>
clientVars  == <<cpc, client_data, cevents>>
vars        == <<serverVars, managerVars, clientVars>>
-------------------------------------------------------------------------------
(* XSettingsData, the part that changes after init().                      *)
Data == [manager_win : Windows \cup {None}, settings : Settings, serial : Serial]

DataOf(w, s, k) == [manager_win |-> w, settings |-> s, serial |-> k]

NullData == DataOf(None, EmptySettings, 0)

(* The same window, another list or another serial.                        *)
WithSettings(data, s) == DataOf(data.manager_win, s, data.serial)
WithSerial(data, k)   == DataOf(data.manager_win, data.settings, k)

(* A published property is a list and the serial encoded before it; -1     *)
(* stands for a window that has no such property.                          *)
Property == [settings : Settings, serial : Serial \cup {-1}]

NoProperty == [settings |-> EmptySettings, serial |-> -1]

MANAGER          == [type |-> "ClientMessage",  win |-> Root]
DestroyNotify(w)  == [type |-> "DestroyNotify",  win |-> w]
PropertyNotify(w) == [type |-> "PropertyNotify", win |-> w]

Event == [type : {"ClientMessage", "DestroyNotify", "PropertyNotify"},
          win  : Windows \cup {Root}]

ManagerPC == {"none", "stamped", "asked", "owning", "running"}
ClientPC  == {"off", "check", "read", "idle"}

TypeOK ==
  /\ now \in Nat
  /\ owner \in Windows \cup {None}
  /\ lastChange \in Nat
  /\ created \in SUBSET Windows
  /\ alive \in SUBSET created
  /\ property \in [Windows -> Property]
  /\ selected \in [Clients -> SUBSET Windows]
  /\ rootListeners \in SUBSET Clients
  /\ mpc \in [Managers -> ManagerPC]
  /\ timestamp \in [Managers -> Nat]
  /\ manager_data \in [Managers -> Data]
  /\ mevents \in [Managers -> Seq(Windows)]
  /\ cpc \in [Clients -> ClientPC]
  /\ client_data \in [Clients -> Data]
  /\ cevents \in [Clients -> Seq(Event)]

Init ==
  /\ now = 0 /\ owner = None /\ lastChange = 0
  /\ created = {} /\ alive = {}
  /\ property = [w \in Windows |-> NoProperty]
  /\ selected = [c \in Clients |-> {}]
  /\ rootListeners = {}
  /\ mpc = [m \in Managers |-> "none"]
  /\ timestamp = [m \in Managers |-> 0]
  /\ manager_data = [m \in Managers |-> NullData]
  /\ mevents = [m \in Managers |-> <<>>]
  /\ cpc = [c \in Clients |-> "off"]
  /\ client_data = [c \in Clients |-> NullData]
  /\ cevents = [c \in Clients |-> <<>>]
-------------------------------------------------------------------------------
(* The X server.                                                           *)

(* Queue an event for each client of a set.                                *)
Deliver(e, to) ==
  cevents' = [c \in Clients |-> IF c \in to THEN Append(cevents[c], e) ELSE cevents[c]]

WatchersOf(w) == {c \in Clients : w \in selected[c]}

(* Destroying a window takes its property and every client's event mask on *)
(* it away, and a selection it owns is left without owner.                 *)
DestroyWindow(w) ==
  /\ alive' = alive \ {w}
  /\ owner' = IF owner = w THEN None ELSE owner
  /\ property' = [property EXCEPT ![w] = NoProperty]
  /\ selected' = [c \in Clients |-> selected[c] \ {w}]
  /\ Deliver(DestroyNotify(w), WatchersOf(w))

PropertyOf(w) == IF w = None THEN NoProperty ELSE property[w]

Tick ==
  /\ now < MaxTime
  /\ now' = now + 1
  /\ UNCHANGED <<owner, lastChange, created, alive, property, selected, rootListeners,
                 managerVars, clientVars>>

(* xsettings_manager_notify(): the whole list goes out under the current   *)
(* serial, which is then incremented.  Writing to a window that is gone    *)
(* only raises an X error.                                                 *)
Publish(data) ==
  LET w == data.manager_win IN
  IF w \in alive
    THEN /\ property' = [property EXCEPT
                           ![w] = [settings |-> data.settings, serial |-> data.serial]]
         /\ Deliver(PropertyNotify(w), WatchersOf(w))
    ELSE UNCHANGED <<property, cevents>>
-------------------------------------------------------------------------------
(* XSettingsManager                                                        *)

(* init(): create the window and take the server's time from a property    *)
(* change on it.                                                           *)
ManagerCreateWindow(m) ==
  /\ mpc[m] = "none"
  /\ \E w \in Windows \ created :
       /\ Creator[w] = m
       /\ created' = created \cup {w}
       /\ alive' = alive \cup {w}
       /\ manager_data' = [manager_data EXCEPT ![m] = DataOf(w, EmptySettings, 0)]
  /\ timestamp' = [timestamp EXCEPT ![m] = now]
  /\ mpc' = [mpc EXCEPT ![m] = "stamped"]
  /\ UNCHANGED <<now, owner, lastChange, property, selected, rootListeners, mevents, clientVars>>

(* init(): XSetSelectionOwner.  The server ignores a timestamp older than  *)
(* the selection's; a manager that loses the selection to another process  *)
(* is sent SelectionClear.  The local "timestamp" has no further use.      *)
ManagerSetSelectionOwner(m) ==
  /\ mpc[m] = "stamped"
  /\ mpc' = [mpc EXCEPT ![m] = "asked"]
  /\ timestamp' = [timestamp EXCEPT ![m] = 0]
  /\ IF timestamp[m] >= lastChange
       THEN /\ owner' = manager_data[m].manager_win
            /\ lastChange' = timestamp[m]
            /\ mevents' = [k \in Managers |->
                             IF owner # None /\ Creator[owner] = k /\ k # m
                               THEN Append(mevents[k], owner) ELSE mevents[k]]
       ELSE UNCHANGED <<owner, lastChange, mevents>>
  /\ UNCHANGED <<now, created, alive, property, selected, rootListeners,
                 manager_data, clientVars>>

(* clear(): destroy the window, drop the data.                             *)
ManagerClear(m) ==
  /\ DestroyWindow(manager_data[m].manager_win)
  /\ manager_data' = [manager_data EXCEPT ![m] = NullData]
  /\ timestamp' = [timestamp EXCEPT ![m] = 0]
  /\ mpc' = [mpc EXCEPT ![m] = "none"]
  /\ UNCHANGED <<now, lastChange, created, rootListeners, cpc, client_data>>

(* Mutant: init() takes ownership for granted.                             *)
ManagerUncheckedOwner(m) ==
  /\ mpc[m] = "asked"
  /\ mpc' = [mpc EXCEPT ![m] = "owning"]
  /\ UNCHANGED <<serverVars, timestamp, manager_data, mevents, clientVars>>

(* init(): did we get the ownership?  If not, clear() and return false.    *)
ManagerGetSelectionOwner(m) ==
  /\ mpc[m] = "asked"
  /\ \/ /\ owner = manager_data[m].manager_win
        /\ mpc' = [mpc EXCEPT ![m] = "owning"]
        /\ UNCHANGED <<serverVars, timestamp, manager_data, clientVars>>
     \/ /\ owner # manager_data[m].manager_win
        /\ ManagerClear(m)
  /\ UNCHANGED mevents

(* init(): tell whoever listens on the root window, return true.           *)
ManagerAnnounce(m) ==
  /\ mpc[m] = "owning"
  /\ mpc' = [mpc EXCEPT ![m] = "running"]
  /\ Deliver(MANAGER, rootListeners)
  /\ UNCHANGED <<serverVars, timestamp, manager_data, mevents, cpc, client_data>>

(* set(): only the manager's own list changes.                             *)
ManagerSet(m) ==
  /\ mpc[m] = "running"
  /\ \E n \in Names, v \in Values :
       manager_data' = [manager_data EXCEPT
         ![m] = WithSettings(@, PutSetting(@.settings, n, v, @.serial))]
  /\ UNCHANGED <<serverVars, mpc, timestamp, mevents, clientVars>>

(* Mutant: the serial is published but never incremented.                  *)
ManagerNotifySameSerial(m) ==
  /\ mpc[m] = "running"
  /\ Publish(manager_data[m])
  /\ UNCHANGED <<now, owner, lastChange, created, alive, selected, rootListeners,
                 mpc, timestamp, manager_data, mevents, cpc, client_data>>

(* notify()                                                                *)
ManagerNotify(m) ==
  /\ mpc[m] = "running"
  /\ manager_data[m].serial < MaxSerial
  /\ Publish(manager_data[m])
  /\ manager_data' = [manager_data EXCEPT ![m] = WithSerial(@, @.serial + 1)]
  /\ UNCHANGED <<now, owner, lastChange, created, alive, selected, rootListeners,
                 mpc, timestamp, mevents, cpc, client_data>>

(* Mutant: should_terminate() is asked and its answer ignored.             *)
ManagerEventIgnored(m) ==
  /\ mpc[m] = "running"
  /\ mevents[m] # <<>>
  /\ mevents' = [mevents EXCEPT ![m] = Tail(@)]
  /\ UNCHANGED <<serverVars, mpc, timestamp, manager_data, clientVars>>

(* The event loop asks should_terminate(), which is true for SelectionClear *)
(* on the manager's current window; the manager then stops.  Events on a    *)
(* window of an earlier init() are ignored.                                 *)
ManagerEvent(m) ==
  /\ mpc[m] = "running"
  /\ mevents[m] # <<>>
  /\ mevents' = [mevents EXCEPT ![m] = Tail(@)]
  /\ IF Head(mevents[m]) = manager_data[m].manager_win
       THEN ManagerClear(m)
       ELSE UNCHANGED <<serverVars, mpc, timestamp, manager_data, clientVars>>

(* The application calls clear() or destroys its XSettingsManager.          *)
ManagerStop(m) ==
  /\ mpc[m] = "running"
  /\ ManagerClear(m)
  /\ UNCHANGED mevents

(* The process dies, at any point of init() too: the server closes its      *)
(* connection.                                                              *)
ManagerCrash(m) ==
  /\ mpc[m] # "none"
  /\ ManagerClear(m)
  /\ mevents' = [mevents EXCEPT ![m] = <<>>]
-------------------------------------------------------------------------------
(* XSettingsClient                                                         *)

(* Mutant: init() looks for a manager but does not listen for the next.    *)
ClientInitDeaf(c) ==
  /\ cpc[c] = "off"
  /\ client_data' = [client_data EXCEPT ![c] = NullData]
  /\ cpc' = [cpc EXCEPT ![c] = "check"]
  /\ UNCHANGED <<serverVars, managerVars, cevents>>

(* init(): listen on the root window before looking for a manager.         *)
ClientInit(c) ==
  /\ cpc[c] = "off"
  /\ rootListeners' = rootListeners \cup {c}
  /\ client_data' = [client_data EXCEPT ![c] = NullData]
  /\ cpc' = [cpc EXCEPT ![c] = "check"]
  /\ UNCHANGED <<now, owner, lastChange, created, alive, property, selected,
                 managerVars, cevents>>

(* check_manager_window(), under XGrabServer: find the owner and select    *)
(* its events.                                                             *)
ClientCheckManagerWindow(c) ==
  /\ cpc[c] = "check"
  /\ client_data' = [client_data EXCEPT ![c] = DataOf(owner, @.settings, @.serial)]
  /\ selected' = [selected EXCEPT ![c] = @ \cup ({owner} \ {None})]
  /\ cpc' = [cpc EXCEPT ![c] = "read"]
  /\ UNCHANGED <<now, owner, lastChange, created, alive, property, rootListeners,
                 managerVars, cevents>>

(* read_settings(): the list becomes the published one, whatever it was.   *)
(* Without a window, without a property or with an X error it becomes NULL *)
(* and the serial stays.                                                   *)
ReadInto(data, p) ==
  DataOf(data.manager_win, p.settings, IF p.serial = -1 THEN data.serial ELSE p.serial)

ClientReadSettings(c) ==
  /\ cpc[c] = "read"
  /\ client_data' = [client_data EXCEPT ![c] = ReadInto(@, PropertyOf(@.manager_win))]
  /\ cpc' = [cpc EXCEPT ![c] = "idle"]
  /\ UNCHANGED <<serverVars, managerVars, cevents>>

(* Mutant: the end of the manager goes unnoticed.                          *)
ReactionNoDestroy(c, e) ==
  CASE e = MANAGER                                    -> "check"
    [] e = PropertyNotify(client_data[c].manager_win) -> "read"
    [] OTHER                                          -> "idle"

(* Mutant: changes of the property go unnoticed.                           *)
ReactionNoProperty(c, e) ==
  IF e \in {MANAGER, DestroyNotify(client_data[c].manager_win)} THEN "check" ELSE "idle"

(* process_xevent(): what to do for an event.                              *)
Reaction(c, e) ==
  CASE e = MANAGER                                       -> "check"
    [] e = DestroyNotify(client_data[c].manager_win)     -> "check"
    [] e = PropertyNotify(client_data[c].manager_win)    -> "read"
    [] OTHER                                             -> "idle"

ClientProcessXEvent(c) ==
  /\ cpc[c] = "idle"
  /\ cevents[c] # <<>>
  /\ cevents' = [cevents EXCEPT ![c] = Tail(@)]
  /\ cpc' = [cpc EXCEPT ![c] = Reaction(c, Head(cevents[c]))]
  /\ UNCHANGED <<serverVars, managerVars, client_data>>

(* set(): only the client's own list changes, and only with a manager.     *)
ClientSet(c) ==
  /\ cpc[c] = "idle"
  /\ client_data[c].manager_win # None
  /\ \E n \in MaySet[c], v \in Values :
       client_data' = [client_data EXCEPT
         ![c] = WithSettings(@, PutSetting(@.settings, n, v, @.serial))]
  /\ UNCHANGED <<serverVars, managerVars, cpc, cevents>>

(* manager_notify(): the client publishes its list on the manager's window. *)
ClientManagerNotify(c) ==
  /\ c \in Writers
  /\ cpc[c] = "idle"
  /\ client_data[c].manager_win # None
  /\ client_data[c].serial < MaxSerial
  /\ \A k \in Clients : Len(cevents[k]) < MaxQueue
  /\ Publish(client_data[c])
  /\ client_data' = [client_data EXCEPT ![c] = WithSerial(@, @.serial + 1)]
  /\ UNCHANGED <<now, owner, lastChange, created, alive, selected, rootListeners,
                 managerVars, cpc>>

(* clear().  The event masks stay with the connection.                     *)
ClientClear(c) ==
  /\ cpc[c] = "idle"
  /\ client_data' = [client_data EXCEPT ![c] = NullData]
  /\ cpc' = [cpc EXCEPT ![c] = "off"]
  /\ UNCHANGED <<serverVars, managerVars, cevents>>

(* Without client_data the event loop has no one to give an event to.      *)
ClientDropEvent(c) ==
  /\ cpc[c] = "off"
  /\ cevents[c] # <<>>
  /\ cevents' = [cevents EXCEPT ![c] = Tail(@)]
  /\ UNCHANGED <<serverVars, managerVars, cpc, client_data>>
-------------------------------------------------------------------------------
ManagerNext(m) ==
  \/ ManagerCreateWindow(m) \/ ManagerSetSelectionOwner(m)
  \/ ManagerGetSelectionOwner(m) \/ ManagerAnnounce(m)
  \/ ManagerSet(m) \/ ManagerNotify(m)
  \/ ManagerEvent(m) \/ ManagerStop(m) \/ ManagerCrash(m)

ClientNext(c) ==
  \/ ClientInit(c) \/ ClientCheckManagerWindow(c) \/ ClientReadSettings(c)
  \/ ClientProcessXEvent(c) \/ ClientSet(c) \/ ClientManagerNotify(c)
  \/ ClientClear(c) \/ ClientDropEvent(c)

Next ==
  \/ Tick
  \/ \E m \in Managers : ManagerNext(m)
  \/ \E c \in Clients : ClientNext(c)

Spec == Init /\ [][Next]_vars

(* What the code does once started: init() and the handlers run to their   *)
(* end and the event loops take the events that wait.  Nobody is obliged   *)
(* to start, set, publish or stop.                                         *)
Fairness ==
  /\ \A m \in Managers :
       /\ WF_vars(ManagerSetSelectionOwner(m) \/ ManagerGetSelectionOwner(m)
                    \/ ManagerAnnounce(m))
       /\ WF_vars(ManagerEvent(m))
  /\ \A c \in Clients :
       /\ WF_vars(ClientCheckManagerWindow(c) \/ ClientReadSettings(c))
       /\ WF_vars(ClientProcessXEvent(c))

FairSpec == Spec /\ Fairness
-------------------------------------------------------------------------------
Waiting(e, queue) == \E i \in 1..Len(queue) : queue[i] = e

(* A manager whose init() came to its end, on the window it has.           *)
Announced(w) ==
  /\ mpc[Creator[w]] = "running"
  /\ manager_data[Creator[w]].manager_win = w

(* What a client is for: it watches the manager that owns the selection    *)
(* and, unless it edits its list itself, holds the list published there.   *)
InSync(c) ==
  LET data == client_data[c] IN
  /\ cpc[c] = "idle"
  /\ data.manager_win # None => data.manager_win \in alive
  /\ owner # None /\ Announced(owner) => data.manager_win = owner
  /\ c \notin Writers => data.settings = PropertyOf(data.manager_win).settings

(* A client with no event left has missed nothing, however manager starts, *)
(* takeovers, publications and deaths interleave with its own requests.    *)
(* Depends on init() listening before it looks (XSettingsClient.cpp        *)
(* 152-154), on selecting the owner's events before reading from it (79,   *)
(* 84) and on the three reactions of process_xevent() (188-207).           *)
NothingMissed ==
  \A c \in Clients : cpc[c] = "idle" /\ cevents[c] = <<>> => InSync(c)

(* A manager whose init() succeeded and that is not the selection's owner  *)
(* has a SelectionClear coming for its present window: of any two running  *)
(* managers one is about to be told to stop ("only one manager",           *)
(* XSettingsManager.h:32).  Depends on the ownership check of init().      *)
LoserIsTold ==
  \A m \in Managers :
    /\ mpc[m] = "running"
    /\ manager_data[m].manager_win # owner
    => Waiting(manager_data[m].manager_win, mevents[m])

Bounded(s, k) == \A n \in DOMAIN s : s[n].stamp <= k

(* No setting, published or local, claims to have changed under a serial   *)
(* later than the one its list is or will be published with, whoever set   *)
(* it (xsettings_manager_set_setting() and xsettings_manager_notify()).    *)
StampsBounded ==
  /\ \A w \in Windows : Bounded(property[w].settings, property[w].serial)
  /\ \A m \in Managers : Bounded(manager_data[m].settings, manager_data[m].serial)
  /\ \A c \in Clients : Bounded(client_data[c].settings, client_data[c].serial)

(* The serial is "a number used to check changes" (XSettingsCommon.h:141): *)
(* a list that replaces another on a window bears a higher serial.         *)
SerialTellsChange ==
  [][\A w \in alive \cap alive' :
       property'[w] # property[w] => property'[w].serial > property[w].serial]_vars

(* A setting's stamp is the "serial used to check when setting was         *)
(* changed" (XSettingsCommon.h:72): what a new list changes or adds is     *)
(* stamped later than the list it replaces, so that a reader finds the     *)
(* changes by comparing stamps with the serial it saw last.                *)
StampsTellChanges ==
  [][\A w \in alive \cap alive' : \A n \in DOMAIN property'[w].settings :
       \/ property'[w].settings[n].stamp > property[w].serial
       \/ /\ n \in DOMAIN property[w].settings
          /\ property'[w].settings[n].val = property[w].settings[n].val]_vars

(* A client that goes on running comes to be in sync, again and again:     *)
(* event loops that take their events are enough for it.                   *)
ClientsCatchUp ==
  \A c \in Clients : cpc[c] # "off" ~> cpc[c] = "off" \/ InSync(c)

(* A manager that lost the selection gives its window up.                  *)
LosersStop ==
  \A m \in Managers, w \in Windows :
    LET Lost == mpc[m] = "running" /\ manager_data[m].manager_win = w /\ owner # w
    IN  Lost ~> manager_data[m].manager_win # w
-------------------------------------------------------------------------------
(* The inductive invariant behind NothingMissed and LoserIsTold.  Windows  *)
(* are held by exactly one manager while they live; whatever a manager or  *)
(* a client does not yet know is on its way to it as an event.             *)
WindowsHeld ==
  /\ \A w \in Windows \ alive : property[w] = NoProperty
  /\ \A w \in alive :
       /\ manager_data[Creator[w]].manager_win = w
       /\ mpc[Creator[w]] # "none"
  /\ owner # None => owner \in alive

ManagersTold ==
  \A m \in Managers :
    LET w == manager_data[m].manager_win IN
    /\ mpc[m] # "none" => w \in alive /\ Creator[w] = m
    /\ mpc[m] \in {"owning", "running"} /\ w # owner => Waiting(w, mevents[m])

Told(c) ==
  LET data == client_data[c]
      w    == data.manager_win
  IN
  /\ w # None => w \in created
  /\ cpc[c] # "off" => c \in rootListeners
  /\ cpc[c] \in {"read", "idle"} =>
       /\ w \in alive => w \in selected[c]
       /\ w # None /\ w \notin alive => Waiting(DestroyNotify(w), cevents[c])
       /\ owner # None /\ owner # w /\ Announced(owner) => Waiting(MANAGER, cevents[c])
  /\ cpc[c] = "idle" /\ c \notin Writers
       /\ data.settings # PropertyOf(w).settings =>
         \/ Waiting(PropertyNotify(w), cevents[c])
         \/ Waiting(DestroyNotify(w), cevents[c])

ClientsTold == \A c \in Clients : Told(c)

IInv == TypeOK /\ WindowsHeld /\ ManagersTold /\ ClientsTold

(* What list s may replace list p that was published under serial k.       *)
TellsChanges(s, p, k) ==
  \A n \in DOMAIN s :
    \/ s[n].stamp > k
    \/ n \in DOMAIN p /\ p[n].val = s[n].val

(* The inductive invariant behind SerialTellsChange and StampsTellChanges: *)
(* where no client writes, the manager that holds a window is ahead of     *)
(* what is published there.                                                *)
ManagersAhead ==
  \A w \in alive :
    LET data == manager_data[Creator[w]] IN
    /\ data.serial > property[w].serial
    /\ TellsChanges(data.settings, property[w].settings, property[w].serial)
===============================================================================
