--------------------------------- MODULE Fltk ----------------------------------
(***************************************************************************)
(* A program in Fl::wait().  The loop of FLTK calls one callback after the *)
(* other; what edelib hangs on it are the directory notifiers, the D-Bus   *)
(* connections, and the windows with their icons and settings.  They share *)
(* nothing but the loop, icons and settings nothing but the windows, and a *)
(* behaviour here is one of one of them.                                   *)
(***************************************************************************)
EXTENDS DirWatch, EdbusConnection, Window

VARIABLE part  \* "watch", "dbus", "icons" or "settings"

fltkVars == <<part, dirVars, dbusVars, windowVars>>

(* What the parts that do not run are like.                                *)
NoDir ==
  /\ backend = "DW_INOTIFY" /\ entries = <<>> /\ callback = FALSE
  /\ watches = {} /\ waiting = <<>> /\ buff = <<>> /\ at = 0 /\ where = "off"
  /\ added = 0 /\ happened = 0 /\ due = {} /\ reported = {} /\ mixed = FALSE

NoDbus ==
  /\ dc = [e \in Conns |-> NoImpl]
  /\ socket = [b \in Buses |-> <<>>] /\ queue = socket /\ filters = socket
  /\ watcher = [b \in Buses |-> Null] /\ handler = watcher
  /\ timers = {} /\ dispatching = Null /\ alive = FALSE
  /\ sent = 0 /\ made = [e \in Conns |-> 0]
  /\ calls = NoCalls /\ registered = [e \in Conns |-> {}] /\ stalled = {}

FltkInit ==
  \/ part = "watch" /\ DirInit /\ NoDbus /\ WindowInit
  \/ part = "dbus" /\ NoDir /\ DbusInit /\ WindowInit
  \/ part \in {"icons", "settings"} /\ NoDir /\ NoDbus /\ WindowInit

WatchStep  == part = "watch" /\ DirNext /\ UNCHANGED <<part, dbusVars, windowVars>>
DbusStep   == part = "dbus" /\ DbusNext /\ UNCHANGED <<part, dirVars, windowVars>>
WindowStep ==
  /\ \/ part = "icons" /\ (Windows \/ IconCalls)
     \/ part = "settings" /\ (Windows \/ Settings)
  /\ UNCHANGED <<part, dirVars, dbusVars>>

FltkNext == WatchStep \/ DbusStep \/ WindowStep

(* Fl::wait() calls whatever callback has something to be called for.      *)
Callback ==
  \/ part = "watch" /\ WatchCallback /\ UNCHANGED <<part, dbusVars, windowVars>>
  \/ part = "dbus" /\ Loop /\ UNCHANGED <<part, dirVars, windowVars>>

FltkSpec == FltkInit /\ [][FltkNext]_fltkVars /\ WF_fltkVars(Callback)
-------------------------------------------------------------------------------
(* Every variable has its type; the icon loader has one item for a name    *)
(* and a size (IconLoader.cpp:51-60), and when it is not there it has none *)
(* (IconLoader.cpp:265-268).                                               *)
FltkTypeOK ==
  /\ part \in {"watch", "dbus", "icons", "settings"}
  /\ DirTypeOK /\ DbusTypeOK /\ WindowTypeOK

(* What a callback waits for it is called for: changes in directories      *)
(* (DirWatchInotify.cpp:75-101) and messages of a bus                      *)
(* (EdbusConnection.cpp:154-166); see there.                               *)
WaitingIsServed == ChangesAreReported /\ MessagesDispatched
===============================================================================
