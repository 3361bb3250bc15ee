------------------------------- MODULE DirWatch --------------------------------
(***************************************************************************)
(* DirWatch.cpp with either of its notifiers, DirWatchInotify.cpp and      *)
(* DirWatchFam.cpp: directories that a program watches, what happens in    *)
(* them, and a callback that can add and remove directories while it is    *)
(* told of a change.                                                       *)
(***************************************************************************)
EXTENDS Naturals, Sequences, FiniteSets

CONSTANTS
  Names,      \* what the program calls directories
  Dirs,       \* the directories of the file system
  DirOf,      \* whose name it is; a directory can have several
  Asked,      \* sets of DW_* flags that the program passes to add()
  Changes,    \* what can happen in a directory, in the words of inotify(7)
  MaxEntries, \* bound: directories added, one after the other
  MaxChanges  \* bound: changes

ASSUME DirAssumption ==
  DirOf \in [Names -> Dirs] /\ MaxEntries \in Nat /\ MaxChanges \in Nat

VARIABLES
  backend,  \* backend_notifier
  entries,  \* DirWatchImpl::entries
  callback, \* whether DirWatchImpl::callback is set
  watches,  \* what the kernel, or the FAM daemon, watches
  waiting,  \* events not yet read
  buff,     \* events read by watch_callback() and not yet done with
  at,       \* the entry that the loop in watch_callback() stands on
  where,    \* "loop" (of FLTK), "callback" (of the program), "off", "dead"
  added,    \* history: number of entries so far
  happened, \* history: number of changes so far
  due,      \* history: changes that an entry is to report
  reported, \* history: those it has reported
  mixed     \* history: see Mixed

watchVars   == <<backend, entries, callback, watches, waiting, buff, at, where>>
historyVars == <<added, happened, due, reported, mixed>>
dirVars        == <<watchVars, historyVars>>

inotify == backend = "DW_INOTIFY"
-------------------------------------------------------------------------------
(* DirWatchEntry.  dir_fd is the watch descriptor or the number of the FAM *)
(* request; the entry of inotify does not keep its flags; reg tells the    *)
(* entries apart.                                                          *)
Entry == [name : Names, dir_fd : 1..MaxEntries, flags : Asked, reg : 1..MaxEntries]

Watch == [id : 1..MaxEntries, dir : Dirs, mask : SUBSET Changes]

(* The end of a watch is an event, too (IN_IGNORED, FAMAcknowledge).       *)
Ended == "ended"
Event == [id : 1..MaxEntries, mask : Changes \cup {Ended}, change : 0..MaxChanges]

Regs == {entries[j].reg : j \in DOMAIN entries}

IndexOf(n) == CHOOSE j \in DOMAIN entries : entries[j].name = n

Known(n) == \E j \in DOMAIN entries : entries[j].name = n

Without(seq, j) == SubSeq(seq, 1, j - 1) \o SubSeq(seq, j + 1, Len(seq))

(* Which changes a flag selects, and what code FAM has for them.           *)
Selects(flag) ==
  CASE flag = "DW_CREATE" -> {"IN_CREATE", "IN_MOVED_TO"}
    [] flag = "DW_DELETE" -> {"IN_DELETE", "IN_MOVED_FROM"}
    [] flag = "DW_MODIFY" -> {"IN_MODIFY"} \cup IF inotify THEN {} ELSE {"IN_ATTRIB"}
    [] flag = "DW_ATTRIB" -> IF inotify THEN {"IN_ATTRIB"} ELSE {}

Mask(flags) == Changes \cap UNION {Selects(f) : f \in flags}

(* DW_REPORT_* of an event.                                                *)
Report(mask) ==
  CASE mask \in {"IN_DELETE", "IN_MOVED_FROM"} -> "DELETE"
    [] mask \in {"IN_CREATE", "IN_MOVED_TO"}   -> "CREATE"
    [] mask \in {"IN_MODIFY", "IN_ATTRIB"}     -> "MODIFY"
    [] OTHER                                   -> "NONE"

DirInit ==
  /\ backend \in {"DW_INOTIFY", "DW_FAM"}
  /\ entries = <<>> /\ callback = FALSE
  /\ watches = {} /\ waiting = <<>> /\ buff = <<>> /\ at = 0
  /\ where = "loop"
  /\ added = 0 /\ happened = 0 /\ due = {} /\ reported = {} /\ mixed = FALSE
-------------------------------------------------------------------------------
(* What the program does, also from its callback.                          *)
Running == where \in {"loop", "callback"}

(* inotify_add_watch() on a directory that is watched already returns its  *)
(* watch descriptor and replaces the mask; FAM makes a request of its own. *)
OldWatch(n) == {w \in watches : inotify /\ w.dir = DirOf[n]}

(* Mixed: two names of one directory were entries at once, and so share a  *)
(* watch with the mask of the later one that ends with the earlier; or the *)
(* callback removed the entry it was called for.                           *)
Mixed(n) == mixed \/ (inotify /\ \E j \in DOMAIN entries : DirOf[entries[j].name] = DirOf[n])

AddDir(n, flags) ==
  /\ Running /\ ~Known(n) /\ added < MaxEntries
  /\ \E w \in {[id |-> IF OldWatch(n) = {} THEN added + 1 ELSE (CHOOSE o \in OldWatch(n) : TRUE).id,
                dir |-> DirOf[n], mask |-> IF inotify THEN Mask(flags) ELSE Changes]} :
       /\ watches' = (watches \ OldWatch(n)) \cup {w}
       /\ entries' = Append(entries, [name |-> n, dir_fd |-> w.id, flags |-> flags, reg |-> added + 1])
  /\ added' = added + 1
  /\ mixed' = Mixed(n)
  /\ UNCHANGED <<backend, callback, waiting, buff, at, where, happened, due, reported>>

(* Mutant: the entry goes, the kernel's watch stays.                       *)
RemoveDirKeepsWatch(n) ==
  /\ Running /\ Known(n)
  /\ entries' = Without(entries, IndexOf(n))
  /\ UNCHANGED <<backend, callback, watches, waiting, buff, at, where, historyVars>>

RemoveDir(n) ==
  /\ Running /\ Known(n)
  /\ \E e \in {entries[IndexOf(n)]} :
       /\ watches' = {w \in watches : w.id # e.dir_fd}
       /\ waiting' = IF watches' = watches THEN waiting
                     ELSE Append(waiting, [id |-> e.dir_fd, mask |-> Ended, change |-> 0])
  /\ entries' = Without(entries, IndexOf(n))
  /\ UNCHANGED <<backend, callback, buff, at, where, historyVars>>

SetDirCallback ==
  /\ Running
  /\ callback' = ~callback
  /\ UNCHANGED <<backend, entries, watches, waiting, buff, at, where, historyVars>>

(* From the callback shutdown() would free what the loop walks over.       *)
Shutdown ==
  /\ where = "loop"
  /\ where' = "off"
  /\ entries' = <<>> /\ watches' = {} /\ waiting' = <<>> /\ callback' = FALSE
  /\ UNCHANGED <<backend, buff, at, historyVars>>
-------------------------------------------------------------------------------
(* What others do in a directory.                                          *)
Change(d, mask) ==
  /\ Running /\ happened < MaxChanges
  /\ happened' = happened + 1
  /\ LET told == {w.id : w \in {v \in watches : v.dir = d /\ mask \in v.mask}}
     IN  \E order \in [1..Cardinality(told) -> told] :
           /\ \A x, y \in DOMAIN order : x # y => order[x] # order[y]
           /\ waiting' = waiting \o
                [x \in DOMAIN order |-> [id |-> order[x], mask |-> mask, change |-> happened']]
  /\ due' = due \cup
       {<<entries[j].reg, happened'>> :
          j \in {k \in DOMAIN entries : DirOf[entries[k].name] = d /\ mask \in Mask(entries[k].flags)}}
  /\ UNCHANGED <<backend, entries, callback, watches, buff, at, where, added, reported, mixed>>
-------------------------------------------------------------------------------
(* watch_callback().  The calls still to come are pairs of an event and an *)
(* entry, in the order of the two loops; the first is made.                *)
Earlier(p, q) == p[1] < q[1] \/ (p[1] = q[1] /\ p[2] < q[2])

FirstOf(calls) == CHOOSE p \in calls : \A q \in calls \ {p} : Earlier(p, q)

IndexAt == CHOOSE j \in DOMAIN entries : entries[j].reg = at

Call(event, j) ==
  /\ where' = "callback"
  /\ at' = entries[j].reg
  /\ reported' = reported \cup {<<entries[j].reg, event.change>>}

Done == where' = "loop" /\ at' = 0 /\ UNCHANGED reported

(* Mutant: watch_callback() is left after a call.                          *)
ScanOnce(events, k) ==
  LET calls == {p \in (DOMAIN events) \X (DOMAIN entries) :
                  /\ entries[p[2]].dir_fd = events[p[1]].id
                  /\ Report(events[p[1]].mask) # "NONE"
                  /\ p[1] = 1 => p[2] > k}
  IN  IF calls = {} \/ where = "callback"
        THEN Done /\ buff' = <<>>
        ELSE /\ Call(events[FirstOf(calls)[1]], FirstOf(calls)[2])
             /\ buff' = SubSeq(events, FirstOf(calls)[1], Len(events))

(* All entries with an event's descriptor are told, those the callback has *)
(* added included; k is where the loop stands in the first event.          *)
Scan(events, k) ==
  LET calls == {p \in (DOMAIN events) \X (DOMAIN entries) :
                  /\ entries[p[2]].dir_fd = events[p[1]].id
                  /\ Report(events[p[1]].mask) # "NONE"
                  /\ p[1] = 1 => p[2] > k}
  IN  IF calls = {}
        THEN Done /\ buff' = <<>>
        ELSE /\ Call(events[FirstOf(calls)[1]], FirstOf(calls)[2])
             /\ buff' = SubSeq(events, FirstOf(calls)[1], Len(events))

(* The events that were read are lost if nobody wants to be called.        *)
Lost(events) == due' = {p \in due : \A x \in DOMAIN events : events[x].change # p[2]}

InotifyRead ==
  /\ inotify /\ where = "loop" /\ waiting # <<>>
  /\ waiting' = <<>>
  /\ IF callback
       THEN Scan(waiting, 0) /\ UNCHANGED due
       ELSE Done /\ Lost(waiting) /\ UNCHANGED buff
  /\ UNCHANGED <<backend, entries, callback, watches, added, happened, mixed>>

InotifyReturn ==
  /\ inotify /\ where = "callback" /\ at \in Regs
  /\ Scan(buff, IndexAt)
  /\ UNCHANGED <<backend, entries, callback, watches, waiting, added, happened, due, mixed>>

(* The node the iterator points to was freed: the program ends or the loop *)
(* goes on anywhere.                                                       *)
InotifyReturnFreed ==
  /\ inotify /\ where = "callback" /\ at \notin Regs
  /\ mixed' = TRUE
  /\ \/ where' = "dead" /\ UNCHANGED <<at, buff, reported>>
     \/ \E k \in 0..Len(entries) : Scan(buff, k)
  /\ UNCHANGED <<backend, entries, callback, watches, waiting, added, happened, due>>

(* FAM's events are taken one by one; whom they are for is looked up       *)
(* before their flags are, and found or else E_ASSERT ends the program.    *)
For(event) == {j \in DOMAIN entries : entries[j].dir_fd = event.id}

Skipped(event) ==
  \/ event.mask = Ended
  \/ For(event) # {} /\ \A j \in For(event) : event.mask \notin Mask(entries[j].flags)

FamDrain ==
  LET calls == {x \in DOMAIN waiting : ~Skipped(waiting[x])}
      First == CHOOSE x \in calls : \A y \in calls : x <= y
  IN  IF calls = {}
        THEN Done /\ waiting' = <<>>
        ELSE \E e \in {waiting[First]} :
               /\ waiting' = SubSeq(waiting, First + 1, Len(waiting))
               /\ IF For(e) = {}
                    THEN where' = "dead" /\ UNCHANGED <<at, reported>>
                    ELSE Call(e, CHOOSE j \in For(e) : TRUE)

FamRead ==
  /\ ~inotify /\ where = "loop" /\ waiting # <<>>
  /\ IF callback
       THEN FamDrain /\ UNCHANGED due
       ELSE Done /\ Lost(waiting) /\ waiting' = <<>>
  /\ UNCHANGED <<backend, entries, callback, watches, buff, added, happened, mixed>>

FamReturn ==
  /\ ~inotify /\ where = "callback"
  /\ FamDrain
  /\ UNCHANGED <<backend, entries, callback, watches, buff, added, happened, due, mixed>>

(* ~DirWatch() closes the descriptor and leaves it with FLTK, which may    *)
(* call watch_callback() for it, or for what has its number now: nothing   *)
(* comes of it or the program ends.                                        *)
CalledFreed ==
  /\ where = "off"
  /\ where' = "dead"
  /\ UNCHANGED <<backend, entries, callback, watches, waiting, buff, at, historyVars>>

WatchCallback ==
  InotifyRead \/ InotifyReturn \/ InotifyReturnFreed \/ FamRead \/ FamReturn

DirProgram ==
  \/ \E n \in Names : RemoveDir(n) \/ \E flags \in Asked : AddDir(n, flags)
  \/ SetDirCallback \/ Shutdown

DirNext == DirProgram \/ WatchCallback \/ CalledFreed \/ \E d \in Dirs, mask \in Changes : Change(d, mask)

DirSpec == DirInit /\ [][DirNext]_dirVars /\ WF_dirVars(WatchCallback)
-------------------------------------------------------------------------------
DirTypeOK ==
  /\ backend \in {"DW_INOTIFY", "DW_FAM"}
  /\ entries \in Seq(Entry) /\ callback \in BOOLEAN
  /\ watches \in SUBSET Watch
  /\ waiting \in Seq(Event) /\ buff \in Seq(Event)
  /\ at \in 0..MaxEntries
  /\ where \in {"loop", "callback", "off", "dead"}
  /\ added \in 0..MaxEntries /\ happened \in 0..MaxChanges
  /\ due \in SUBSET ((1..MaxEntries) \X (1..MaxChanges))
  /\ reported \in SUBSET ((1..MaxEntries) \X (1..MaxChanges))
  /\ mixed \in BOOLEAN

(* The callback is told, for an entry that is still there, of changes in   *)
(* its directory that it asked for and that happened since it was added,   *)
(* each once and in their order, whatever was removed, added and read in   *)
(* between: "After directory is removed from notifier, further change      *)
(* events in it will not be delivered" (DirWatch.h:160).                   *)
ReportsAreDue ==
  [][~mixed' => \A p \in reported' \ reported :
       /\ p \in due /\ p[1] \in Regs
       /\ \A q \in reported : q[1] = p[1] => q[2] < p[2]]_dirVars

Unreported(c) == {r \in Regs : <<r, c>> \in due \ reported}

(* Each change that is due is reported, unless its entry is removed or the *)
(* callback taken away before (DirWatchInotify.cpp:75-101, "call callback  *)
(* but do not quit").                                                      *)
ChangesAreReported ==
  \A c \in 1..MaxChanges :
    Unreported(c) # {} ~> Unreported(c) = {} \/ mixed \/ where = "dead"
===============================================================================
