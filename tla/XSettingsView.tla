----------------------------- MODULE XSettingsView -----------------------------
(***************************************************************************)
(* What an application sees of the settings through the callback of its    *)
(* XSettingsClient: read_settings() compares the list it had with the list *)
(* it has read (notify_changes(), XSettingsClient.cpp) and reports each    *)
(* difference; the application keeps a copy up to date by the reports.     *)
(***************************************************************************)
EXTENDS XSettings

CONSTANT Before   \* strcmp(a, b) < 0, as the set of those <<a, b>>

ASSUME OrderAssumption ==
  /\ \A n \in Names : <<n, n>> \notin Before
  /\ \A l, m, n \in Names : <<l, m>> \in Before /\ <<m, n>> \in Before => <<l, n>> \in Before
  /\ \A m, n \in Names : m = n \/ <<m, n>> \in Before \/ <<n, m>> \in Before

VARIABLE view     \* each application's copy: values by setting name

viewVars == <<vars, view>>

(* A client's settings as the sorted list it is, see XSettingsList: each   *)
(* has as many before it as there are smaller names.                       *)
Smaller(s, n) == {m \in DOMAIN s : <<m, n>> \in Before}

SortedNames(s) ==
  [i \in 1..Cardinality(DOMAIN s) |->
     CHOOSE n \in DOMAIN s : Cardinality(Smaller(s, n)) = i - 1]

Values0(s) == [n \in DOMAIN s |-> s[n].val]

NoReport == [action |-> "none"]

(* Mutant: the walk ends with the shorter list.                            *)
NotifyChangesShort(old, new) ==
  LET o == SortedNames(old)
      n == SortedNames(new)
  IN  [i \in DOMAIN o \cap DOMAIN n |->
         IF o[i] = n[i]
           THEN IF old[o[i]].val = new[o[i]].val
                  THEN NoReport
                  ELSE [action |-> "changed", name |-> o[i], val |-> new[o[i]].val]
           ELSE IF <<o[i], n[i]>> \in Before
                  THEN [action |-> "deleted", name |-> o[i]]
                  ELSE [action |-> "new", name |-> n[i], val |-> new[n[i]].val]]

(* notify_changes(): both lists are walked in step, whichever of the two   *)
(* is reported on, so that the i-th report is about their i-th settings.   *)
NotifyChanges(old, new) ==
  LET o == SortedNames(old)
      n == SortedNames(new)
      Deleted(i) == [action |-> "deleted", name |-> o[i]]
      New(i)     == [action |-> "new", name |-> n[i], val |-> new[n[i]].val]
      Changed(i) == [action |-> "changed", name |-> o[i], val |-> new[o[i]].val]
  IN  [i \in DOMAIN o \cup DOMAIN n |->
         CASE i \notin DOMAIN n -> Deleted(i)
           [] i \notin DOMAIN o -> New(i)
           [] i \in DOMAIN o \cap DOMAIN n /\ o[i] = n[i] ->
                IF old[o[i]].val = new[o[i]].val THEN NoReport ELSE Changed(i)
           [] i \in DOMAIN o \cap DOMAIN n /\ o[i] # n[i] ->
                IF <<o[i], n[i]>> \in Before THEN Deleted(i) ELSE New(i)]

(* What the example callback of XSettingsClient.h does with a report.      *)
Heed(copy, report) ==
  CASE report.action = "none"    -> copy
    [] report.action = "deleted" -> [n \in DOMAIN copy \ {report.name} |-> copy[n]]
    [] OTHER -> [n \in DOMAIN copy \cup {report.name} |->
                   IF n = report.name THEN report.val ELSE copy[n]]

(* The copy after all reports, one after the other.                        *)
Heeded(copy, reports) ==
  LET after[i \in 0..Len(reports)] ==
        IF i = 0 THEN copy ELSE Heed(after[i - 1], reports[i])
  IN  after[Len(reports)]

ViewInit == Init /\ view = [c \in Clients |-> Values0(EmptySettings)]

(* read_settings() calls the callback before it returns.                   *)
ViewRead(c) ==
  /\ ClientReadSettings(c)
  /\ view' = [view EXCEPT ![c] =
       Heeded(@, NotifyChanges(client_data[c].settings, client_data'[c].settings))]

(* clear() reports nothing: the application forgets the copy itself.       *)
ViewClear(c) ==
  /\ ClientClear(c)
  /\ view' = [view EXCEPT ![c] = Values0(EmptySettings)]

OtherStep ==
  \/ Tick
  \/ \E m \in Managers : ManagerNext(m)
  \/ \E c \in Clients :
       \/ ClientInit(c) \/ ClientCheckManagerWindow(c) \/ ClientProcessXEvent(c)
       \/ ClientSet(c) \/ ClientManagerNotify(c) \/ ClientDropEvent(c)

ViewNext ==
  \/ \E c \in Clients : ViewRead(c) \/ ViewClear(c)
  \/ OtherStep /\ UNCHANGED view

ViewSpec == ViewInit /\ [][ViewNext]_viewVars

(* "This callback will be triggered when one of the settings are changed   *)
(* on manager side so application can update needed data"                  *)
(* (XSettingsClient.h:50): the copy of an application that only reads is   *)
(* the list its client has.  Depends on every list that replaces another   *)
(* holding all the names the other held, which a manager's own do; the     *)
(* walk in step of notify_changes() sees no other difference right.        *)
ViewExact ==
  \A c \in Clients \ Writers : view[c] = Values0(client_data[c].settings)

(* The inductive invariant behind ViewExact with one window, so that no    *)
(* manager replaces another, and no client that writes: names go from the  *)
(* manager's list to the property to the clients' lists, and none leaves a *)
(* list before all leave.                                                  *)
ListsGrow ==
  /\ \A m \in Managers : IsFiniteSet(DOMAIN manager_data[m].settings)
  /\ \A w \in Windows : IsFiniteSet(DOMAIN property[w].settings)
  /\ \A c \in Clients : IsFiniteSet(DOMAIN client_data[c].settings)
  /\ \A w \in alive :
       /\ DOMAIN property[w].settings \subseteq DOMAIN manager_data[Creator[w]].settings
       /\ \A c \in Clients :
            DOMAIN client_data[c].settings \subseteq DOMAIN property[w].settings
  /\ created = {} => \A c \in Clients : DOMAIN client_data[c].settings = {}
  /\ \A c \in Clients : cpc[c] = "off" => client_data[c] = NullData
===============================================================================
