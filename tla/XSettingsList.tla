----------------------------- MODULE XSettingsList -----------------------------
(***************************************************************************)
(* The settings list of XSettingsCommon.cpp: a singly linked list sorted   *)
(* by name.  A list is the sequence of its nodes; walking "iter" is        *)
(* finding the first node at which the loop stops.                         *)
(***************************************************************************)
EXTENDS XSettingsMap, SequencesExt

CONSTANTS
  Before,      \* strcmp(a, b) < 0, as the set of those <<a, b>>
  Foreign,     \* properties that other programs may publish: sequences of
               \* settings in any order, with duplicates, and a serial
  Unreadable   \* a property that is absent or makes no sense

ASSUME BeforeAssumption ==
  /\ Before \in SUBSET (Names \X Names)
  /\ \A a, b, c \in Names : <<a, b>> \in Before /\ <<b, c>> \in Before => <<a, c>> \in Before
  /\ \A a, b \in Names : a # b => (<<a, b>> \in Before <=> <<b, a>> \notin Before)
  /\ \A a \in Names : <<a, a>> \notin Before

VARIABLES
  list, serial,  \* XSettingsData::settings and serial
  property       \* _XSETTINGS_SETTINGS of the manager's window

vars == <<list, serial, property>>

(* XSettingsSetting                                                        *)
Node == [name : Names, val : Values, stamp : Serial]

Property == [entries : Seq(Node), serial : Serial]

ASSUME ForeignAssumption == Foreign \in SUBSET Property /\ Unreadable \notin Property

TypeOK ==
  /\ list \in Seq(Node)
  /\ serial \in Serial
  /\ property \in Property \cup {Unreadable}
-------------------------------------------------------------------------------
(* The first node, walking from the head, with a property; 0 if none.      *)
FirstNode(l, P(_)) == SelectInSeq(l, P)

(* xsettings_list_find()                                                   *)
ListFind(l, n) == FirstNode(l, LAMBDA node : node.name = n)

(* Mutant: the walk stops one node late.                                   *)
ListAddLate(l, s) ==
  LET i == FirstNode(l, LAMBDA node : <<node.name, s.name>> \notin Before) IN
  IF i = 0 THEN Append(l, s)
  ELSE IF l[i].name = s.name THEN l ELSE InsertAt(l, i + 1, s)

(* xsettings_list_add(): stop at the first node not before the new name.   *)
(* A duplicate is refused.                                                 *)
ListAdd(l, s) ==
  LET i == FirstNode(l, LAMBDA node : <<node.name, s.name>> \notin Before) IN
  IF i = 0 THEN Append(l, s)
  ELSE IF l[i].name = s.name THEN l ELSE InsertAt(l, i, s)

(* xsettings_list_remove()                                                 *)
ListRemove(l, n) == IF ListFind(l, n) = 0 THEN l ELSE RemoveAt(l, ListFind(l, n))

(* Mutant: stamped with the serial after the next.                         *)
SetSettingLate(l, n, v, k) ==
  IF ListFind(l, n) # 0 /\ l[ListFind(l, n)].val = v
    THEN l
    ELSE ListAdd(ListRemove(l, n), [name |-> n, val |-> v, stamp |-> k + 1])

(* xsettings_manager_set_setting()                                         *)
SetSetting(l, n, v, k) ==
  IF ListFind(l, n) # 0 /\ l[ListFind(l, n)].val = v
    THEN l
    ELSE ListAdd(ListRemove(l, n), [name |-> n, val |-> v, stamp |-> k])

(* Mutant: the last of a property's duplicates wins.                       *)
DecodeBackwards(entries) == FoldRight(LAMBDA s, l : ListAdd(l, s), entries, <<>>)

(* xsettings_decode(): a list built in the property's order.               *)
Decode(entries) ==
  LET decoded[i \in 0..Len(entries)] ==
        IF i = 0 THEN <<>> ELSE ListAdd(decoded[i - 1], entries[i])
  IN  decoded[Len(entries)]
-------------------------------------------------------------------------------
Init == list = <<>> /\ serial = 0 /\ property = Unreadable

(* set(), of a manager or of a client                                      *)
Set(n, v) ==
  /\ list' = SetSetting(list, n, v, serial)
  /\ UNCHANGED <<serial, property>>

(* xsettings_manager_delete_setting()                                      *)
Delete(n) ==
  /\ list' = ListRemove(list, n)
  /\ UNCHANGED <<serial, property>>

(* xsettings_manager_notify(): the list is encoded from head to tail.      *)
Notify ==
  /\ serial < MaxSerial
  /\ property' = [entries |-> list, serial |-> serial]
  /\ serial' = serial + 1
  /\ UNCHANGED list

(* Another program publishes.                                              *)
Write ==
  /\ property' \in Foreign \cup {Unreadable}
  /\ UNCHANGED <<list, serial>>

(* read_settings().  A property can be found to make no sense before its   *)
(* serial is read or after.                                                *)
Read ==
  /\ IF property = Unreadable
       THEN list' = <<>> /\ serial' \in Serial
       ELSE list' = Decode(property.entries) /\ serial' = property.serial
  /\ UNCHANGED property

Next ==
  \/ \E n \in Names, v \in Values : Set(n, v)
  \/ \E n \in Names : Delete(n)
  \/ Notify \/ Write \/ Read

Spec == Init /\ [][Next]_vars
-------------------------------------------------------------------------------
(* The list is strictly sorted.  xsettings_list_add() depends on it to see *)
(* duplicates, xsettings_list_remove() to remove them all, and             *)
(* notify_changes() (XSettingsClient.cpp:41-63) to compare two lists.      *)
Sorted == \A i, j \in 1..Len(list) : i < j => <<list[i].name, list[j].name>> \in Before

AsMap(l) ==
  [n \in {l[i].name : i \in DOMAIN l} |->
     [val |-> l[ListFind(l, n)].val, stamp |-> l[ListFind(l, n)].stamp]]

(* Every operation on the list does to the map it stands for what the      *)
(* abstract store promises; in particular the first of a property's        *)
(* duplicates wins although it is inserted where it sorts.                 *)
Store == INSTANCE XSettingsStore WITH settings <- AsMap(list)

IsAStore == Store!Spec
===============================================================================
