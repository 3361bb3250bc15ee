---------------------------- MODULE XSettingsStore ----------------------------
(***************************************************************************)
(* What the users of an XSettingsData are promised: a map of settings that *)
(* the operations of XSettingsCommon.cpp change as those of a map would.   *)
(***************************************************************************)
EXTENDS XSettingsMap, Sequences, FiniteSets

CONSTANTS
  Foreign,     \* properties that other programs may publish
  Unreadable   \* a property that is absent or makes no sense

VARIABLES
  settings, serial,  \* of an XSettingsData
  property           \* published, a sequence of settings and a serial

Init == settings = EmptySettings /\ serial = 0 /\ property = Unreadable

Set(n, v) ==
  /\ settings' = PutSetting(settings, n, v, serial)
  /\ UNCHANGED <<serial, property>>

Delete(n) ==
  /\ settings' = DropSetting(settings, n)
  /\ UNCHANGED <<serial, property>>

(* Each setting is published once, in any order.                           *)
Notify ==
  /\ serial < MaxSerial
  /\ serial' = serial + 1
  /\ property' # Unreadable
  /\ property'.serial = serial
  /\ Len(property'.entries) = Cardinality(DOMAIN settings)
  /\ \A n \in DOMAIN settings : \E i \in DOMAIN property'.entries :
       property'.entries[i] = [name |-> n, val |-> settings[n].val, stamp |-> settings[n].stamp]
  /\ UNCHANGED settings

Write ==
  /\ property' \in Foreign \cup {Unreadable}
  /\ UNCHANGED <<settings, serial>>

(* Of settings with one name the property's first counts.                  *)
FirstOf(entries) ==
  [n \in {entries[i].name : i \in DOMAIN entries} |->
     LET i == CHOOSE i \in DOMAIN entries :
                entries[i].name = n /\ \A j \in 1..(i-1) : entries[j].name # n
     IN  [val |-> entries[i].val, stamp |-> entries[i].stamp]]

Read ==
  /\ IF property = Unreadable
       THEN settings' = EmptySettings /\ serial' \in Serial
       ELSE settings' = FirstOf(property.entries) /\ serial' = property.serial
  /\ UNCHANGED property

Next ==
  \/ \E n \in Names, v \in Values : Set(n, v)
  \/ \E n \in Names : Delete(n)
  \/ Notify \/ Write \/ Read

Spec == Init /\ [][Next]_<<settings, serial, property>>
===============================================================================
