------------------------------ MODULE EdbusDict -------------------------------
(***************************************************************************)
(* EdbusDict of EdbusDict.cpp: a shared list of entries with unique keys,  *)
(* all keys of one type and all values of one type.                        *)
(***************************************************************************)
EXTENDS EdbusContainer

Entry == [key : Data, value : Data]

ASSUME ItemsAssumption == Entry \subseteq Items

(* EdbusData::basic_type(): what append() takes for a key.                 *)
Basic == {TypeOf[x] : x \in Data} \ {"array", "struct", "variant", "dict"}

KeysOf(l) == [i \in DOMAIN l |-> l[i].key]

(* What append() checks: a basic key, and the types of the first entry.    *)
Accepts(l, k, v) ==
  /\ TypeOf[k] \in Basic
  /\ l # <<>> => TypeOf[k] = TypeOf[l[1].key] /\ TypeOf[v] = TypeOf[l[1].value]

(* Mutant: append() does not look for the key.                             *)
AppendedTwice(l, places, k, v) == Append(l, [key |-> k, value |-> v])

(* Mutant: append() keeps the old value of a key.                          *)
AppendedOnce(l, places, k, v) ==
  IF places = {} THEN Append(l, [key |-> k, value |-> v]) ELSE l

(* What append() makes of a list in which it finds the key at some places. *)
Appended(l, places, k, v) ==
  IF places = {}
    THEN Append(l, [key |-> k, value |-> v])
    ELSE [l EXCEPT ![First(places)].value = v]

Find(l, k) == l[First(Found(KeysOf(l), k))].value

AppendEntry(h, k, v) ==
  /\ Alive(h)
  /\ Accepts(Content(h), k, v)
  /\ \E places \in CanBeFound(KeysOf(Content(h)), k) :
       /\ places = {} => Len(Content(h)) < MaxLen
       /\ Write(h, Appended(Content(h), places, k, v))

(* append() warns and does nothing, without unhooking.                     *)
RejectEntry(h, k, v) ==
  /\ Alive(h)
  /\ ~Accepts(Content(h), k, v)
  /\ UNCHANGED heap

(* clear() and remove() unhook whether or not there is something to do.    *)
Clear(h) == Alive(h) /\ Write(h, <<>>)

Remove(h, k) ==
  /\ Alive(h)
  /\ \E places \in CanBeFound(KeysOf(Content(h)), k) :
       Write(h, Removed(Content(h), places))

Init == HeapInit

Next ==
  \/ Inherited
  \/ \E h \in Handles :
       \/ Clear(h)
       \/ \E k \in Data : Remove(h, k)
       \/ \E k \in Data, v \in Data : AppendEntry(h, k, v) \/ RejectEntry(h, k, v)

Spec == Init /\ [][Next]_heap
-------------------------------------------------------------------------------
(* The keys that operator== tells from each other and finds again: all     *)
(* types but object paths, and all doubles but NaNs.                       *)
Comparable(k) == TypeOf[k] \in Basic \ Open /\ k \notin NaNs

(* What a program finds in the list under these keys.                      *)
KeysIn(l) == {k \in {l[i].key : i \in DOMAIN l} : Comparable(k)}

MapOf(l) == [k \in KeysIn(l) |-> Find(l, k)]

(* "Stored data will be unique by key" (EdbusDict.h:62), and "Each         *)
(* instance of EdbusDict object will have the same types for the keys and  *)
(* the same types for the values" (82), which append() (EdbusDict.cpp:     *)
(* 24-66) tests on the first entry only.  The promise is not kept of keys  *)
(* that cannot be compared (EdbusData.cpp:320, 330-334): a NaN is appended *)
(* once more each time, an object path perhaps, and they are left out here.*)
WellFormed(l) ==
  /\ \A i, j \in DOMAIN l : Comparable(l[i].key) /\ l[i].key = l[j].key => i = j
  /\ \A i, j \in DOMAIN l : /\ TypeOf[l[i].key] = TypeOf[l[j].key]
                            /\ TypeOf[l[i].value] = TypeOf[l[j].value]
  /\ \A i \in DOMAIN l : TypeOf[l[i].key] \in Basic

DictsWellFormed == \A h \in Handles : Alive(h) => WellFormed(Content(h))
===============================================================================
