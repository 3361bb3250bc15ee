------------------------------ MODULE EdbusList -------------------------------
(***************************************************************************)
(* EdbusList of EdbusList.cpp: a shared list of data that an array wants   *)
(* to be of one type and a struct does not.                                *)
(***************************************************************************)
EXTENDS EdbusContainer, Selection

VARIABLE array_mode  \* of the object, not of the cell it points to

listVars == <<heap, array_mode>>

Init == HeapInit /\ array_mode = [h \in Handles |-> FALSE]

(* create_array() and create_struct().                                     *)
CreateMode(h, a) == Create(h) /\ array_mode' = [array_mode EXCEPT ![h] = a]

(* Mutant: an operator= that forgets the member.                           *)
CopyNoMode(h, other) ==
  \/ Copy(h, other) /\ array_mode' = [array_mode EXCEPT ![h] = array_mode[other]]
  \/ Assign(h, other) /\ UNCHANGED array_mode

(* The implicit copy constructor and operator= copy the member, too.       *)
CopyMode(h, other) ==
  /\ Copy(h, other) \/ Assign(h, other)
  /\ array_mode' = [array_mode EXCEPT ![h] = array_mode[other]]

DestroyMode(h) == Destroy(h) /\ array_mode' = [array_mode EXCEPT ![h] = FALSE]

Accepts(h, v) ==
  array_mode[h] /\ Content(h) # <<>> => TypeOf[v] = TypeOf[Content(h)[1]]

AppendData(h, v) ==
  /\ Alive(h)
  /\ Accepts(h, v) /\ Len(Content(h)) < MaxLen
  /\ Write(h, Append(Content(h), v))
  /\ UNCHANGED array_mode

RejectData(h, v) ==
  /\ Alive(h)
  /\ ~Accepts(h, v)
  /\ UNCHANGED listVars

Clear(h) == Alive(h) /\ Write(h, <<>>) /\ UNCHANGED array_mode

Remove(h, v) ==
  /\ Alive(h)
  /\ \E places \in CanBeFound(Content(h), v) : Write(h, Removed(Content(h), places))
  /\ UNCHANGED array_mode

(* Of a value that is not itself an element of the list: remove_all()      *)
(* goes on comparing with it after it has erased what is equal to it.      *)
RemoveAll(h, v) ==
  /\ Alive(h)
  /\ \E places \in CanBeFound(Content(h), v) :
       Write(h, AtPlaces(Content(h), DOMAIN Content(h) \ places))
  /\ UNCHANGED array_mode

Next ==
  \E h \in Handles :
    \/ \E a \in BOOLEAN : CreateMode(h, a)
    \/ \E other \in Handles : CopyMode(h, other)
    \/ DestroyMode(h)
    \/ Clear(h)
    \/ \E v \in Data : AppendData(h, v) \/ RejectData(h, v) \/ Remove(h, v) \/ RemoveAll(h, v)

Spec == Init /\ [][Next]_listVars
-------------------------------------------------------------------------------
(* Of an array "all further elements should be the same type as first      *)
(* element" (EdbusList.h:85).  append() (EdbusList.cpp:27-39) tests it by  *)
(* a mode that is the object's and not the cell's, which other objects     *)
(* share, and assignment may turn an array into a struct and back.         *)
ArraysAreOneType ==
  \A h \in Handles : Alive(h) /\ array_mode[h] =>
    \A i, j \in DOMAIN Content(h) : TypeOf[Content(h)[i]] = TypeOf[Content(h)[j]]
===============================================================================
