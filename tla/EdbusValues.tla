----------------------------- MODULE EdbusValues ------------------------------
(***************************************************************************)
(* What implicit sharing promises: containers that have each their own     *)
(* content, whatever was copied from whatever.                             *)
(***************************************************************************)
EXTENDS Sequences

CONSTANTS
  Handles,  \* the container objects of a program
  Items,    \* what a container holds: EdbusDictEntry or EdbusData
  None      \* of an object that is not constructed

VARIABLE value

Alive(h) == value[h] # None

Init == value = [h \in Handles |-> None]

Create(h)  == ~Alive(h) /\ value' = [value EXCEPT ![h] = <<>>]
Copy(h, g) == ~Alive(h) /\ Alive(g) /\ value' = [value EXCEPT ![h] = value[g]]
Destroy(h) == Alive(h) /\ value' = [value EXCEPT ![h] = None]
Assign(h, g) == Alive(h) /\ Alive(g) /\ value' = [value EXCEPT ![h] = value[g]]

(* A change of one container is a change of that one only.                 *)
Change(h) ==
  /\ Alive(h)
  /\ value'[h] \in Seq(Items)
  /\ value' = [value EXCEPT ![h] = value'[h]]

Next ==
  \E h \in Handles :
    \/ Create(h) \/ Destroy(h) \/ Change(h)
    \/ \E g \in Handles : Copy(h, g) \/ Assign(h, g)

Spec == Init /\ [][Next]_value
===============================================================================
