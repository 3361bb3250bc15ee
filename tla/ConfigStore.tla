------------------------------ MODULE ConfigStore ------------------------------
(***************************************************************************)
(* What programs that keep their settings with Resource are promised: each *)
(* has a map of the user's settings over one of the system's, and the disk *)
(* changes from one map to another, never to something in between.         *)
(***************************************************************************)
EXTENDS Naturals

CONSTANTS
  Apps, Options, Texts, NoConf,  \* as in Resource
  Trimmed, Lowered,
  MaxEdits                       \* bound: changes by others

VARIABLES
  disk,   \* the user's settings, NoConf when there are none to be read
  system, \* the system's
  memory, \* what each program has loaded and set
  full,   \* whether the disk may run out of space
  edits   \* how often something else than a program has changed the disk

Maps == UNION {[S -> Texts] : S \in SUBSET Options}

Nothing == [user |-> NoConf, sys |-> NoConf]

Init ==
  /\ disk \in Maps \cup {NoConf} /\ system \in Maps \cup {NoConf}
  /\ memory = [p \in Apps |-> Nothing]
  /\ full \in BOOLEAN /\ edits = 0

Load(p) ==
  /\ memory' = [memory EXCEPT ![p] = [user |-> disk, sys |-> system]]
  /\ UNCHANGED <<disk, system, full, edits>>

Put(map, o, v) == [x \in DOMAIN map \cup {o} |-> IF x = o THEN v ELSE map[x]]

Set(p, o, v) ==
  /\ memory' = [memory EXCEPT ![p].user = IF @ = NoConf THEN [x \in {o} |-> v] ELSE Put(@, o, v)]
  /\ UNCHANGED <<disk, system, full, edits>>

(* To ask for a truth value may put the text that is found into lower      *)
(* case; no other setting changes, and where it is found depends on the    *)
(* maps alone.                                                             *)
Has(map, o) == map # NoConf /\ o \in DOMAIN map

Get(p, o, order) ==
  /\ \E i \in DOMAIN order :
       /\ Has(memory[p][order[i]], o)
       /\ \A j \in 1..(i - 1) : ~Has(memory[p][order[j]], o)
       /\ memory' = [memory EXCEPT ![p][order[i]][o] = Lowered[@]]
  /\ UNCHANGED <<disk, system, full, edits>>

Forget(p) ==
  /\ memory' = [memory EXCEPT ![p] = Nothing]
  /\ UNCHANGED <<disk, system, full, edits>>

(* All that a program has, or, when the disk is full, some of it.          *)
Save(p) ==
  /\ memory[p].user # NoConf
  /\ \E S \in SUBSET DOMAIN memory[p].user :
       /\ S = DOMAIN memory[p].user \/ full
       /\ disk' = [o \in S |-> Trimmed[memory[p].user[o]]]
  /\ UNCHANGED <<system, memory, full, edits>>

Edit ==
  /\ edits < MaxEdits
  /\ edits' = edits + 1
  /\ disk' \in Maps \cup {NoConf}
  /\ UNCHANGED <<system, memory, full>>

Orders == {<<"user">>, <<"sys">>, <<"user", "sys">>, <<"sys", "user">>}

vars == <<disk, system, memory, full, edits>>

(* A stutter comes first, so that TLC need not try the other actions.      *)
Next ==
  \/ UNCHANGED vars
  \/ \E p \in Apps : Load(p) \/ Forget(p) \/ Save(p)
  \/ \E p \in Apps, o \in Options, v \in Texts : Set(p, o, v)
  \/ \E p \in Apps, o \in Options, order \in Orders : Get(p, o, order)
  \/ Edit

Spec == Init /\ [][Next]_vars
===============================================================================
