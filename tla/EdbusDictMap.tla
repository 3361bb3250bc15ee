----------------------------- MODULE EdbusDictMap -----------------------------
(***************************************************************************)
(* What EdbusDict.h promises of a dict: "a dictionary container (or map in *)
(* STL)", in which all keys and all values are of one type.                *)
(***************************************************************************)
CONSTANTS Handles, None, Data, TypeOf, Basic

VARIABLE dict

Alive(h) == dict[h] # None

Init == dict = [h \in Handles |-> None]

Create(h)  == ~Alive(h) /\ dict' = [dict EXCEPT ![h] = <<>>]
Copy(h, g) == ~Alive(h) /\ Alive(g) /\ dict' = [dict EXCEPT ![h] = dict[g]]
Destroy(h) == Alive(h) /\ dict' = [dict EXCEPT ![h] = None]
Assign(h, g) == Alive(h) /\ Alive(g) /\ dict' = [dict EXCEPT ![h] = dict[g]]

Fits(d, k, v) ==
  /\ TypeOf[k] \in Basic
  /\ \A other \in DOMAIN d :
       TypeOf[other] = TypeOf[k] /\ TypeOf[d[other]] = TypeOf[v]

Put(h, k, v) ==
  /\ Alive(h) /\ Fits(dict[h], k, v)
  /\ dict' = [dict EXCEPT ![h] = [other \in DOMAIN @ \cup {k} |->
                                 IF other = k THEN v ELSE @[other]]]

Clear(h) == Alive(h) /\ dict' = [dict EXCEPT ![h] = <<>>]

(* An operation of which it says no more.                                  *)
Unchanged == UNCHANGED dict

Remove(h, k) ==
  /\ Alive(h)
  /\ dict' = [dict EXCEPT ![h] = [other \in DOMAIN @ \ {k} |-> @[other]]]
===============================================================================
