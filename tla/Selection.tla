------------------------------- MODULE Selection -------------------------------
(***************************************************************************)
(* What is left of a list that is walked through once while some of its    *)
(* elements are taken out.                                                 *)
(***************************************************************************)
EXTENDS Naturals, Sequences, FiniteSets

(* The elements of a sequence at some places, in their order.              *)
AtPlaces(s, places) ==
  [n \in 1..Cardinality(places) |->
    s[CHOOSE k \in places : Cardinality(places \cap (1..k)) = n]]
===============================================================================
