------------------------------ MODULE MCXSettings ------------------------------
(* Small instances of XSettings.                                           *)
EXTENDS XSettings

CONSTANTS m1, m2, w1, w2, w3, c1, c2

(* Manager m1 can run init() twice, m2 once.                               *)
CreatorOf == [w \in Windows |-> IF w = w3 THEN m2 ELSE m1]

(* Who sets what: nobody; c2 everything.                                   *)
OnlyRead  == [c \in Clients |-> {}]
OneSets   == [c \in Clients |-> IF c = c2 THEN Names ELSE {}]
===============================================================================
