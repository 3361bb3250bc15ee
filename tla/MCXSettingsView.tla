---------------------------- MODULE MCXSettingsView ----------------------------
(* Small instances of XSettingsView.                                       *)
EXTENDS XSettingsView

CONSTANTS m1, m2, w1, w2, w3, c1

(* Manager m1 can run init() twice, m2 once.                               *)
CreatorOf == [w \in Windows |-> IF w = w3 THEN m2 ELSE m1]

OnlyRead == [c \in Clients |-> {}]

Alphabetical == {<<"a", "b">>, <<"a", "c">>, <<"b", "c">>}
===============================================================================
