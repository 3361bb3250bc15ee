---------------------------- MODULE MCXSettingsList ----------------------------
(* A small instance of XSettingsList: three names, properties of up to     *)
(* three settings in any order.                                            *)
EXTENDS XSettingsList

Alphabetical == {<<"a", "b">>, <<"a", "c">>, <<"b", "c">>}

(* Up to three settings; neighbours, and so some duplicates, have          *)
(* different values.                                                       *)
Shuffled ==
  {[entries |-> [i \in DOMAIN ns |-> [name |-> ns[i], val |-> 1 + (i % 2), stamp |-> 0]],
    serial  |-> 0] : ns \in BoundedSeq(Names, 3)}
===============================================================================
