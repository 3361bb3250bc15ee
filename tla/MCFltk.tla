-------------------------------- MODULE MCFltk ---------------------------------
EXTENDS Fltk

MCDirOf == [n \in Names |-> IF n = "b" THEN "y" ELSE "x"]

(* One object goes from bus to bus, the other stays with one.              *)
MCJoins    == [e \in Conns |-> IF e = "e1" THEN Buses ELSE {"session"}]
MCMaxCalls == [e \in Conns |-> IF e = "e1" THEN 4 ELSE 3]

MCMail == <<[bus |-> "session", path |-> "/p"], [bus |-> "session", path |-> "/q"]>>

MCHas == [t \in Themes |-> {<<"empty", "apps">>, <<"home", IF t = "edeneu" THEN "apps" ELSE "actions">>}]

MCFallback == [i \in Icons |-> "empty"]
===============================================================================
