------------------------------- MODULE MCInMemory ------------------------------
(* The values TLC runs InMemory with: those of MCXSettingsList, a leap day *)
(* and the end of a month as the current day, texts with and without       *)
(* spaces and capitals, and files with sections and keys twice, without a  *)
(* newline at the end, and with an entry before the first section.         *)
EXTENDS InMemory, MCXSettingsList

Now ==
  {[year |-> 2024, month |-> 2, day |-> 29], [year |-> 2009, month |-> 8, day |-> 31]}

WithoutSpaces == [v \in Texts |-> CASE v = "On " -> "On" [] v = "on " -> "on" [] OTHER -> v]

InLowerCase == [v \in Texts |-> CASE v = "On " -> "on " [] v = "On" -> "on" [] OTHER -> v]

AskedFor == {<<"s", "k">>, <<"s", "l">>}

Edited == {
 [lines |-> <<SectionLine("t"), SectionLine("s"), EntryLine("k", "On "), SectionLine("t"),
              Comment, SectionLine("s"), EntryLine("l", "on"), EntryLine("k", "On")>>,
  ended |-> FALSE],
 [lines |-> <<EntryLine("k", "On"), SectionLine("s")>>, ended |-> TRUE]}

Shipped == {
 [lines |-> <<SectionLine("s"), EntryLine("l", "on "), EntryLine("l", "On ")>>, ended |-> TRUE]}
===============================================================================
