------------------------------- MODULE InMemory --------------------------------
(***************************************************************************)
(* What edelib keeps in memory for a program: the list of the settings,    *)
(* the template list, a date, a configuration and its file.  Nothing       *)
(* connects them, so that a behaviour is of one of them.                   *)
(***************************************************************************)
EXTENDS XSettingsList, LinkedList, Calendar, Resource

VARIABLE kind  \* "settings", "template", "date" or "resource"

inMemoryVars == <<kind, vars, linkedVars, date, resourceVars>>

InMemoryInit ==
  /\ kind \in {"settings", "template", "date", "resource"}
  /\ Init /\ LinkedInit /\ DateInit /\ ResourceInit
  /\ kind # "resource" => file = NoFile /\ ~full

SettingsStep ==
  kind = "settings" /\ Next /\ UNCHANGED <<kind, linkedVars, date, resourceVars>>

TemplateStep ==
  kind = "template" /\ LinkedNext /\ UNCHANGED <<kind, vars, date, resourceVars>>

DateStep ==
  kind = "date" /\ DateNext /\ UNCHANGED <<kind, vars, linkedVars, resourceVars>>

ConfigStep ==
  kind = "resource" /\ ResourceNext /\ UNCHANGED <<kind, vars, linkedVars, date>>

InMemoryNext == SettingsStep \/ TemplateStep \/ DateStep \/ ConfigStep

InMemorySpec == InMemoryInit /\ [][InMemoryNext]_inMemoryVars
-------------------------------------------------------------------------------
(* The settings, their serial and the property keep their types            *)
(* (XSettingsCommon.cpp:87-136), and so do a date (DateTime.cpp:209-361)   *)
(* and a configuration.                                                    *)
InMemoryTypeOK == TypeOK /\ DateTypeOK /\ ResourceTypeOK
===============================================================================
