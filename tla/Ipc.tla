---------------------------------- MODULE Ipc ----------------------------------
(***************************************************************************)
(* Sipc.cpp: how servers get their names, and how one that has its name    *)
(* serves its clients.  A behaviour is about the one or the other.         *)
(***************************************************************************)
EXTENDS Sipc, SipcNames

VARIABLE about  \* "names" or "messages"

ipcVars == <<about, vars, namesVars>>

IpcInit == about \in {"names", "messages"} /\ Init /\ NamesInit

MessagesStep == about = "messages" /\ Next /\ UNCHANGED <<about, namesVars>>

NamesStep == about = "names" /\ NamesNext /\ UNCHANGED <<about, vars>>

IpcNext == MessagesStep \/ NamesStep

(* See Sipc.Fairness; a process that wants a name may end at any time.     *)
IpcSpec ==
  /\ IpcInit /\ [][IpcNext]_ipcVars
  /\ WF_ipcVars(about = "messages" /\ Server /\ UNCHANGED <<about, namesVars>>)
  /\ \A c \in Clients :
       WF_ipcVars(about = "messages" /\ SendNewline(c) /\ UNCHANGED <<about, namesVars>>)
-------------------------------------------------------------------------------
(* Every variable of the two has its type.                                 *)
IpcTypeOK == about \in {"names", "messages"} /\ TypeOK /\ NamesTypeOK
===============================================================================
