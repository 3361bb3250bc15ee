------------------------------- MODULE SipcNames -------------------------------
(***************************************************************************)
(* SipcServer::request_name() of Sipc.cpp and what ends it: servers of one *)
(* user, each in a process of its own, that want names.  A name is a file  *)
(* in /tmp, and the file leads to a socket.                                *)
(***************************************************************************)
EXTENDS Naturals, FiniteSets

CONSTANTS
  Servers,
  Prefixes,
  NoPrefix,
  MaxSockets  \* bound: sockets that are bound to a file

ASSUME NamesAssumption == NoPrefix \notin Prefixes /\ MaxSockets \in Nat

VARIABLES
  file,       \* the socket that the file of a prefix leads to, 0 without a file
  bound,      \* number of sockets that were bound so far
  listening,  \* sockets that a connect() can reach
  priv,       \* SipcServerPrivate; "freed" when priv points to what is gone
  call,       \* where request_name() is, and its argument
  up,         \* servers whose process runs
  told,       \* history: the prefix that request_name() returned true for
  ruined      \* history: prefixes whose file was unlinked by another server

namesVars == <<file, bound, listening, priv, call, up, told, ruined>>

NoPriv == [state |-> "null", prefix |-> NoPrefix, fd |-> 0]
NoCall == [step |-> "none", prefix |-> NoPrefix]

NamesInit ==
  /\ file = [p \in Prefixes |-> 0] /\ bound = 0 /\ listening = {}
  /\ priv = [s \in Servers |-> NoPriv] /\ call = [s \in Servers |-> NoCall]
  /\ up = Servers /\ told = [s \in Servers |-> NoPrefix] /\ ruined = {}
-------------------------------------------------------------------------------
Unlinked(s) ==
  /\ file' = [p \in Prefixes |-> IF p = priv[s].prefix THEN 0 ELSE file[p]]
  /\ ruined' = ruined \cup {p \in Prefixes : p = priv[s].prefix /\ file[p] \notin {0, priv[s].fd}}

(* delete priv.  The file is unlinked whoever has bound it.  What is freed *)
(* already may end the process, or unlink a second time, or do nothing.    *)
Deleted(s) ==
  \/ /\ priv[s].state = "live" /\ Unlinked(s)
     /\ listening' = listening \ {priv[s].fd} /\ UNCHANGED up
  \/ /\ priv[s].state = "freed" /\ UNCHANGED listening
     /\ \/ up' = up \ {s} /\ UNCHANGED <<file, ruined>>
        \/ UNCHANGED up /\ Unlinked(s)
        \/ UNCHANGED <<up, file, ruined>>
  \/ priv[s].state = "null" /\ UNCHANGED <<file, ruined, listening, up>>

Request(s, p) ==
  /\ s \in up /\ call[s] = NoCall
  /\ Deleted(s)
  /\ priv' = [priv EXCEPT ![s].state = IF @ = "null" THEN @ ELSE "freed"]
  /\ call' = [call EXCEPT ![s] = [step |-> "check", prefix |-> p]]
  /\ told' = [told EXCEPT ![s] = NoPrefix]
  /\ UNCHANGED bound

(* file_is_socket(); priv is left as it is when there is a file.           *)
CheckFile(s) ==
  /\ s \in up /\ call[s].step = "check"
  /\ call' = [call EXCEPT ![s] = IF file[@.prefix] # 0 THEN NoCall ELSE [@ EXCEPT !.step = "bind"]]
  /\ UNCHANGED <<file, bound, listening, priv, up, told, ruined>>

(* Mutant: what another has bound meanwhile is replaced.                   *)
BindOver(s) ==
  /\ s \in up /\ call[s].step = "bind" /\ bound < MaxSockets
  /\ bound' = bound + 1
  /\ file' = [file EXCEPT ![call[s].prefix] = bound']
  /\ priv' = [priv EXCEPT ![s] = [state |-> "live", prefix |-> call[s].prefix, fd |-> bound']]
  /\ call' = [call EXCEPT ![s].step = "listen"]
  /\ UNCHANGED <<listening, up, told, ruined>>

(* bind() fails when another was faster; the new priv stays, with the path.*)
Bind(s) ==
  /\ s \in up /\ call[s].step = "bind"
  /\ LET p == call[s].prefix IN
       \/ /\ file[p] # 0
          /\ priv' = [priv EXCEPT ![s] = [state |-> "live", prefix |-> p, fd |-> 0]]
          /\ call' = [call EXCEPT ![s] = NoCall]
          /\ UNCHANGED <<file, bound>>
       \/ /\ file[p] = 0 /\ bound < MaxSockets
          /\ bound' = bound + 1
          /\ file' = [file EXCEPT ![p] = bound']
          /\ priv' = [priv EXCEPT ![s] = [state |-> "live", prefix |-> p, fd |-> bound']]
          /\ call' = [call EXCEPT ![s].step = "listen"]
  /\ UNCHANGED <<listening, up, told, ruined>>

(* listen(), and request_name() returns true.                              *)
Listen(s) ==
  /\ s \in up /\ call[s].step = "listen"
  /\ listening' = listening \cup {priv[s].fd}
  /\ told' = [told EXCEPT ![s] = call[s].prefix]
  /\ call' = [call EXCEPT ![s] = NoCall]
  /\ UNCHANGED <<file, bound, priv, up, ruined>>

(* ~SipcServer()                                                           *)
Destroy(s) ==
  /\ s \in up /\ call[s] = NoCall /\ priv[s] # NoPriv
  /\ Deleted(s)
  /\ priv' = [priv EXCEPT ![s] = NoPriv]
  /\ told' = [told EXCEPT ![s] = NoPrefix]
  /\ UNCHANGED <<bound, call>>

(* The process ends without a destructor: the file stays.                  *)
Crash(s) ==
  /\ s \in up
  /\ up' = up \ {s}
  /\ listening' = listening \ {priv[s].fd}
  /\ UNCHANGED <<file, bound, priv, call, told, ruined>>

Restart(s) ==
  /\ s \notin up
  /\ up' = up \cup {s}
  /\ priv' = [priv EXCEPT ![s] = NoPriv]
  /\ call' = [call EXCEPT ![s] = NoCall]
  /\ told' = [told EXCEPT ![s] = NoPrefix]
  /\ UNCHANGED <<file, bound, listening, ruined>>

NamesNext ==
  \E s \in Servers :
    \/ \E p \in Prefixes : Request(s, p)
    \/ CheckFile(s) \/ Bind(s) \/ Listen(s) \/ Destroy(s) \/ Crash(s) \/ Restart(s)

NamesSpec == NamesInit /\ [][NamesNext]_namesVars
-------------------------------------------------------------------------------
NamesTypeOK ==
  /\ file \in [Prefixes -> 0..MaxSockets] /\ bound \in 0..MaxSockets
  /\ listening \in SUBSET (1..MaxSockets)
  /\ priv \in [Servers -> [state : {"null", "live", "freed"},
                           prefix : Prefixes \cup {NoPrefix}, fd : 0..MaxSockets]]
  /\ call \in [Servers -> [step : {"none", "check", "bind", "listen"},
                           prefix : Prefixes \cup {NoPrefix}]]
  /\ up \in SUBSET Servers
  /\ told \in [Servers -> Prefixes \cup {NoPrefix}] /\ ruined \in SUBSET Prefixes

(* A server that got its name is the one, and the only one, that clients   *)
(* find under it, however several servers look for the file and bind at    *)
(* the same time, crash and start again: "If name is already taken,        *)
(* request_name() will fail" (Sipc.h:56).  This holds until a server that  *)
(* did not get the name is destroyed and unlinks the file of the one that  *)
(* did (Sipc.cpp:70-81).                                                   *)
HolderServes ==
  \A s \in up : told[s] \notin ruined \cup {NoPrefix} =>
    file[told[s]] = priv[s].fd /\ priv[s].fd \in listening
===============================================================================
