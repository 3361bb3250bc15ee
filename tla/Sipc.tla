--------------------------------- MODULE Sipc ---------------------------------
(***************************************************************************)
(* Sipc.cpp: a server that has its name and calls listener_wait() over and *)
(* over, and clients that connect, send messages and go away.              *)
(***************************************************************************)
EXTENDS Listener

CONSTANTS
  Clients,
  None,
  MaxSends,  \* bound on the messages of each client
  server_cb

ServerFd == 1

ASSUME SipcAssumption ==
  /\ IsFiniteSet(Clients) /\ None \notin Clients /\ MaxSends \in [Clients -> Nat]
  /\ Fds = 1..(Cardinality(Clients) + 1) /\ Litter \subseteq Fds
  /\ "read" \in Events /\ Callbacks = {server_cb} /\ Junk # server_cb

VARIABLES
  backlog,  \* clients that are connected but not accepted
  conn,     \* accepted_connections: the client behind a descriptor
  stream,   \* what is written to a connection and not read
  client,   \* "out", "in", "sending" (the newline is missing), "closed"
  sent,     \* number of messages a client has written
  heard,    \* what cb was called with, by client
  pc,       \* of the server: "loop", "read" or "dead"
  buf,      \* of server_cb()
  worn      \* the table was added to after a removal, or its memory not blank

clientVars == <<client, stream, sent>>
serverVars == <<conn, heard, pc, buf, worn>>
vars == <<listener, backlog, clientVars, serverVars>>

Newline == 0
Text    == UNION {1..MaxSends[c] : c \in Clients}
Reading == {"read"}

Open == {f \in Fds : conn[f] # None}

Init ==
  /\ table \in Added(Empty, ServerFd, Reading, server_cb)
  /\ fdtmp = NoSets /\ i = 0
  /\ backlog = <<>>
  /\ conn = [f \in Fds |-> None]
  /\ stream = [c \in Clients |-> <<>>]
  /\ client = [c \in Clients |-> "out"]
  /\ sent = [c \in Clients |-> 0]
  /\ heard = [c \in Clients |-> <<>>]
  /\ pc = "loop" /\ buf = <<>> /\ worn = FALSE
-------------------------------------------------------------------------------
(* The clients.  send() writes the text and the newline separately.        *)
Connect(c) ==
  /\ client[c] = "out"
  /\ client' = [client EXCEPT ![c] = "in"]
  /\ backlog' = Append(backlog, c)
  /\ UNCHANGED <<listener, stream, sent, serverVars>>

SendText(c) ==
  /\ client[c] = "in" /\ sent[c] < MaxSends[c]
  /\ client' = [client EXCEPT ![c] = "sending"]
  /\ stream' = [stream EXCEPT ![c] = Append(@, sent[c] + 1)]
  /\ UNCHANGED <<listener, backlog, sent, serverVars>>

SendNewline(c) ==
  /\ client[c] = "sending"
  /\ client' = [client EXCEPT ![c] = "in"]
  /\ stream' = [stream EXCEPT ![c] = Append(@, Newline)]
  /\ sent' = [sent EXCEPT ![c] = @ + 1]
  /\ UNCHANGED <<listener, backlog, serverVars>>

(* The destructor, or the end of the process at any time.                  *)
Close(c) ==
  /\ client[c] \in {"in", "sending"}
  /\ client' = [client EXCEPT ![c] = "closed"]
  /\ UNCHANGED <<listener, backlog, stream, sent, serverVars>>
-------------------------------------------------------------------------------
(* The server.                                                             *)
HasInput(f) == conn[f] # None /\ (stream[conn[f]] # <<>> \/ client[conn[f]] = "closed")

ReadyToRead == {f \in Fds : HasInput(f)} \cup IF backlog = <<>> THEN {} ELSE {ServerFd}

Wait ==
  /\ pc = "loop"
  /\ Select([e \in Events |-> IF e = "read" THEN ReadyToRead ELSE {}])
  /\ UNCHANGED <<backlog, clientVars, serverVars>>

NewFd == Min((Fds \ {ServerFd}) \ Open)

(* accept_new_connection().  A slot beyond the array may be lost or be the *)
(* end of the program.                                                     *)
Accept ==
  /\ pc = "loop" /\ Calls(server_cb) /\ Here.fd = ServerFd
  /\ conn' = [conn EXCEPT ![NewFd] = Head(backlog)]
  /\ backlog' = Tail(backlog)
  /\ \E added \in Added(table, NewFd, Reading, server_cb) :
       /\ Returned(added)
       /\ worn' = (worn \/ Littered(added) \/ table.nfds > Cardinality(Open) + 1)
  /\ pc' \in {"loop"} \cup IF Strays(table') THEN {"dead"} ELSE {}
  /\ UNCHANGED <<clientVars, heard, buf>>

BeginRead ==
  /\ pc = "loop" /\ Calls(server_cb) /\ Here.fd # ServerFd
  /\ pc' = "read" /\ buf' = <<>>
  /\ UNCHANGED <<listener, backlog, clientVars, conn, heard, worn>>

(* Nobody knows what is called.                                            *)
CallJunk ==
  /\ pc = "loop" /\ Calls(Junk)
  /\ pc' = "dead"
  /\ UNCHANGED <<listener, backlog, clientVars, conn, heard, buf, worn>>

(* read() takes what is there, or blocks.                                  *)
Take(x) ==
  LET c == conn[Here.fd]
  IN  /\ pc = "read" /\ stream[c] # <<>> /\ x = Head(stream[c])
      /\ stream' = [stream EXCEPT ![c] = Tail(@)]
      /\ UNCHANGED <<backlog, client, sent, conn, worn>>

ReadText ==
  \E x \in Text :
    /\ Take(x)
    /\ buf' = Append(buf, x)
    /\ UNCHANGED <<listener, heard, pc>>

ReadNewline ==
  /\ Take(Newline)
  /\ heard' = [heard EXCEPT ![conn[Here.fd]] = Append(@, buf)]
  /\ pc' = "loop" /\ buf' = <<>>
  /\ Returned(table)

AtEnd == stream[conn[Here.fd]] = <<>> /\ client[conn[Here.fd]] = "closed"

(* Mutant: what was read before the end is a message.                      *)
ReadEndAsMessage ==
  /\ pc = "read" /\ AtEnd
  /\ heard' = [heard EXCEPT ![conn[Here.fd]] = IF buf = <<>> THEN @ ELSE Append(@, buf)]
  /\ Returned(Removed(table, Here.fd, Reading))
  /\ conn' = [conn EXCEPT ![Here.fd] = None]
  /\ pc' = "loop" /\ buf' = <<>>
  /\ UNCHANGED <<backlog, clientVars, worn>>

(* Mutant: the listener is not told.                                       *)
ReadEndUntold ==
  /\ pc = "read" /\ AtEnd
  /\ Returned(table)
  /\ conn' = [conn EXCEPT ![Here.fd] = None]
  /\ pc' = "loop" /\ buf' = <<>>
  /\ UNCHANGED <<backlog, clientVars, heard, worn>>

(* What was read before the end is dropped.                                *)
ReadEnd ==
  /\ pc = "read" /\ AtEnd
  /\ Returned(Removed(table, Here.fd, Reading))
  /\ conn' = [conn EXCEPT ![Here.fd] = None]
  /\ pc' = "loop" /\ buf' = <<>>
  /\ UNCHANGED <<backlog, clientVars, heard, worn>>

Server ==
  Wait \/ Accept \/ BeginRead \/ CallJunk \/ ReadText \/ ReadNewline \/ ReadEnd

Next ==
  \/ Server
  \/ \E c \in Clients : Connect(c) \/ SendText(c) \/ SendNewline(c) \/ Close(c)

(* The server goes on, and so does a client that is in send().             *)
Fairness == WF_vars(Server) /\ \A c \in Clients : WF_vars(SendNewline(c))

Spec == Init /\ [][Next]_vars /\ Fairness
-------------------------------------------------------------------------------
TypeOK ==
  /\ table.slots \in Seq(Slot) /\ table.fd_array_size \in 0..Len(table.slots)
  /\ table.nfds \in Nat /\ table.maxfd \in Fds \cup {-1, 0}
  /\ table.fdsets \in [Events -> SUBSET Fds] /\ fdtmp \in [Events -> SUBSET Fds]
  /\ i \in Nat
  /\ backlog \in Seq(Clients)
  /\ conn \in [Fds -> Clients \cup {None}]
  /\ stream \in [Clients -> Seq({Newline} \cup Text)]
  /\ client \in [Clients -> {"out", "in", "sending", "closed"}]
  /\ sent \in [Clients -> Nat]
  /\ heard \in [Clients -> Seq(Seq(Text))]
  /\ pc \in {"loop", "read", "dead"} /\ buf \in Seq(Text) /\ worn \in BOOLEAN

(* The callback gets each client's messages whole, once and in their       *)
(* order, whichever descriptors and slots the clients have had and however *)
(* they end: server_cb() (Sipc.cpp:129-171) reads one message per call and *)
(* takes what it read before the end of a connection for none.             *)
MessagesWhole ==
  \A c \in Clients :
    /\ Len(heard[c]) <= sent[c]
    /\ \A n \in DOMAIN heard[c] : heard[c][n] = <<n>>

(* select() is given, and server_cb() called with, open descriptors only,  *)
(* though callbacks close them and shift the slots under the loop, and     *)
(* numbers are used again (Listener.cpp:126-141): a closed one would make  *)
(* select() fail for all.                                                  *)
ServesOpen ==
  /\ \A e \in Events : table.fdsets[e] \subseteq Open \cup {ServerFd}
  /\ pc = "read" => Here.fd \in Open
  /\ pc = "loop" /\ Calls(server_cb) => Here.fd \in Open \cup {ServerFd}

(* As long as nothing was added after a removal, each connection has one   *)
(* slot and select() looks at it (listener_add_fd(), Listener.cpp:42-74).  *)
SlotOfEach ==
  ~worn => \A f \in Open :
    /\ Cardinality({k \in 1..table.fd_array_size : table.slots[k].fd = f}) = 1
    /\ f \in table.fdsets["read"] /\ f <= table.maxfd

(* Then each message that was sent arrives, also of clients that left, and *)
(* clients that stop in the middle of a message or come and go stop nobody *)
(* else.                                                                   *)
MessagesArrive ==
  \A c \in Clients : \A n \in 1..MaxSends[c] :
    sent[c] >= n ~> Len(heard[c]) >= n \/ worn

(* "Whem descriptor becomes ready, a cb callback will be called" (Listener.*)
(* h:40): without a word of removals.                                      *)
Heard ==
  \A c \in Clients : \A n \in 1..MaxSends[c] :
    sent[c] >= n ~> Len(heard[c]) >= n \/ pc = "dead"
===============================================================================
