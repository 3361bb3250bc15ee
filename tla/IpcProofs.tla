------------------------------- MODULE IpcProofs -------------------------------
(***************************************************************************)
(* What clients find under the name of a server, for any servers, names    *)
(* and sockets; and what a server with a name makes of any number of       *)
(* clients that connect, send messages and go away: the listener's table,  *)
(* the walk of listener_wait() and the words that server_cb() reads.       *)
(***************************************************************************)
EXTENDS Ipc, DataTheorems

(* No socket is two servers', also of those that have crashed.             *)
SocketsDiffer ==
  /\ \A s \in Servers : priv[s].fd <= bound
  /\ \A s, t \in Servers : s # t /\ priv[s].fd = priv[t].fd => priv[s].fd = 0

(* request_name() between bind() and listen(): the file leads to the       *)
(* socket, unless it was unlinked.  Nobody is told while it runs.          *)
CallsKnow ==
  \A s \in up : call[s] # NoCall =>
    /\ told[s] = NoPrefix
    /\ call[s].prefix \in Prefixes
    /\ call[s].step = "listen" =>
         /\ priv[s].fd # 0
         /\ call[s].prefix \in ruined \/ file[call[s].prefix] = priv[s].fd

NamesInv == NamesTypeOK /\ SocketsDiffer /\ CallsKnow /\ HolderServes

-----------------------------------------------------------------------------
LEMMA NamesInitially == NamesInit => NamesInv
BY NamesAssumption
   DEF NamesInit, NamesInv, NamesTypeOK, SocketsDiffer, CallsKnow, HolderServes,
       NoPriv, NoCall

(* Deleting the private data of t: other servers lose nothing that is not  *)
(* recorded in ruined, whatever the process makes of freed memory.         *)
LEMMA DeletedSpares ==
  ASSUME NamesInv, NEW t \in up, Deleted(t)
  PROVE  /\ file' \in [Prefixes -> 0..MaxSockets] /\ ruined' \in SUBSET Prefixes
         /\ listening' \in SUBSET listening /\ up' \in SUBSET up
         /\ ruined \subseteq ruined'
         /\ \A s \in Servers \ {t} : priv[s].fd \in listening => priv[s].fd \in listening'
         /\ \A s \in Servers \ {t}, p \in Prefixes :
              file[p] = priv[s].fd /\ priv[s].fd # 0 =>
                p \in ruined' \/ file'[p] = priv[s].fd
<1> USE DEF NamesInv, NamesTypeOK
<1>1. ASSUME Unlinked(t)
      PROVE  /\ file' \in [Prefixes -> 0..MaxSockets] /\ ruined' \in SUBSET Prefixes
             /\ ruined \subseteq ruined'
             /\ \A s \in Servers \ {t}, p \in Prefixes :
                  file[p] = priv[s].fd /\ priv[s].fd # 0 =>
                    p \in ruined' \/ file'[p] = priv[s].fd
  BY <1>1, NamesAssumption DEF Unlinked, SocketsDiffer
<1>2. CASE priv[t].state = "live"
  <2>1. Unlinked(t) /\ listening' = listening \ {priv[t].fd} /\ up' = up
    BY <1>2 DEF Deleted
  <2> QED
    BY <1>1, <2>1 DEF SocketsDiffer
<1>3. CASE priv[t].state = "freed"
  BY <1>1, <1>3 DEF Deleted
<1>4. CASE priv[t].state = "null"
  BY <1>4 DEF Deleted
<1> QED
  BY <1>2, <1>3, <1>4

LEMMA RequestKeeps ==
  ASSUME NamesInv, NEW t \in Servers, NEW q \in Prefixes, Request(t, q)
  PROVE  NamesInv'
<1> USE DEF NamesInv, NamesTypeOK
<1>1. t \in up /\ Deleted(t)
  BY DEF Request
<1>2. NamesTypeOK'
  BY SMTT(20), <1>1, DeletedSpares DEF Request
<1>3. \A s \in Servers : priv'[s].fd = priv[s].fd
  BY DEF Request
<1>4. SocketsDiffer'
  BY <1>3 DEF Request, SocketsDiffer
<1>5. CallsKnow'
  BY <1>1, <1>3, DeletedSpares DEF Request, CallsKnow, NoCall
<1>6. HolderServes'
  BY <1>1, <1>3, DeletedSpares DEF Request, HolderServes
<1> QED
  BY <1>2, <1>4, <1>5, <1>6

LEMMA DestroyKeeps ==
  ASSUME NamesInv, NEW t \in Servers, Destroy(t)
  PROVE  NamesInv'
<1> USE DEF NamesInv, NamesTypeOK
<1>1. t \in up /\ Deleted(t)
  BY DEF Destroy
<1>0. /\ file' \in [Prefixes -> 0..MaxSockets] /\ ruined' \in SUBSET Prefixes
      /\ listening' \in SUBSET listening /\ up' \in SUBSET up
  BY <1>1, DeletedSpares
<1>2. NamesTypeOK'
  <2>1. NoPriv \in [state : {"null", "live", "freed"},
                    prefix : Prefixes \cup {NoPrefix}, fd : 0..MaxSockets]
    BY NamesAssumption DEF NoPriv
  <2> QED
    BY <1>0, <2>1 DEF Destroy
<1>3. \A s \in Servers : priv'[s].fd = IF s = t THEN 0 ELSE priv[s].fd
  BY DEF Destroy, NoPriv
<1>4. SocketsDiffer'
  BY <1>3 DEF Destroy, SocketsDiffer
<1>5. CallsKnow'
  BY <1>1, <1>3, DeletedSpares DEF Destroy, CallsKnow, NoCall
<1>6. HolderServes'
  BY <1>1, <1>3, DeletedSpares DEF Destroy, HolderServes
<1> QED
  BY <1>2, <1>4, <1>5, <1>6

LEMMA BindKeeps ==
  ASSUME NamesInv, NEW t \in Servers, Bind(t)
  PROVE  NamesInv'
<1> USE DEF NamesInv, NamesTypeOK
<1> DEFINE p == call[t].prefix
<1>1. t \in up /\ call[t].step = "bind" /\ call[t] # NoCall /\ p \in Prefixes
  BY DEF Bind, NoCall, CallsKnow
<1>2. CASE file[p] # 0 /\ priv' = [priv EXCEPT ![t] = [state |-> "live", prefix |-> p, fd |-> 0]]
           /\ call' = [call EXCEPT ![t] = NoCall] /\ UNCHANGED <<file, bound>>
  <2>1. bound' = bound /\ file' = file /\ UNCHANGED <<listening, up, told, ruined>>
    BY <1>2 DEF Bind
  <2>2. NamesTypeOK'
    BY <1>1, <1>2, <2>1, NamesAssumption DEF NoCall
  <2>3. SocketsDiffer'
    BY <1>2, <2>1 DEF SocketsDiffer
  <2>4. CallsKnow'
    BY <1>2, <2>1 DEF CallsKnow, NoCall
  <2>5. HolderServes'
    BY <1>1, <1>2, <2>1 DEF CallsKnow, HolderServes
  <2> QED
    BY <2>2, <2>3, <2>4, <2>5
<1>3. CASE /\ file[p] = 0 /\ bound < MaxSockets
           /\ bound' = bound + 1
           /\ file' = [file EXCEPT ![p] = bound']
           /\ priv' = [priv EXCEPT ![t] = [state |-> "live", prefix |-> p, fd |-> bound']]
           /\ call' = [call EXCEPT ![t].step = "listen"]
  <2>1. bound' \in 1..MaxSockets /\ UNCHANGED <<listening, up, told, ruined>>
    BY <1>3, NamesAssumption DEF Bind
  <2>2. NamesTypeOK'
    BY <1>1, <1>3, <2>1
  <2>3. SocketsDiffer'
    BY <1>3, <2>1 DEF SocketsDiffer
  <2>4. CallsKnow'
    BY <1>1, <1>3, <2>1 DEF CallsKnow, NoCall
  <2>5. HolderServes'
    BY <1>1, <1>3, <2>1 DEF CallsKnow, HolderServes
  <2> QED
    BY <2>2, <2>3, <2>4, <2>5
<1> QED
  BY <1>2, <1>3 DEF Bind

LEMMA NamesStepKeeps == NamesInv /\ [NamesNext]_namesVars => NamesInv'
<1> SUFFICES ASSUME NamesInv, [NamesNext]_namesVars PROVE NamesInv'
  OBVIOUS
<1> USE DEF NamesInv, NamesTypeOK
<1>1. CASE UNCHANGED namesVars
  BY <1>1 DEF namesVars, SocketsDiffer, CallsKnow, HolderServes
<1>2. ASSUME NEW s \in Servers, CheckFile(s) PROVE NamesInv'
  <2>1. NamesTypeOK'
    BY <1>2 DEF CheckFile, NoCall
  <2>2. SocketsDiffer' /\ HolderServes'
    BY <1>2 DEF CheckFile, SocketsDiffer, HolderServes
  <2>3. CallsKnow'
    BY <1>2 DEF CheckFile, CallsKnow, NoCall
  <2> QED
    BY <2>1, <2>2, <2>3
<1>3. ASSUME NEW s \in Servers, Listen(s) PROVE NamesInv'
  <2>1. s \in up /\ call[s] # NoCall /\ call[s].step = "listen"
    BY <1>3 DEF Listen, NoCall
  <2>2. priv[s].fd \in 1..MaxSockets /\ call[s].prefix \in Prefixes
    BY <2>1 DEF CallsKnow
  <2>3. NamesTypeOK'
    BY <1>3, <2>2 DEF Listen, NoCall
  <2>4. SocketsDiffer'
    BY <1>3 DEF Listen, SocketsDiffer
  <2>5. CallsKnow'
    BY <1>3 DEF Listen, CallsKnow, NoCall
  <2>6. HolderServes'
    BY <1>3, <2>1 DEF Listen, CallsKnow, HolderServes
  <2> QED
    BY <2>3, <2>4, <2>5, <2>6
<1>4. ASSUME NEW s \in Servers, Crash(s) PROVE NamesInv'
  <2>1. NamesTypeOK' /\ SocketsDiffer' /\ CallsKnow'
    BY <1>4 DEF Crash, SocketsDiffer, CallsKnow
  <2>2. \A t \in Servers \ {s} : priv[t].fd \in listening => priv[t].fd # priv[s].fd
    BY DEF SocketsDiffer
  <2>3. HolderServes'
    BY <1>4, <2>2 DEF Crash, HolderServes
  <2> QED
    BY <2>1, <2>3
<1>5. ASSUME NEW s \in Servers, Restart(s) PROVE NamesInv'
  <2>1. NamesTypeOK'
    BY <1>5, NamesAssumption DEF Restart, NoPriv, NoCall
  <2>2. SocketsDiffer'
    BY <1>5 DEF Restart, NoPriv, SocketsDiffer
  <2>3. CallsKnow' /\ HolderServes'
    BY <1>5 DEF Restart, NoPriv, NoCall, CallsKnow, HolderServes
  <2> QED
    BY <2>1, <2>2, <2>3
<1> QED
  BY <1>1, <1>2, <1>3, <1>4, <1>5, RequestKeeps, DestroyKeeps, BindKeeps DEF NamesNext

(* A behaviour about messages leaves the names alone.                      *)
LEMMA IpcIsNames == IpcInit /\ [][IpcNext]_ipcVars => NamesSpec
<1>1. IpcInit => NamesInit
  BY DEF IpcInit
<1>2. [IpcNext]_ipcVars => [NamesNext]_namesVars
  BY DEF IpcNext, ipcVars, MessagesStep, NamesStep
<1> QED
  BY <1>1, <1>2, PTL DEF NamesSpec

(* A server that was told it has its name is found under it, however many  *)
(* servers contend, crash and start again (Sipc.cpp:174-243, Sipc.h:56).   *)
THEOREM HoldersServe == IpcSpec => []HolderServes
<1>1. NamesInit => NamesInv
  BY NamesInitially
<1>2. NamesInv /\ [NamesNext]_namesVars => NamesInv'
  BY NamesStepKeeps
<1>3. NamesInv => HolderServes
  BY DEF NamesInv
<1>4. IpcSpec => NamesSpec
  BY IpcIsNames, PTL DEF IpcSpec
<1> QED
  BY <1>1, <1>2, <1>3, <1>4, PTL DEF NamesSpec

-----------------------------------------------------------------------------
(* The listener's table, what removing and adding a descriptor makes of it. *)

Tables == [slots : Seq(Slot), fd_array_size : Nat, nfds : Nat, maxfd : Fds \cup {0, -1},
           fdsets : [Events -> SUBSET Fds]]

Slots(t) == 1..t.fd_array_size

Kept(t, fd, when) == {k \in Slots(t) : t.slots[k].fd = fd => ~(t.slots[k].events \subseteq when)}

Edited(t, fd, when) ==
  [k \in DOMAIN t.slots |->
     IF k \in Kept(t, fd, when) /\ t.slots[k].fd = fd
       THEN [t.slots[k] EXCEPT !.events = @ \ when] ELSE t.slots[k]]

LEMMA FdsAre == Cardinality(Clients) \in Nat /\ Fds = 1..(Cardinality(Clients) + 1)
BY SipcAssumption, FS_CardinalityType

LEMMA FdsAreFinite == IsFiniteSet(Fds) /\ ServerFd \in Fds /\ 0 \notin Fds
<1>1. Cardinality(Clients) + 1 \in Nat
  BY FdsAre
<1>2. IsFiniteSet(1..(Cardinality(Clients) + 1))
  BY <1>1, FS_Interval
<1> QED
  BY <1>2, FdsAre DEF ServerFd

LEMMA GreatestFd ==
  ASSUME NEW S \in SUBSET (Fds \cup {0, -1}), S # {}
  PROVE  Max(S) \in S /\ \A f \in S : f <= Max(S)
<1> DEFINE m == Cardinality(Clients) + 1
           U == {m - f : f \in S}
<1>1. m \in Nat /\ \A f \in S : f \in Int /\ m - f \in Nat
  BY FdsAre
<1> HIDE DEF m
<1>2. U \in SUBSET Nat /\ U # {}
  BY <1>1
<1>3. PICK u \in U : \A v \in U : u <= v
  BY <1>2, Smallest
<1>4. \E f \in S : \A g \in S : f >= g
  <2>1. PICK f \in S : u = m - f
    OBVIOUS
  <2>2. \A g \in S : m - f <= m - g
    BY <1>3, <2>1
  <2>3. \A g \in S : f >= g
    BY <1>1, <2>2
  <2> QED
    BY <2>3
<1>5. Max(S) \in S /\ \A g \in S : Max(S) >= g
  BY <1>4 DEF Max
<1> QED
  BY <1>1, <1>5

(* The slots that are looked at in r are those of "edited" at the places   *)
(* "kept", in their order.                                                 *)
KeepsOrder(r, edited, kept) ==
  \E at \in [Slots(r) -> kept] :
    /\ \A n \in Slots(r) : r.slots[n] = edited[at[n]]
    /\ \A m, n \in Slots(r) : m < n => at[m] < at[n]
    /\ \A k \in kept : \E n \in Slots(r) : at[n] = k
    /\ \A n \in Slots(r) : n <= at[n]

(* What is no longer looked at stays where it was.                         *)
StaysBeyond(r, edited, L) == \A k \in (r.fd_array_size + 1)..L : r.slots[k] = edited[k]

(* listener_remove_fd(): what is kept moves down in its order.             *)
LEMMA RemovedIs ==
  ASSUME NEW t \in Tables, t.fd_array_size <= Len(t.slots),
         NEW fd \in Fds, NEW when \in SUBSET Events
  PROVE  LET r == Removed(t, fd, when)
             kept == Kept(t, fd, when)
             edited == Edited(t, fd, when)
         IN
         /\ r \in Tables
         /\ Len(r.slots) = Len(t.slots) /\ r.fd_array_size <= t.fd_array_size
         /\ r.nfds = t.nfds /\ r.maxfd = MaxFd(t, kept)
         /\ r.fdsets = [e \in Events |-> t.fdsets[e] \ IF e \in when THEN {fd} ELSE {}]
         /\ r.fd_array_size = Cardinality(kept)
         /\ StaysBeyond(r, edited, Len(t.slots))
         /\ KeepsOrder(r, edited, kept)
<1> DEFINE r == Removed(t, fd, when)
           kept == Kept(t, fd, when)
           edited == Edited(t, fd, when)
           size == Cardinality(kept)
           L == Len(t.slots)
           low == AtPlaces(edited, kept)
           high == SubSeq(edited, size + 1, L)
<1>1. /\ t.slots \in Seq(Slot) /\ L \in Nat /\ t.fd_array_size \in Nat
      /\ DOMAIN t.slots = 1..L /\ Slots(t) \subseteq 1..L
      /\ t.fdsets \in [Events -> SUBSET Fds]
  BY DEF Tables, Slots
<1>2. \A k \in 1..L : t.slots[k] \in Slot
  BY <1>1
<1>3. ASSUME NEW k \in 1..L
      PROVE  /\ edited[k] = IF k \in kept /\ t.slots[k].fd = fd
                              THEN [t.slots[k] EXCEPT !.events = @ \ when] ELSE t.slots[k]
             /\ edited[k] \in Slot
  <2>1. edited[k] = IF k \in kept /\ t.slots[k].fd = fd
                      THEN [t.slots[k] EXCEPT !.events = @ \ when] ELSE t.slots[k]
    BY <1>1 DEF Edited
  <2>2. [t.slots[k] EXCEPT !.events = @ \ when] \in Slot
    BY <1>2 DEF Slot
  <2> QED
    BY <1>2, <2>1, <2>2
<1>4. edited \in Seq(Slot) /\ Len(edited) = L /\ DOMAIN edited = 1..L
  <2>1. DOMAIN edited = 1..L /\ edited = [k \in 1..L |-> edited[k]]
    BY <1>1 DEF Edited
  <2> HIDE DEF edited, L
  <2>2. edited \in [1..L -> Slot]
    BY <1>3, <2>1
  <2> QED
    BY <1>1, <2>2
<1>5. kept \subseteq DOMAIN edited /\ kept \subseteq Slots(t)
  BY <1>1, <1>4 DEF Kept
<1>6. r = [t EXCEPT !.slots = low \o high, !.fd_array_size = size, !.maxfd = MaxFd(t, kept),
             !.fdsets = [e \in Events |-> t.fdsets[e] \ IF e \in when THEN {fd} ELSE {}]]
  BY DEF Removed, Kept, Edited, Slots
<1> HIDE DEF r, kept, edited, size, L, low, high
<1>7. PICK at \in [1..size -> kept] :
        /\ \A n \in 1..size : low[n] = edited[at[n]]
        /\ \A m, n \in 1..size : m < n => at[m] < at[n]
        /\ \A k \in kept : \E n \in 1..size : at[n] = k
        /\ \A n \in 1..size : n <= at[n]
  BY SMTT(20), <1>4, <1>5, PlacesInOrder DEF low, size
<1>8. low \in Seq(Slot) /\ size \in Nat /\ Len(low) = size
  BY <1>4, <1>5, PlacesInOrder DEF low, size
<1>9. size <= t.fd_array_size
  <2> DEFINE n == t.fd_array_size
  <2>0. n \in Nat
    BY <1>1
  <2> HIDE DEF n
  <2>2. IsFiniteSet(1..n) /\ Cardinality(1..n) = n
    BY <2>0, FS_Interval
  <2>1. IsFiniteSet(Slots(t)) /\ Cardinality(Slots(t)) = t.fd_array_size
    BY <2>2 DEF Slots, n
  <2> QED
    BY <1>5, <2>1, FS_Subset DEF size
<1>10. /\ high \in Seq(Slot) /\ Len(high) = L - size
       /\ \A k \in 1..(L - size) : high[k] = edited[size + k]
  BY <1>1, <1>4, <1>8, <1>9 DEF high, L
<1>11. low \o high \in Seq(Slot) /\ Len(low \o high) = L
  <2>1. low \o high \in Seq(Slot) /\ Len(low \o high) = Len(low) + Len(high)
    BY <1>8, <1>10, Places
  <2> QED
    BY <1>1, <1>8, <1>10, <2>1
<1>12. \A n \in 1..size : (low \o high)[n] = low[n]
  BY <1>8, <1>10, Places
<1>13. \A k \in (size + 1)..L : (low \o high)[k] = edited[k]
  <2> TAKE k \in (size + 1)..L
  <2>1. k - size \in 1..(L - size) /\ size + (k - size) = k
    BY <1>1, <1>8
  <2>2. (low \o high)[Len(low) + (k - size)] = high[k - size]
    BY <1>8, <1>10, <2>1, Places
  <2> QED
    BY <1>8, <1>10, <2>1, <2>2
<1>14. MaxFd(t, kept) \in Fds \cup {0, -1}
  <2> DEFINE S == {-1} \cup {t.slots[k].fd : k \in kept}
  <2>1. \A k \in kept : t.slots[k].fd \in Fds \cup {0}
    BY <1>1, <1>2, <1>5 DEF Slot
  <2>2. S \in SUBSET (Fds \cup {0, -1}) /\ S # {}
    BY <2>1
  <2>3. Max(S) \in S
    BY <2>2, GreatestFd
  <2> QED
    BY <2>2, <2>3 DEF MaxFd
<1> DEFINE seq == low \o high
<1> HIDE DEF seq
<1>15. /\ r \in Tables /\ r.slots = seq /\ r.fd_array_size = size /\ r.nfds = t.nfds
       /\ r.maxfd = MaxFd(t, kept)
       /\ r.fdsets = [e \in Events |-> t.fdsets[e] \ IF e \in when THEN {fd} ELSE {}]
  <2>1. r = [t EXCEPT !.slots = seq, !.fd_array_size = size, !.maxfd = MaxFd(t, kept),
               !.fdsets = [e \in Events |-> t.fdsets[e] \ IF e \in when THEN {fd} ELSE {}]]
    BY <1>6 DEF seq
  <2>2. seq \in Seq(Slot)
    BY <1>11 DEF seq
  <2>3. [e \in Events |-> t.fdsets[e] \ IF e \in when THEN {fd} ELSE {}] \in [Events -> SUBSET Fds]
    BY <1>1
  <2> QED
    BY <1>8, <1>14, <2>1, <2>2, <2>3 DEF Tables
<1>16. Slots(r) = 1..size
  BY <1>15 DEF Slots
<1>17. \A n \in 1..size : r.slots[n] = edited[at[n]]
  BY <1>7, <1>12, <1>15 DEF seq
<1>18. StaysBeyond(r, edited, L)
  BY <1>13, <1>15 DEF seq, StaysBeyond
<1>19. Len(r.slots) = L
  BY <1>11, <1>15 DEF seq
<1>20. KeepsOrder(r, edited, kept)
  BY <1>7, <1>16, <1>17 DEF KeepsOrder
<1> QED
  BY <1>9, <1>15, <1>18, <1>19, <1>20 DEF size, L, r, kept, edited

(* A slot that is looked at after a removal is one that was looked at, at  *)
(* the same place or further on, and no longer waits for what was removed. *)
IsLeftOf(s, old, fd) ==
  /\ s.fd = old.fd /\ s.cb = old.cb /\ s.events \subseteq old.events
  /\ s.fd = fd => "read" \notin s.events

LEMMA RemovedMoves ==
  ASSUME NEW t \in Tables, t.fd_array_size <= Len(t.slots), NEW fd \in Fds
  PROVE  LET r == Removed(t, fd, Reading) IN
         /\ \A k \in Slots(r) : \E j \in Slots(t) :
              k <= j /\ IsLeftOf(r.slots[k], t.slots[j], fd)
         /\ \A k \in 1..Len(r.slots) : \E j \in 1..Len(t.slots) :
              k <= j /\ r.slots[k].fd = t.slots[j].fd /\ r.slots[k].cb = t.slots[j].cb
         /\ t.fd_array_size >= 1 /\ t.slots[1].fd # fd =>
              r.fd_array_size >= 1 /\ r.slots[1] = t.slots[1]
<1> DEFINE r == Removed(t, fd, Reading)
           kept == Kept(t, fd, Reading)
           edited == Edited(t, fd, Reading)
           L == Len(t.slots)
<1>0. Reading \in SUBSET Events
  BY SipcAssumption DEF Reading
<1>1. /\ t.slots \in Seq(Slot) /\ L \in Nat /\ t.fd_array_size \in Nat
      /\ DOMAIN t.slots = 1..L /\ Slots(t) = 1..t.fd_array_size /\ Slots(t) \subseteq 1..L
  BY DEF Tables, Slots
<1>2. \A k \in 1..L : t.slots[k] \in Slot
  BY <1>1
<1>3. kept \subseteq Slots(t)
  BY DEF Kept
<1>4. /\ r \in Tables /\ Len(r.slots) = L /\ r.fd_array_size <= t.fd_array_size
      /\ StaysBeyond(r, edited, L)
  <2>1. r \in Tables
    BY <1>0, RemovedIs
  <2>2. Len(r.slots) = L
    BY ZenonT(30), <1>0, RemovedIs
  <2>3. r.fd_array_size <= t.fd_array_size
    BY <1>0, RemovedIs
  <2>4. StaysBeyond(r, edited, L)
    BY <1>0, RemovedIs
  <2> QED
    BY <2>1, <2>2, <2>3, <2>4
<1>5. PICK at \in [Slots(r) -> kept] :
        /\ \A n \in Slots(r) : r.slots[n] = edited[at[n]]
        /\ \A k \in kept : \E n \in Slots(r) : at[n] = k
        /\ \A n \in Slots(r) : n <= at[n]
  BY <1>0, RemovedIs DEF KeepsOrder
<1>6. ASSUME NEW k \in 1..L
      PROVE  edited[k] = IF k \in kept /\ t.slots[k].fd = fd
                           THEN [t.slots[k] EXCEPT !.events = @ \ Reading] ELSE t.slots[k]
  BY <1>1 DEF Edited
<1>7. ASSUME NEW k \in 1..L
      PROVE  /\ edited[k].fd = t.slots[k].fd /\ edited[k].cb = t.slots[k].cb
             /\ k \in kept => IsLeftOf(edited[k], t.slots[k], fd)
  <2>1. t.slots[k] \in Slot
    BY <1>2
  <2> DEFINE old == t.slots[k]
             new == [old EXCEPT !.events = @ \ Reading]
  <2>2. new.fd = old.fd /\ new.cb = old.cb /\ new.events = old.events \ {"read"}
    BY <2>1 DEF Slot, Reading
  <2>3. edited[k] = IF k \in kept /\ old.fd = fd THEN new ELSE old
    BY <1>6
  <2> HIDE DEF old, new, edited, kept
  <2> QED
    BY <2>2, <2>3 DEF IsLeftOf, old
<1>8. r.fd_array_size \in Nat /\ Slots(r) = 1..r.fd_array_size
  BY <1>4 DEF Tables, Slots
<1> HIDE DEF r, kept, edited, L
<1>9. ASSUME NEW k \in Slots(r)
      PROVE  /\ at[k] \in kept /\ at[k] \in Slots(t) /\ at[k] \in 1..L /\ k <= at[k]
             /\ r.slots[k] = edited[at[k]]
             /\ IsLeftOf(r.slots[k], t.slots[at[k]], fd)
  BY <1>1, <1>3, <1>5, <1>7
<1>10. ASSUME NEW k \in 1..L
       PROVE  \E j \in 1..L :
                k <= j /\ r.slots[k].fd = t.slots[j].fd /\ r.slots[k].cb = t.slots[j].cb
  <2>1. CASE k \in Slots(r)
    BY <1>9, <2>1 DEF IsLeftOf
  <2>2. CASE k \notin Slots(r)
    <3>1. k \in (r.fd_array_size + 1)..L
      BY <1>1, <1>8, <2>2
    <3> QED
      BY <1>1, <1>4, <1>7, <3>1 DEF StaysBeyond
  <2> QED
    BY <2>1, <2>2
<1>11. ASSUME t.fd_array_size >= 1, t.slots[1].fd # fd
       PROVE  r.fd_array_size >= 1 /\ r.slots[1] = t.slots[1]
  <2>1. 1 \in Slots(t) /\ 1 \in 1..L
    BY <1>1, <1>11
  <2>2. 1 \in kept
    BY <1>11, <2>1 DEF kept, Kept
  <2>3. PICK n \in Slots(r) : at[n] = 1
    BY <1>5, <2>2
  <2>4. n = 1
    BY <1>8, <1>9, <2>3
  <2>5. edited[1] = t.slots[1]
    BY <1>6, <1>11, <2>1
  <2> QED
    BY <1>8, <1>9, <2>3, <2>4, <2>5
<1> QED
  BY <1>4, <1>9, <1>10, <1>11 DEF r, L

(* The table that a server with a name has: its own slot is the first, and *)
(* select() is given the descriptors "open" and its own.                   *)
ServerSlot == [fd |-> ServerFd, events |-> Reading, cb |-> server_cb]

SoundTable(t, open) ==
  /\ t \in Tables
  /\ t.fd_array_size >= 1 /\ t.fd_array_size <= Len(t.slots)
  /\ t.slots[1] = ServerSlot
  /\ \A k \in 2..Len(t.slots) : t.slots[k].fd = ServerFd => t.slots[k].cb = Junk
  /\ t.nfds >= 1
  /\ \A e \in Events : t.fdsets[e] \subseteq IF e = "read" THEN open \cup {ServerFd} ELSE {}

LEMMA RemovedSound ==
  ASSUME NEW open, NEW t, SoundTable(t, open), NEW fd \in Fds, fd # ServerFd
  PROVE  SoundTable(Removed(t, fd, Reading), open \ {fd})
<1> DEFINE r == Removed(t, fd, Reading)
<1>0. Reading \in SUBSET Events
  BY SipcAssumption DEF Reading
<1>1. t \in Tables /\ t.fd_array_size >= 1 /\ t.fd_array_size <= Len(t.slots)
  BY DEF SoundTable
<1>2. t.slots[1] = ServerSlot /\ t.slots[1].fd # fd
  BY DEF SoundTable, ServerSlot
<1>3. /\ r \in Tables /\ Len(r.slots) = Len(t.slots) /\ r.fd_array_size <= t.fd_array_size
      /\ r.nfds = t.nfds
      /\ r.fdsets = [e \in Events |-> t.fdsets[e] \ IF e \in Reading THEN {fd} ELSE {}]
  BY <1>0, <1>1, RemovedIs
<1>4. r.fd_array_size >= 1 /\ r.slots[1] = ServerSlot
  BY <1>1, <1>2, RemovedMoves
<1>5. \A k \in 1..Len(r.slots) : \E j \in 1..Len(t.slots) :
        k <= j /\ r.slots[k].fd = t.slots[j].fd /\ r.slots[k].cb = t.slots[j].cb
  BY <1>1, RemovedMoves
<1> HIDE DEF r
<1>6. /\ t.fd_array_size \in Nat /\ r.fd_array_size \in Nat /\ Len(t.slots) \in Nat
      /\ t.nfds \in Nat
  BY <1>1, <1>3 DEF Tables
<1>7. ASSUME NEW k \in 2..Len(r.slots), r.slots[k].fd = ServerFd
      PROVE  r.slots[k].cb = Junk
  <2>1. PICK j \in 1..Len(t.slots) :
          k <= j /\ r.slots[k].fd = t.slots[j].fd /\ r.slots[k].cb = t.slots[j].cb
    BY <1>3, <1>5, <1>6
  <2>2. j \in 2..Len(t.slots)
    BY <1>6, <2>1
  <2> QED
    BY <1>7, <2>1, <2>2 DEF SoundTable
<1>8. ASSUME NEW e \in Events
      PROVE  r.fdsets[e] \subseteq IF e = "read" THEN (open \ {fd}) \cup {ServerFd} ELSE {}
  <2>1. t.fdsets[e] \subseteq IF e = "read" THEN open \cup {ServerFd} ELSE {}
    BY DEF SoundTable
  <2> QED
    BY <1>3, <2>1 DEF Reading
<1>9. SoundTable(r, open \ {fd})
  BY <1>1, <1>3, <1>4, <1>6, <1>7, <1>8 DEF SoundTable
<1> QED
  BY <1>9 DEF r

(* Memory of another size holds what fits, then what looks like Junk.      *)
Begins(g, r) ==
  \A k \in 1..g.fd_array_size :
    IF k <= Len(r.slots) THEN g.slots[k] = r.slots[k]
    ELSE g.slots[k].cb = Junk /\ g.slots[k].fd \in Litter \cup {0}

LEMMA ResizedIs ==
  ASSUME NEW r \in Tables, NEW size \in Nat, size >= 1, NEW g \in Resized(r, size)
  PROVE  /\ g \in Tables /\ g.fd_array_size = size /\ Len(g.slots) = size
         /\ g.nfds = r.nfds /\ g.maxfd = r.maxfd /\ g.fdsets = r.fdsets
         /\ Begins(g, r)
<1>1. PICK new \in Fresh :
        g = [r EXCEPT !.fd_array_size = size,
                      !.slots = SubSeq(r.slots \o [k \in 1..size |-> new], 1, size)]
  BY DEF Resized
<1>2. new \in Slot /\ new.cb = Junk /\ new.fd \in Litter \cup {0}
  BY SipcAssumption DEF Fresh, Blank, Slot
<1> DEFINE more == [k \in 1..size |-> new]
           L == Len(r.slots)
           both == r.slots \o more
           fits == SubSeq(both, 1, size)
<1>3. r.slots \in Seq(Slot) /\ L \in Nat
  BY DEF Tables
<1>4. more \in Seq(Slot) /\ Len(more) = size /\ \A k \in 1..size : more[k] = new
  BY <1>2
<1> HIDE DEF more
<1>5. both \in Seq(Slot) /\ Len(both) = L + size
  <2>1. both \in Seq(Slot) /\ Len(both) = Len(r.slots) + Len(more)
    BY <1>3, <1>4, Places
  <2> QED
    BY <1>4, <2>1
<1>6. \A k \in 1..L : both[k] = r.slots[k]
  BY <1>3, <1>4, Places
<1>7. ASSUME NEW k \in 1..size, ~(k <= L) PROVE both[k] = new
  <2>1. k - L \in 1..size /\ L + (k - L) = k
    BY <1>3, <1>7
  <2>2. both[L + (k - L)] = more[k - L]
    BY <1>3, <1>4, <2>1, Places
  <2> QED
    BY <1>4, <2>1, <2>2
<1> HIDE DEF both, L
<1>8. fits \in Seq(Slot) /\ Len(fits) = size /\ \A k \in 1..size : fits[k] = both[k]
  <2>1. 1 \in 1..Len(both) /\ size \in 1..Len(both)
    BY <1>3, <1>5
  <2>2. fits \in Seq(Slot) /\ Len(fits) = size
    BY <1>3, <1>5, <2>1
  <2>3. \A k \in 1..size : fits[k] = both[k]
    BY <1>3, <1>5, <2>1
  <2> QED
    BY <2>2, <2>3
<1> HIDE DEF fits
<1>9. g = [r EXCEPT !.fd_array_size = size, !.slots = fits]
  BY <1>1 DEF more, both, fits
<1>10. /\ g \in Tables /\ g.fd_array_size = size /\ g.slots = fits
       /\ g.nfds = r.nfds /\ g.maxfd = r.maxfd /\ g.fdsets = r.fdsets
  BY <1>8, <1>9 DEF Tables
<1>11. Begins(g, r)
  BY <1>2, <1>3, <1>6, <1>7, <1>8, <1>10 DEF Begins, L
<1> QED
  BY <1>8, <1>10, <1>11

(* The new slot is number nfds, if the array reaches that far.             *)
PutInto(p, g, new) ==
  /\ Len(p.slots) = Len(g.slots)
  /\ \A k \in 1..Len(g.slots) : p.slots[k] = IF k = g.nfds + 1 THEN new ELSE g.slots[k]

LEMMA PutIs ==
  ASSUME NEW g \in Tables, NEW fd \in Fds
  PROVE  LET p == Put(g, fd, Reading, server_cb) IN
         /\ p \in Tables /\ p.fd_array_size = g.fd_array_size
         /\ PutInto(p, g, [fd |-> fd, events |-> Reading, cb |-> server_cb])
         /\ p.nfds = g.nfds + 1
         /\ p.maxfd >= fd /\ p.maxfd >= g.maxfd
         /\ p.fdsets = [e \in Events |-> g.fdsets[e] \cup IF e \in Reading THEN {fd} ELSE {}]
<1> DEFINE new == [fd |-> fd, events |-> Reading, cb |-> server_cb]
           put == [g.slots EXCEPT ![g.nfds + 1] = new]
           slots == IF g.nfds < Len(g.slots) THEN put ELSE g.slots
           maxfd == Max({g.maxfd, fd})
           fdsets == [e \in Events |-> g.fdsets[e] \cup IF e \in Reading THEN {fd} ELSE {}]
           p == Put(g, fd, Reading, server_cb)
           L == Len(g.slots)
<1>1. p = [g EXCEPT !.slots = slots, !.nfds = g.nfds + 1, !.maxfd = maxfd, !.fdsets = fdsets]
  BY DEF Put
<1>2. g.slots \in Seq(Slot) /\ L \in Nat /\ g.nfds \in Nat /\ g.maxfd \in Fds \cup {0, -1}
  BY DEF Tables
<1>3. new \in Slot
  BY SipcAssumption DEF Slot, Reading
<1>4. maxfd \in Fds \cup {0, -1} /\ maxfd >= fd /\ maxfd >= g.maxfd
  <2>1. {g.maxfd, fd} \in SUBSET (Fds \cup {0, -1}) /\ {g.maxfd, fd} # {}
    BY <1>2
  <2>2. maxfd \in {g.maxfd, fd} /\ \A f \in {g.maxfd, fd} : f <= maxfd
    BY <2>1, GreatestFd
  <2>3. fd \in Int /\ g.maxfd \in Int
    BY <1>2, FdsAre
  <2> HIDE DEF maxfd
  <2> QED
    BY <1>2, <2>2, <2>3
<1>5. fdsets \in [Events -> SUBSET Fds]
  BY DEF Tables
<1>6. /\ slots \in Seq(Slot) /\ Len(slots) = L
      /\ \A k \in 1..L : slots[k] = IF k = g.nfds + 1 THEN new ELSE g.slots[k]
  BY <1>2, <1>3
<1> HIDE DEF slots, maxfd, fdsets, p, new
<1>7. /\ p \in Tables /\ p.fd_array_size = g.fd_array_size /\ p.slots = slots
      /\ p.nfds = g.nfds + 1 /\ p.maxfd = maxfd /\ p.fdsets = fdsets
  <2>1. slots \in Seq(Slot) /\ g.nfds + 1 \in Nat /\ maxfd \in Fds \cup {0, -1}
    BY <1>2, <1>4, <1>6
  <2> QED
    BY <1>1, <1>5, <2>1 DEF Tables
<1>8. PutInto(p, g, new)
  BY <1>6, <1>7 DEF PutInto
<1> QED
  BY <1>4, <1>7, <1>8 DEF p, fdsets, new

(* listener_add_fd(), for a descriptor that select() has not: the slots of *)
(* the server and of the others stay what they are.                        *)
LEMMA GrownSound ==
  ASSUME NEW open, NEW r, SoundTable(r, open), NEW g \in Grown(r)
  PROVE  SoundTable(g, open)
<1>1. CASE g = r
  BY <1>1
<1>2. CASE g \in Resized(r, 2 * r.fd_array_size + 1)
  <2> DEFINE size == 2 * r.fd_array_size + 1
  <2>1. r \in Tables /\ r.fd_array_size \in Nat /\ Len(r.slots) \in Nat
    BY DEF SoundTable, Tables
  <2>2. size \in Nat /\ size >= 1
    BY <2>1
  <2> HIDE DEF size
  <2>3. g \in Resized(r, size)
    BY <1>2 DEF size
  <2>4. /\ g \in Tables /\ g.fd_array_size = size /\ Len(g.slots) = size
        /\ g.nfds = r.nfds /\ g.fdsets = r.fdsets /\ Begins(g, r)
    BY <2>1, <2>2, <2>3, ResizedIs
  <2>5. \A k \in 1..size :
          IF k <= Len(r.slots) THEN g.slots[k] = r.slots[k] ELSE g.slots[k].cb = Junk
    BY <2>4 DEF Begins
  <2>6. 1 <= Len(r.slots) /\ r.slots[1] = ServerSlot
    BY <2>1 DEF SoundTable
  <2>7. g.slots[1] = ServerSlot
    BY <2>2, <2>5, <2>6
  <2>8. ASSUME NEW k \in 2..Len(g.slots), g.slots[k].fd = ServerFd PROVE g.slots[k].cb = Junk
    <3>1. k \in 1..size /\ (k <= Len(r.slots) => k \in 2..Len(r.slots))
      BY <2>1, <2>2, <2>4
    <3>2. \A j \in 2..Len(r.slots) : r.slots[j].fd = ServerFd => r.slots[j].cb = Junk
      BY DEF SoundTable
    <3> QED
      BY <2>5, <2>8, <3>1, <3>2
  <2> QED
    BY <2>2, <2>4, <2>7, <2>8 DEF SoundTable
<1> QED
  BY <1>1, <1>2 DEF Grown

LEMMA PutSound ==
  ASSUME NEW open, NEW g, SoundTable(g, open), NEW fd \in Fds, fd # ServerFd
  PROVE  SoundTable(Put(g, fd, Reading, server_cb), open \cup {fd})
<1> DEFINE p == Put(g, fd, Reading, server_cb)
           new == [fd |-> fd, events |-> Reading, cb |-> server_cb]
<1>1. /\ g \in Tables /\ g.fd_array_size \in Nat /\ Len(g.slots) \in Nat
      /\ g.nfds \in Nat /\ g.nfds >= 1
      /\ g.fd_array_size >= 1 /\ g.fd_array_size <= Len(g.slots) /\ g.slots[1] = ServerSlot
  BY DEF SoundTable, Tables
<1>2. /\ p \in Tables /\ p.fd_array_size = g.fd_array_size /\ PutInto(p, g, new)
      /\ p.nfds = g.nfds + 1
      /\ p.fdsets = [e \in Events |-> g.fdsets[e] \cup IF e \in Reading THEN {fd} ELSE {}]
  BY <1>1, PutIs
<1>3. new.fd = fd
  OBVIOUS
<1> HIDE DEF p, new
<1>4. /\ Len(p.slots) = Len(g.slots)
      /\ \A k \in 1..Len(g.slots) : p.slots[k] = IF k = g.nfds + 1 THEN new ELSE g.slots[k]
  BY <1>2 DEF PutInto
<1>5. p.slots[1] = ServerSlot
  BY <1>1, <1>4
<1>6. ASSUME NEW k \in 2..Len(p.slots), p.slots[k].fd = ServerFd PROVE p.slots[k].cb = Junk
  <2>1. k \in 1..Len(g.slots) /\ k \in 2..Len(g.slots)
    BY <1>1, <1>4
  <2>2. \A j \in 2..Len(g.slots) : g.slots[j].fd = ServerFd => g.slots[j].cb = Junk
    BY DEF SoundTable
  <2> QED
    BY <1>3, <1>4, <1>6, <2>1, <2>2
<1>7. ASSUME NEW e \in Events
      PROVE  p.fdsets[e] \subseteq IF e = "read" THEN (open \cup {fd}) \cup {ServerFd} ELSE {}
  <2>1. g.fdsets[e] \subseteq IF e = "read" THEN open \cup {ServerFd} ELSE {}
    BY DEF SoundTable
  <2> QED
    BY <1>2, <2>1 DEF Reading
<1>8. p.nfds >= 1
  BY <1>1, <1>2
<1>9. SoundTable(p, open \cup {fd})
  BY <1>1, <1>2, <1>4, <1>5, <1>6, <1>7, <1>8 DEF SoundTable
<1> QED
  BY <1>9 DEF p

LEMMA AddedSound ==
  ASSUME NEW open, NEW t, SoundTable(t, open), NEW fd \in Fds, fd # ServerFd,
         NEW p \in Added(t, fd, Reading, server_cb)
  PROVE  SoundTable(p, open \cup {fd})
<1> DEFINE r == Removed(t, fd, Reading)
<1>1. SoundTable(r, open \ {fd})
  BY RemovedSound
<1>2. PICK g \in Grown(r) : p = Put(g, fd, Reading, server_cb)
  BY DEF Added
<1> HIDE DEF r
<1>3. SoundTable(g, open \ {fd})
  BY <1>1, GrownSound
<1>4. SoundTable(p, (open \ {fd}) \cup {fd})
  BY <1>2, <1>3, PutSound
<1>5. (open \ {fd}) \cup {fd} = open \cup {fd}
  OBVIOUS
<1> QED
  BY <1>4, <1>5

-----------------------------------------------------------------------------
(* The table as long as nothing was added after a removal.                 *)

(* Each open descriptor has one slot, and nothing else has any.            *)
Roster(t, open) ==
  /\ \A k \in Slots(t) :
       /\ t.slots[k].fd \in open \cup {0, ServerFd}
       /\ t.slots[k].fd # 0 => t.slots[k].events = Reading
  /\ \A f \in open \cup {ServerFd} : \E k \in Slots(t) : t.slots[k].fd = f
  /\ \A j, k \in Slots(t) :
       t.slots[j].fd = t.slots[k].fd /\ t.slots[j].fd # 0 => j = k
  /\ open \cup {ServerFd} \subseteq t.fdsets["read"]
  /\ \A f \in open : f <= t.maxfd

(* nfds counts the slots that are taken, until one of them is given back.  *)
Counted(t, open) ==
  /\ t.nfds >= Cardinality(open) + 1
  /\ t.nfds = Cardinality(open) + 1 =>
       /\ t.nfds <= t.fd_array_size /\ t.fd_array_size = Len(t.slots)
       /\ \A k \in Slots(t) : k > t.nfds => t.slots[k].fd = 0

(* The slots of r are those of t, in their order, without the ones of fd.  *)
LosesOnly(r, t, fd) ==
  \E at \in [Slots(r) -> Slots(t)] :
    /\ \A n \in Slots(r) : r.slots[n] = t.slots[at[n]] /\ r.slots[n].fd # fd /\ n <= at[n]
    /\ \A m, n \in Slots(r) : at[m] = at[n] => m = n
    /\ \A k \in Slots(t) : t.slots[k].fd # fd => \E n \in Slots(r) : at[n] = k

LEMMA RosterLoses ==
  ASSUME NEW open \in SUBSET Fds, NEW t \in Tables, t.fd_array_size <= Len(t.slots),
         Roster(t, open), NEW fd \in Fds, fd # ServerFd
  PROVE  LosesOnly(Removed(t, fd, Reading), t, fd)
<1> DEFINE r == Removed(t, fd, Reading)
           kept == Kept(t, fd, Reading)
           edited == Edited(t, fd, Reading)
           L == Len(t.slots)
<1>0. Reading \in SUBSET Events
  BY SipcAssumption DEF Reading
<1>1. /\ t.slots \in Seq(Slot) /\ L \in Nat /\ t.fd_array_size \in Nat
      /\ DOMAIN t.slots = 1..L /\ Slots(t) = 1..t.fd_array_size /\ Slots(t) \subseteq 1..L
  BY DEF Tables, Slots
<1>2. fd \in Nat /\ fd # 0
  BY FdsAre
<1>3. ASSUME NEW k \in Slots(t)
      PROVE  k \in kept <=> t.slots[k].fd # fd
  BY <1>2, <1>3 DEF Kept, Roster
<1>4. r \in Tables
  BY <1>0, RemovedIs
<1>5. PICK at \in [Slots(r) -> kept] :
        /\ \A n \in Slots(r) : r.slots[n] = edited[at[n]]
        /\ \A m, n \in Slots(r) : m < n => at[m] < at[n]
        /\ \A k \in kept : \E n \in Slots(r) : at[n] = k
        /\ \A n \in Slots(r) : n <= at[n]
  BY <1>0, RemovedIs DEF KeepsOrder
<1>6. \A k \in kept : k \in Slots(t) /\ edited[k] = t.slots[k] /\ t.slots[k].fd # fd
  BY <1>1, <1>3 DEF Kept, Edited
<1>7. Slots(r) \subseteq Nat /\ kept \subseteq Nat
  BY <1>1, <1>4 DEF Slots, Kept, Tables
<1> HIDE DEF r, kept, edited, L
<1>8. at \in [Slots(r) -> Slots(t)]
  BY <1>5, <1>6
<1>9. \A n \in Slots(r) : r.slots[n] = t.slots[at[n]] /\ r.slots[n].fd # fd /\ n <= at[n]
  BY <1>5, <1>6
<1>10. ASSUME NEW m \in Slots(r), NEW n \in Slots(r), at[m] = at[n] PROVE m = n
  <2>1. m \in Nat /\ n \in Nat /\ at[m] \in Nat /\ at[n] \in Nat
    BY <1>5, <1>7
  <2>2. ~(m < n) /\ ~(n < m)
    BY <1>5, <1>10, <2>1
  <2> QED
    BY <2>1, <2>2
<1>11. \A k \in Slots(t) : t.slots[k].fd # fd => \E n \in Slots(r) : at[n] = k
  BY <1>3, <1>5
<1>12. LosesOnly(r, t, fd)
  BY <1>8, <1>9, <1>10, <1>11 DEF LosesOnly
<1> QED
  BY <1>12 DEF r

LEMMA RemovedRoster ==
  ASSUME NEW open \in SUBSET Fds, NEW t \in Tables, t.fd_array_size <= Len(t.slots),
         Roster(t, open), NEW fd \in Fds, fd # ServerFd
  PROVE  Roster(Removed(t, fd, Reading), open \ {fd})
<1> DEFINE r == Removed(t, fd, Reading)
           kept == Kept(t, fd, Reading)
<1>0. Reading \in SUBSET Events
  BY SipcAssumption DEF Reading
<1>1. /\ r \in Tables /\ r.maxfd = MaxFd(t, kept)
      /\ r.fdsets = [e \in Events |-> t.fdsets[e] \ IF e \in Reading THEN {fd} ELSE {}]
  BY <1>0, RemovedIs
<1>2. LosesOnly(r, t, fd)
  BY RosterLoses
<1>3. PICK at \in [Slots(r) -> Slots(t)] :
        /\ \A n \in Slots(r) : r.slots[n] = t.slots[at[n]] /\ r.slots[n].fd # fd /\ n <= at[n]
        /\ \A m, n \in Slots(r) : at[m] = at[n] => m = n
        /\ \A k \in Slots(t) : t.slots[k].fd # fd => \E n \in Slots(r) : at[n] = k
  BY <1>2 DEF LosesOnly
<1> HIDE DEF r, kept
<1>4. ASSUME NEW k \in Slots(r)
      PROVE  /\ r.slots[k].fd \in (open \ {fd}) \cup {0, ServerFd}
             /\ r.slots[k].fd # 0 => r.slots[k].events = Reading
  BY <1>3 DEF Roster
<1>5. ASSUME NEW f \in (open \ {fd}) \cup {ServerFd}
      PROVE  \E k \in Slots(r) : r.slots[k].fd = f
  <2>1. f # fd
    OBVIOUS
  <2>2. PICK k \in Slots(t) : t.slots[k].fd = f
    BY DEF Roster
  <2>3. PICK n \in Slots(r) : at[n] = k
    BY <1>3, <2>1, <2>2
  <2> QED
    BY <1>3, <2>2, <2>3
<1>6. ASSUME NEW j \in Slots(r), NEW k \in Slots(r),
             r.slots[j].fd = r.slots[k].fd, r.slots[j].fd # 0
      PROVE  j = k
  <2>1. at[j] = at[k]
    BY <1>3, <1>6 DEF Roster
  <2> QED
    BY <1>3, <2>1
<1>7. (open \ {fd}) \cup {ServerFd} \subseteq r.fdsets["read"]
  BY <1>1, SipcAssumption DEF Roster, Reading
<1>8. ASSUME NEW f \in open \ {fd} PROVE f <= r.maxfd
  <2>1. PICK k \in Slots(t) : t.slots[k].fd = f
    BY DEF Roster
  <2>2. k \in kept
    BY <2>1 DEF kept, Kept
  <2> DEFINE S == {-1} \cup {t.slots[j].fd : j \in kept}
  <2>3. \A j \in kept : t.slots[j].fd \in Fds \cup {0}
    <3>1. ServerFd \in Fds
      BY FdsAreFinite
    <3>2. \A j \in kept : j \in Slots(t)
      BY DEF kept, Kept
    <3> QED
      BY <3>1, <3>2 DEF Roster
  <2>4. S \in SUBSET (Fds \cup {0, -1}) /\ S # {}
    BY <2>3
  <2>5. f \in S
    BY <2>1, <2>2
  <2>6. f <= Max(S)
    BY <2>4, <2>5, GreatestFd
  <2> QED
    BY <1>1, <2>6 DEF MaxFd
<1>9. Roster(r, open \ {fd})
  BY <1>4, <1>5, <1>6, <1>7, <1>8 DEF Roster
<1> QED
  BY <1>9 DEF r

LEMMA RemovedFields ==
  ASSUME NEW t \in Tables, t.fd_array_size <= Len(t.slots), NEW fd \in Fds
  PROVE  LET r == Removed(t, fd, Reading) IN
         /\ r \in Tables /\ Len(r.slots) = Len(t.slots) /\ r.nfds = t.nfds
         /\ r.fd_array_size = Cardinality(Kept(t, fd, Reading))
<1>0. Reading \in SUBSET Events
  BY SipcAssumption DEF Reading
<1>1. Removed(t, fd, Reading) \in Tables
  BY <1>0, RemovedIs
<1>2. Len(Removed(t, fd, Reading).slots) = Len(t.slots)
  BY ZenonT(30), <1>0, RemovedIs
<1>3. Removed(t, fd, Reading).nfds = t.nfds
  BY DEF Removed, Tables
<1>4. Removed(t, fd, Reading).fd_array_size = Cardinality(Kept(t, fd, Reading))
  BY ZenonT(30), <1>0, RemovedIs
<1> QED
  BY <1>1, <1>2, <1>3, <1>4

LEMMA RemovedCounted ==
  ASSUME NEW open \in SUBSET Fds, NEW t \in Tables, Counted(t, open), NEW fd \in open,
         t.fd_array_size <= Len(t.slots)
  PROVE  Counted(Removed(t, fd, Reading), open \ {fd})
<1>1. Removed(t, fd, Reading).nfds = t.nfds /\ t.nfds \in Nat
  <2>1. Removed(t, fd, Reading).nfds = t.nfds
    BY RemovedFields
  <2> QED
    BY <2>1 DEF Tables
<1>3. IsFiniteSet(open)
  BY FdsAreFinite, FS_Subset
<1>4. /\ Cardinality(open \ {fd}) = Cardinality(open) - 1 /\ Cardinality(open) \in Nat
  BY <1>3, FS_RemoveElement, FS_CardinalityType
<1> QED
  BY <1>1, <1>4 DEF Counted

(* A new descriptor gets the first slot that was never taken.              *)
LEMMA AddedRoster ==
  ASSUME NEW open \in SUBSET Fds, NEW t, SoundTable(t, open),
         Roster(t, open), Counted(t, open), t.nfds = Cardinality(open) + 1,
         NEW fd \in Fds, fd # ServerFd, fd \notin open,
         NEW p \in Added(t, fd, Reading, server_cb), ~Littered(p)
  PROVE  Roster(p, open \cup {fd}) /\ Counted(p, open \cup {fd})
<1> DEFINE r == Removed(t, fd, Reading)
           n == t.nfds
<1>1. /\ t \in Tables /\ t.fd_array_size <= Len(t.slots) /\ n \in Nat /\ n >= 1
      /\ t.fd_array_size \in Nat /\ n <= t.fd_array_size /\ t.fd_array_size = Len(t.slots)
      /\ \A k \in Slots(t) : k > n => t.slots[k].fd = 0
  BY DEF SoundTable, Tables, Counted
<1>2. PICK g \in Grown(r) : p = Put(g, fd, Reading, server_cb)
  BY DEF Added
<1>3. r \in Tables /\ Len(r.slots) = Len(t.slots) /\ r.nfds = n
  BY <1>1, RemovedFields
<1>4. Roster(r, open) /\ LosesOnly(r, t, fd)
  <2>1. open \ {fd} = open
    OBVIOUS
  <2> QED
    BY <1>1, <2>1, RemovedRoster, RosterLoses
<1>5. r.fd_array_size = t.fd_array_size
  <2>1. r.fd_array_size = Cardinality(Kept(t, fd, Reading))
    BY <1>1, RemovedFields
  <2>2. \A k \in Slots(t) : t.slots[k].fd # fd
    <3>1. fd # 0
      BY FdsAre
    <3> QED
      BY <3>1 DEF Roster
  <2>3. Kept(t, fd, Reading) = Slots(t)
    BY <2>2 DEF Kept
  <2>4. Cardinality(1..t.fd_array_size) = t.fd_array_size
    BY SMTT(20), <1>1, FS_Interval
  <2> QED
    BY <2>1, <2>3, <2>4 DEF Slots
<1> HIDE DEF r, n
<1>6. \A k \in Slots(r) : k > n => r.slots[k].fd = 0
  <2>1. PICK at \in [Slots(r) -> Slots(t)] :
          \A k \in Slots(r) : r.slots[k] = t.slots[at[k]] /\ k <= at[k]
    BY <1>4 DEF LosesOnly
  <2>2. ASSUME NEW k \in Slots(r), k > n PROVE at[k] > n
    <3>1. k \in Nat /\ at[k] \in Nat /\ k <= at[k]
      BY <1>1, <1>3, <1>5, <2>1 DEF Slots
    <3> QED
      BY <1>1, <2>2, <3>1
  <2> QED
    BY <1>1, <2>1, <2>2
(* The memory is large enough, and what is new in it is blank, but for the *)
(* slot that is filled.                                                    *)
<1>7. /\ g \in Tables /\ g.fd_array_size = Len(g.slots) /\ n < Len(g.slots)
      /\ t.fd_array_size <= Len(g.slots) /\ g.nfds = n
      /\ g.maxfd = r.maxfd /\ g.fdsets = r.fdsets /\ Begins(g, r)
  <2>1. CASE r.nfds < r.fd_array_size
    <3>1. g = r
      BY <1>1, <1>3, <1>5, <2>1 DEF Grown
    <3>2. Begins(g, r)
      BY <1>1, <1>3, <1>5, <3>1 DEF Begins
    <3> QED
      BY <1>1, <1>3, <1>5, <2>1, <3>1, <3>2
  <2>2. CASE r.nfds >= r.fd_array_size
    <3> DEFINE size == 2 * r.fd_array_size + 1
    <3>1. size \in Nat /\ size >= 1 /\ n < size /\ t.fd_array_size <= size
      BY <1>1, <1>5
    <3>2. g \in Resized(r, size)
      BY <2>2 DEF Grown
    <3> HIDE DEF size
    <3>3. /\ g \in Tables /\ g.fd_array_size = size /\ Len(g.slots) = size
          /\ g.nfds = r.nfds /\ g.maxfd = r.maxfd /\ g.fdsets = r.fdsets /\ Begins(g, r)
      BY <1>3, <3>1, <3>2, ResizedIs
    <3> QED
      BY <1>3, <3>1, <3>3
  <2> QED
    BY <1>1, <1>3, <1>5, <2>1, <2>2
<1> DEFINE new == [fd |-> fd, events |-> Reading, cb |-> server_cb]
<1>8. /\ p \in Tables /\ p.fd_array_size = g.fd_array_size /\ PutInto(p, g, new)
      /\ p.nfds = n + 1 /\ p.maxfd >= fd /\ p.maxfd >= g.maxfd
      /\ p.fdsets = [e \in Events |-> g.fdsets[e] \cup IF e \in Reading THEN {fd} ELSE {}]
  BY <1>2, <1>7, PutIs
<1>9. new.fd = fd /\ new.events = Reading
  OBVIOUS
<1> HIDE DEF new
<1> DEFINE L == Len(g.slots)
<1>10. L \in Nat /\ Slots(p) = 1..L /\ Slots(g) = 1..L /\ Len(p.slots) = L /\ n + 1 \in 1..L
       /\ Slots(r) = 1..t.fd_array_size /\ Slots(r) \subseteq 1..L
  <2>1. L \in Nat
    BY <1>7 DEF Tables
  <2> QED
    BY <1>1, <1>5, <1>7, <1>8, <2>1 DEF Slots, PutInto
<1>11. /\ p.slots[n + 1] = new
       /\ \A k \in 1..L : k # n + 1 => p.slots[k] = g.slots[k]
  BY <1>7, <1>8, <1>10 DEF PutInto
<1>12. \A k \in Slots(r) : g.slots[k] = r.slots[k]
  BY <1>1, <1>3, <1>7, <1>10 DEF Begins
<1>13. ASSUME NEW k \in 1..L, k \notin Slots(r), k # n + 1 PROVE p.slots[k].fd = 0
  <2>1. ~(k <= Len(r.slots))
    BY <1>1, <1>3, <1>10, <1>13
  <2>2. g.slots[k].cb = Junk
    BY <1>7, <1>13, <2>1 DEF Begins
  <2>3. p.slots[k].cb = Junk /\ k \in DOMAIN p.slots
    BY <1>8, <1>10, <1>11, <1>13, <2>2 DEF Tables
  <2> QED
    BY <2>3 DEF Littered
<1> HIDE DEF L
<1>14. ASSUME NEW k \in 1..L
       PROVE  /\ k = n + 1 => p.slots[k] = new
              /\ k # n + 1 /\ k \in Slots(r) => p.slots[k] = r.slots[k]
              /\ k # n + 1 /\ k \notin Slots(r) => p.slots[k].fd = 0
              /\ k > n /\ k # n + 1 => p.slots[k].fd = 0
  BY <1>6, <1>10, <1>11, <1>12, <1>13
<1>15. n + 1 \in Slots(r) => r.slots[n + 1].fd = 0
  BY <1>1, <1>6
<1>16. ASSUME NEW k \in Slots(p)
       PROVE  /\ p.slots[k].fd \in (open \cup {fd}) \cup {0, ServerFd}
              /\ p.slots[k].fd # 0 => p.slots[k].events = Reading
  <2>1. k \in 1..L
    BY <1>10
  <2>2. CASE k = n + 1
    BY <1>9, <1>14, <2>1, <2>2
  <2>3. CASE k # n + 1 /\ k \in Slots(r)
    BY <1>4, <1>14, <2>1, <2>3 DEF Roster
  <2>4. CASE k # n + 1 /\ k \notin Slots(r)
    BY <1>14, <2>1, <2>4
  <2> QED
    BY <2>2, <2>3, <2>4
<1>17. ASSUME NEW f \in (open \cup {fd}) \cup {ServerFd}
       PROVE  \E k \in Slots(p) : p.slots[k].fd = f
  <2>1. CASE f = fd
    BY <1>9, <1>10, <1>11, <2>1
  <2>2. CASE f # fd
    <3>1. PICK k \in Slots(r) : r.slots[k].fd = f
      BY <1>4, <2>2 DEF Roster
    <3>2. f # 0
      BY FdsAre DEF ServerFd
    <3>3. k # n + 1
      BY <1>15, <3>1, <3>2
    <3> QED
      BY <1>10, <1>14, <3>1, <3>3
  <2> QED
    BY <2>1, <2>2
<1>18. ASSUME NEW j \in Slots(p), NEW k \in Slots(p),
              p.slots[j].fd = p.slots[k].fd, p.slots[j].fd # 0
       PROVE  j = k
  <2>1. fd # ServerFd /\ \A m \in Slots(r) : r.slots[m].fd # fd
    <3>1. fd # 0
      BY FdsAre
    <3> QED
      BY <1>4, <3>1 DEF Roster
  <2>2. j \in 1..L /\ k \in 1..L
    BY <1>10
  <2>6. p.slots[k].fd # 0
    BY <1>18
  <2>7. ASSUME NEW m \in 1..L, p.slots[m].fd # 0, m # n + 1
        PROVE  m \in Slots(r) /\ p.slots[m] = r.slots[m]
    BY <1>14, <2>7
  <2>3. j # n + 1 => j \in Slots(r) /\ p.slots[j] = r.slots[j]
    BY <1>18, <2>2, <2>7
  <2>4. k # n + 1 => k \in Slots(r) /\ p.slots[k] = r.slots[k]
    BY <2>2, <2>6, <2>7
  <2>5. p.slots[n + 1].fd = fd
    BY <1>9, <1>11
  <2> QED
    BY <1>4, <1>18, <2>1, <2>3, <2>4, <2>5 DEF Roster
<1>19. (open \cup {fd}) \cup {ServerFd} \subseteq p.fdsets["read"]
  BY <1>4, <1>7, <1>8, SipcAssumption DEF Roster, Reading
<1>20. ASSUME NEW f \in open \cup {fd} PROVE f <= p.maxfd
  <2>1. \A x \in Fds \cup {0, -1} : x \in Int
    BY FdsAre
  <2>2. p.maxfd \in Int /\ r.maxfd \in Int /\ f \in Int /\ fd \in Int
    BY <1>3, <1>8, <2>1 DEF Tables
  <2>3. f \in open => f <= r.maxfd
    BY <1>4 DEF Roster
  <2> QED
    BY <1>7, <1>8, <2>2, <2>3
<1>21. Roster(p, open \cup {fd})
  BY <1>16, <1>17, <1>18, <1>19, <1>20 DEF Roster
<1>22. IsFiniteSet(open)
  BY FdsAreFinite, FS_Subset
<1>23. Cardinality(open \cup {fd}) = Cardinality(open) + 1 /\ Cardinality(open) \in Nat
  BY <1>22, FS_AddElement, FS_CardinalityType
<1>24. p.nfds = Cardinality(open \cup {fd}) + 1
  BY <1>8, <1>23 DEF n
<1>25. p.nfds <= p.fd_array_size /\ p.fd_array_size = Len(p.slots)
  BY <1>1, <1>7, <1>8, <1>10 DEF L
<1>26. \A k \in Slots(p) : k > p.nfds => p.slots[k].fd = 0
  BY <1>1, <1>8, <1>10, <1>14
<1>27. Counted(p, open \cup {fd})
  <2>1. p.nfds >= Cardinality(open \cup {fd}) + 1
    BY <1>23, <1>24
  <2> QED
    BY <1>25, <1>26, <2>1 DEF Counted
<1> QED
  BY <1>21, <1>27

-----------------------------------------------------------------------------
(* The inductive invariant, by parts.                                      *)

Waits(c)     == \E k \in DOMAIN backlog : backlog[k] = c
Connected(c) == \E f \in Fds : conn[f] = c

(* A client is in one place, and has one descriptor.                       *)
OnePlaceEach ==
  /\ conn[ServerFd] = None
  /\ \A f, g \in Open : conn[f] = conn[g] => f = g
  /\ \A k, l \in DOMAIN backlog : backlog[k] = backlog[l] => k = l
  /\ \A c \in Clients :
       /\ client[c] = "out" => ~Waits(c) /\ ~Connected(c)
       /\ ~(Waits(c) /\ Connected(c))

(* listener_wait() is at a slot that select() found ready.  What has been  *)
(* closed since is no longer waited for from there on.                     *)
PassGoesWell ==
  /\ \A e \in Events \ {"read"} : fdtmp[e] = {}
  /\ i # 0 =>
       /\ i \in Slots(table) /\ "read" \in Here.events /\ Here.fd \in fdtmp["read"]
       /\ \A f \in fdtmp["read"] \ (Open \cup {ServerFd}) : \A k \in Slots(table) :
            k >= i /\ table.slots[k].fd = f => "read" \notin table.slots[k].events
  /\ i = 1 => backlog # <<>> /\ fdtmp["read"] \subseteq Open \cup {ServerFd}
  /\ pc = "read" => i # 0 /\ Here.fd \in Open /\ Here.cb = server_cb

(* What the clients write is text and newline in turn.                     *)
IsToken(p, x) ==
  \/ 2 * x = p + 1
  \/ x = Newline /\ \E m \in 0..p : p = 2 * m

(* How much of it the server has read.                                     *)
Taken(c) ==
  2 * Len(heard[c]) + IF pc = "read" /\ conn[Here.fd] = c /\ buf # <<>> THEN 1 ELSE 0

WordsInOrder ==
  /\ \A c \in Clients :
       /\ \A n \in DOMAIN heard[c] : heard[c][n] = <<n>>
       /\ \A k \in DOMAIN stream[c] : IsToken(Taken(c) + k, stream[c][k])
       /\ client[c] = "out" => sent[c] = 0 /\ heard[c] = <<>> /\ stream[c] = <<>>
       /\ client[c] = "in" => Taken(c) + Len(stream[c]) = 2 * sent[c]
       /\ client[c] = "sending" => Taken(c) + Len(stream[c]) = 2 * sent[c] + 1
       /\ Taken(c) + Len(stream[c]) <= 2 * sent[c] + 1
  /\ pc = "read" => buf \in {<<>>, <<Len(heard[conn[Here.fd]]) + 1>>}

TableIsSound == SoundTable(table, Open)

EachHasASlot == ~worn => Roster(table, Open) /\ Counted(table, Open)

MessagesInv ==
  /\ TypeOK /\ OnePlaceEach /\ TableIsSound /\ PassGoesWell /\ WordsInOrder /\ EachHasASlot

LEMMA TakenIs ==
  ASSUME NEW c, Len(heard[c]) \in Nat
  PROVE  Taken(c) \in Nat /\ Taken(c) >= 2 * Len(heard[c])
<1>1. CASE pc = "read" /\ conn[Here.fd] = c /\ buf # <<>>
  <2>1. Taken(c) = 2 * Len(heard[c]) + 1
    BY <1>1 DEF Taken
  <2> QED
    BY <2>1
<1>2. CASE ~(pc = "read" /\ conn[Here.fd] = c /\ buf # <<>>)
  <2>1. Taken(c) = 2 * Len(heard[c]) + 0
    BY <1>2 DEF Taken
  <2> QED
    BY <2>1
<1> QED
  BY <1>1, <1>2

LEMMA FirstTable ==
  ASSUME NEW p \in Added(Empty, ServerFd, Reading, server_cb)
  PROVE  SoundTable(p, {}) /\ Roster(p, {}) /\ Counted(p, {})
<1> DEFINE r == Removed(Empty, ServerFd, Reading)
<1>0. ServerFd \in Fds /\ Reading \in SUBSET Events
  BY FdsAre, SipcAssumption DEF ServerFd, Reading
<1>1. /\ Empty \in Tables /\ Empty.fd_array_size = 0 /\ Len(Empty.slots) = 0
      /\ Empty.nfds = 0 /\ Empty.fdsets = NoSets
  <2>1. <<>> \in Seq(Slot) /\ Len(<<>>) = 0 /\ NoSets \in [Events -> SUBSET Fds]
    BY DEF NoSets
  <2> QED
    BY <2>1 DEF Empty, Tables
<1>2. r \in Tables /\ Len(r.slots) = 0 /\ r.nfds = 0 /\ r.fd_array_size = 0
  <2>1. Kept(Empty, ServerFd, Reading) = {}
    BY <1>1 DEF Kept, Slots
  <2>2. /\ r \in Tables /\ Len(r.slots) = Len(Empty.slots) /\ r.nfds = Empty.nfds
        /\ r.fd_array_size = Cardinality(Kept(Empty, ServerFd, Reading))
    BY <1>0, <1>1, RemovedFields
  <2> QED
    BY <1>1, <2>1, <2>2, FS_EmptySet
<1>3. \A e \in Events : r.fdsets[e] = {}
  <2>1. r.fdsets = [e \in Events |-> Empty.fdsets[e] \ IF e \in Reading THEN {ServerFd} ELSE {}]
    BY DEF Removed, Empty
  <2> QED
    BY <1>1, <2>1 DEF NoSets
<1>4. PICK g \in Grown(r) : p = Put(g, ServerFd, Reading, server_cb)
  BY DEF Added
<1> HIDE DEF r
<1>5. /\ g \in Tables /\ g.fd_array_size = 1 /\ Len(g.slots) = 1
      /\ g.nfds = 0 /\ g.fdsets = r.fdsets
  <2> DEFINE size == 2 * r.fd_array_size + 1
  <2>1. size = 1 /\ size \in Nat /\ size >= 1
    BY <1>2
  <2>2. g \in Resized(r, size)
    BY <1>2, <1>4 DEF Grown
  <2> HIDE DEF size
  <2>3. /\ g \in Tables /\ g.fd_array_size = size /\ Len(g.slots) = size
        /\ g.nfds = r.nfds /\ g.fdsets = r.fdsets
    BY <1>2, <2>1, <2>2, ResizedIs
  <2> QED
    BY <1>2, <2>1, <2>3
<1>6. /\ p \in Tables /\ p.fd_array_size = g.fd_array_size /\ PutInto(p, g, ServerSlot)
      /\ p.nfds = g.nfds + 1
      /\ p.fdsets = [e \in Events |-> g.fdsets[e] \cup IF e \in Reading THEN {ServerFd} ELSE {}]
  BY <1>0, <1>4, <1>5, PutIs DEF ServerSlot
<1>7. /\ p.fd_array_size = 1 /\ Len(p.slots) = 1 /\ p.nfds = 1 /\ p.slots[1] = ServerSlot
  BY <1>5, <1>6 DEF PutInto
<1>8. \A e \in Events : p.fdsets[e] = IF e = "read" THEN {ServerFd} ELSE {}
  BY <1>3, <1>5, <1>6 DEF Reading
<1>9. SoundTable(p, {})
  BY <1>6, <1>7, <1>8 DEF SoundTable
<1>10. Slots(p) = {1}
  BY <1>7 DEF Slots
<1>11. Roster(p, {})
  BY <1>7, <1>8, <1>10, SipcAssumption DEF Roster, ServerSlot
<1>12. Counted(p, {})
  BY <1>7, <1>10, FS_EmptySet DEF Counted
<1> QED
  BY <1>9, <1>11, <1>12

LEMMA MessagesInitially == Init => MessagesInv
<1> SUFFICES ASSUME Init PROVE MessagesInv
  OBVIOUS
<1>1. Open = {}
  BY DEF Init, Open
<1>2. SoundTable(table, {}) /\ Roster(table, {}) /\ Counted(table, {})
  BY FirstTable DEF Init
<1>3. TypeOK
  <2>1. /\ table.slots \in Seq(Slot) /\ table.fd_array_size \in 0..Len(table.slots)
        /\ table.nfds \in Nat /\ table.maxfd \in Fds \cup {-1, 0}
        /\ table.fdsets \in [Events -> SUBSET Fds]
    BY <1>2 DEF SoundTable, Tables
  <2>2. \A S : <<>> \in Seq(S)
    OBVIOUS
  <2> QED
    BY <2>1, <2>2 DEF Init, TypeOK, NoSets
<1>4. OnePlaceEach
  BY FdsAre, SipcAssumption DEF Init, OnePlaceEach, Open, Waits, Connected, ServerFd
<1>5. PassGoesWell
  BY DEF Init, PassGoesWell, NoSets
<1>6. WordsInOrder
  BY DEF Init, WordsInOrder, Taken
<1>7. TableIsSound /\ EachHasASlot
  BY <1>1, <1>2 DEF TableIsSound, EachHasASlot
<1> QED
  BY <1>3, <1>4, <1>5, <1>6, <1>7 DEF MessagesInv

-----------------------------------------------------------------------------
(* The steps of the clients, which leave the listener alone.               *)
LEMMA ConnectKeeps ==
  ASSUME MessagesInv, NEW c \in Clients, Connect(c)
  PROVE  MessagesInv'
<1> USE DEF MessagesInv
<1>1. /\ client[c] = "out" /\ client' = [client EXCEPT ![c] = "in"] /\ backlog' = Append(backlog, c)
      /\ UNCHANGED <<table, fdtmp, i, stream, sent, conn, heard, pc, buf, worn>>
  BY DEF Connect, listener, serverVars
<1>2. backlog \in Seq(Clients) /\ client \in [Clients -> {"out", "in", "sending", "closed"}]
  BY DEF TypeOK
<1>3. /\ backlog' \in Seq(Clients) /\ Len(backlog') = Len(backlog) + 1 /\ Len(backlog) \in Nat
      /\ DOMAIN backlog = 1..Len(backlog) /\ DOMAIN backlog' = 1..Len(backlog')
      /\ backlog'[Len(backlog) + 1] = c
      /\ \A k \in 1..Len(backlog) : backlog'[k] = backlog[k]
  BY <1>1, <1>2
<1>4. Open' = Open
  BY <1>1 DEF Open
<1>5. TypeOK'
  BY <1>1, <1>3 DEF TypeOK
<1>6. OnePlaceEach'
  <2> DEFINE n == Len(backlog) + 1
  <2>1. \A k \in DOMAIN backlog' : k # n => k \in DOMAIN backlog /\ backlog'[k] = backlog[k]
    BY <1>3
  <2>2. backlog'[n] = c
    BY <1>3
  <2>3. \A k \in DOMAIN backlog : backlog[k] # c
    BY <1>1 DEF OnePlaceEach, Waits
  <2> HIDE DEF n
  <2>4. \A k, l \in DOMAIN backlog' : backlog'[k] = backlog'[l] => k = l
    BY <2>1, <2>2, <2>3 DEF OnePlaceEach
  <2>5. \A d \in Clients : Waits(d)' <=> Waits(d) \/ d = c
    <3>1. DOMAIN backlog \subseteq DOMAIN backlog' /\ n \in DOMAIN backlog'
      BY <1>3 DEF n
    <3>2. \A k \in DOMAIN backlog : backlog'[k] = backlog[k]
      BY <1>3
    <3> QED
      BY <2>1, <2>2, <3>1, <3>2 DEF Waits
  <2>6. \A d \in Clients : Connected(d)' <=> Connected(d)
    BY <1>1 DEF Connected
  <2>7. \A d \in Clients : client'[d] = IF d = c THEN "in" ELSE client[d]
    BY <1>1, <1>2
  <2>8. \A d \in Clients : /\ client'[d] = "out" => ~Waits(d)' /\ ~Connected(d)'
                          /\ ~(Waits(d)' /\ Connected(d)')
    BY <1>1, <2>5, <2>6, <2>7 DEF OnePlaceEach
  <2> QED
    BY <1>1, <1>4, <2>4, <2>8 DEF OnePlaceEach
<1>7. TableIsSound' /\ EachHasASlot'
  BY <1>1, <1>4 DEF TableIsSound, EachHasASlot
<1>8. PassGoesWell'
  <2>1. backlog' # <<>>
    BY <1>3
  <2> QED
    BY <1>1, <1>4, <2>1 DEF PassGoesWell, Here
<1>9. WordsInOrder'
  <2>1. \A d \in Clients : client'[d] = IF d = c THEN "in" ELSE client[d]
    BY <1>1, <1>2
  <2>2. \A d \in Clients : Taken(d)' = Taken(d)
    BY <1>1 DEF Taken, Here
  <2>3. sent[c] = 0 /\ heard[c] = <<>> /\ stream[c] = <<>>
    BY <1>1 DEF WordsInOrder
  <2>4. Taken(c) + Len(stream[c]) = 2 * sent[c]
    <3>1. ~Connected(c)
      BY <1>1 DEF OnePlaceEach
    <3>2. ~(pc = "read" /\ conn[Here.fd] = c)
      BY <3>1 DEF PassGoesWell, Open, Connected
    <3> QED
      BY <2>3, <3>2 DEF Taken
  <2> QED
    BY <1>1, <2>1, <2>2, <2>4 DEF WordsInOrder, Here
<1> QED
  BY <1>5, <1>6, <1>7, <1>8, <1>9

(* What a client writes comes after what it wrote.                         *)
LEMMA WritesKeep ==
  ASSUME MessagesInv, NEW c \in Clients, NEW x \in {Newline} \cup Text, NEW now,
         UNCHANGED <<listener, backlog, serverVars>>,
         stream' = [stream EXCEPT ![c] = Append(@, x)],
         client' = [client EXCEPT ![c] = now], TypeOK',
         now = "in" \/ now = "sending",
         IsToken(Taken(c) + Len(stream[c]) + 1, x),
         Taken(c) + Len(stream[c]) + 1 = 2 * sent'[c] + IF now = "in" THEN 0 ELSE 1,
         client[c] # "out", \A d \in Clients \ {c} : sent'[d] = sent[d]
  PROVE  MessagesInv'
<1> USE DEF MessagesInv
<1>1. UNCHANGED <<table, fdtmp, i, backlog, conn, heard, pc, buf, worn>>
  BY DEF listener, serverVars
<1>2. /\ stream \in [Clients -> Seq({Newline} \cup Text)]
      /\ client \in [Clients -> {"out", "in", "sending", "closed"}]
      /\ heard \in [Clients -> Seq(Seq(Text))] /\ sent \in [Clients -> Nat]
      /\ sent' \in [Clients -> Nat]
  BY DEF TypeOK
<1>3. Open' = Open
  BY <1>1 DEF Open
<1>4. \A d \in Clients : client'[d] = IF d = c THEN now ELSE client[d]
  BY <1>2
<1>5. \A d \in Clients : Waits(d)' = Waits(d) /\ Connected(d)' = Connected(d)
  BY <1>1 DEF Waits, Connected
<1>6. OnePlaceEach'
  BY <1>1, <1>3, <1>4, <1>5 DEF OnePlaceEach
<1>7. TableIsSound' /\ EachHasASlot' /\ PassGoesWell'
  BY <1>1, <1>3 DEF TableIsSound, EachHasASlot, PassGoesWell, Here
<1>8. \A d \in Clients : Taken(d)' = Taken(d) /\ Taken(d) \in Nat
  BY <1>1, <1>2 DEF Taken, Here
<1>9. ASSUME NEW d \in Clients
      PROVE  /\ \A n \in DOMAIN heard'[d] : heard'[d][n] = <<n>>
             /\ \A k \in DOMAIN stream'[d] : IsToken(Taken(d)' + k, stream'[d][k])
             /\ client'[d] = "out" => sent'[d] = 0 /\ heard'[d] = <<>> /\ stream'[d] = <<>>
             /\ client'[d] = "in" => Taken(d)' + Len(stream'[d]) = 2 * sent'[d]
             /\ client'[d] = "sending" => Taken(d)' + Len(stream'[d]) = 2 * sent'[d] + 1
             /\ Taken(d)' + Len(stream'[d]) <= 2 * sent'[d] + 1
  <2>1. CASE d # c
    <3>1. stream'[d] = stream[d] /\ client'[d] = client[d] /\ sent'[d] = sent[d] /\ heard' = heard
      BY <1>1, <1>2, <1>4, <2>1
    <3> QED
      BY <1>8, <3>1 DEF WordsInOrder
  <2>2. CASE d = c
    <3> DEFINE n == Len(stream[c]) + 1
    <3>1. stream'[c] = Append(stream[c], x) /\ stream[c] \in Seq({Newline} \cup Text)
      BY <1>2
    <3>2. /\ n \in Nat /\ Len(stream'[c]) = n /\ stream'[c][n] = x
          /\ \A k \in DOMAIN stream'[c] :
               k # n => k \in DOMAIN stream[c] /\ stream'[c][k] = stream[c][k]
      BY <3>1
    <3>3. Taken(c) + n = Taken(c) + Len(stream[c]) + 1 /\ sent'[c] \in Nat
      BY <1>2, <1>8, <3>1
    <3> HIDE DEF n
    <3>4. \A k \in DOMAIN stream'[c] : IsToken(Taken(c) + k, stream'[c][k])
      BY <3>2, <3>3 DEF WordsInOrder
    <3>5. \A m \in DOMAIN heard'[c] : heard'[c][m] = <<m>>
      BY <1>1 DEF WordsInOrder
    <3>6. client'[c] = now
      BY <1>4
    <3>7. Taken(c) + n = 2 * sent'[c] + IF now = "in" THEN 0 ELSE 1
      BY <3>3
    <3> QED
      BY SMTT(20), <1>8, <2>2, <3>2, <3>3, <3>4, <3>5, <3>6, <3>7
  <2> QED
    BY <2>1, <2>2
<1>10. WordsInOrder'
  BY <1>1, <1>9 DEF WordsInOrder, Here
<1> QED
  BY <1>6, <1>7, <1>10

LEMMA SendTextKeeps ==
  ASSUME MessagesInv, NEW c \in Clients, SendText(c)
  PROVE  MessagesInv'
<1>1. /\ client[c] = "in" /\ sent[c] < MaxSends[c]
      /\ client' = [client EXCEPT ![c] = "sending"]
      /\ stream' = [stream EXCEPT ![c] = Append(@, sent[c] + 1)]
      /\ sent' = sent /\ UNCHANGED <<listener, backlog, serverVars>>
  BY DEF SendText
<1>2. TypeOK /\ sent[c] \in Nat /\ stream[c] \in Seq({Newline} \cup Text)
  BY DEF MessagesInv, TypeOK
<1>3. sent[c] + 1 \in Text
  <2>1. MaxSends[c] \in Nat
    BY SipcAssumption
  <2>2. sent[c] + 1 \in 1..MaxSends[c]
    BY <1>1, <1>2, <2>1
  <2> QED
    BY <2>2 DEF Text
<1>4. TypeOK'
  <2>1. Append(stream[c], sent[c] + 1) \in Seq({Newline} \cup Text)
    BY <1>2, <1>3
  <2> QED
    BY <1>1, <1>2, <2>1 DEF TypeOK, listener, serverVars
<1>5. Taken(c) + Len(stream[c]) = 2 * sent[c]
  BY <1>1 DEF MessagesInv, WordsInOrder
<1>6. IsToken(Taken(c) + Len(stream[c]) + 1, sent[c] + 1)
  BY <1>2, <1>5 DEF IsToken
<1>7. Taken(c) + Len(stream[c]) + 1 = 2 * sent'[c] + IF "sending" = "in" THEN 0 ELSE 1
  BY <1>1, <1>2, <1>5
<1> QED
  BY <1>1, <1>3, <1>4, <1>6, <1>7, WritesKeep

LEMMA SendNewlineKeeps ==
  ASSUME MessagesInv, NEW c \in Clients, SendNewline(c)
  PROVE  MessagesInv'
<1>1. /\ client[c] = "sending" /\ client' = [client EXCEPT ![c] = "in"]
      /\ stream' = [stream EXCEPT ![c] = Append(@, Newline)]
      /\ sent' = [sent EXCEPT ![c] = @ + 1] /\ UNCHANGED <<listener, backlog, serverVars>>
  BY DEF SendNewline
<1>2. TypeOK /\ sent \in [Clients -> Nat] /\ stream[c] \in Seq({Newline} \cup Text)
  BY DEF MessagesInv, TypeOK
<1>3. sent'[c] = sent[c] + 1 /\ sent[c] \in Nat /\ \A d \in Clients \ {c} : sent'[d] = sent[d]
  BY <1>1, <1>2
<1>4. TypeOK'
  <2>1. Append(stream[c], Newline) \in Seq({Newline} \cup Text)
    BY <1>2
  <2>2. sent' \in [Clients -> Nat]
    BY <1>1, <1>2
  <2> QED
    BY <1>1, <1>2, <2>1, <2>2 DEF TypeOK, listener, serverVars
<1>5. Taken(c) + Len(stream[c]) = 2 * sent[c] + 1
  BY <1>1 DEF MessagesInv, WordsInOrder
<1>6. IsToken(Taken(c) + Len(stream[c]) + 1, Newline)
  <2>1. Taken(c) + Len(stream[c]) + 1 = 2 * (sent[c] + 1) /\ sent[c] + 1 \in Nat
    BY <1>3, <1>5
  <2>2. sent[c] + 1 \in 0..(2 * (sent[c] + 1))
    BY <1>3
  <2> QED
    BY <2>1, <2>2 DEF IsToken
<1>7. Taken(c) + Len(stream[c]) + 1 = 2 * sent'[c] + IF "in" = "in" THEN 0 ELSE 1
  BY <1>3, <1>5
<1>8. Newline \in {Newline} \cup Text /\ client[c] # "out"
  BY <1>1
<1> QED
  BY <1>1, <1>3, <1>4, <1>6, <1>7, <1>8, WritesKeep

LEMMA CloseKeeps ==
  ASSUME MessagesInv, NEW c \in Clients, Close(c)
  PROVE  MessagesInv'
<1> USE DEF MessagesInv
<1>1. /\ client[c] \in {"in", "sending"} /\ client' = [client EXCEPT ![c] = "closed"]
      /\ UNCHANGED <<table, fdtmp, i, backlog, stream, sent, conn, heard, pc, buf, worn>>
  BY DEF Close, listener, serverVars
<1>2. TypeOK'
  BY <1>1 DEF TypeOK
<1>3. Open' = Open
  BY <1>1 DEF Open
<1>4. \A d \in Clients : client'[d] = IF d = c THEN "closed" ELSE client[d]
  BY <1>1 DEF TypeOK
<1>5. \A d \in Clients : Waits(d)' = Waits(d) /\ Connected(d)' = Connected(d)
  BY <1>1 DEF Waits, Connected
<1>6. OnePlaceEach'
  BY <1>1, <1>3, <1>4, <1>5 DEF OnePlaceEach
<1>7. TableIsSound' /\ EachHasASlot' /\ PassGoesWell'
  BY <1>1, <1>3 DEF TableIsSound, EachHasASlot, PassGoesWell, Here
<1>8. \A d \in Clients : Taken(d)' = Taken(d)
  BY <1>1 DEF Taken, Here
<1>9. WordsInOrder'
  BY <1>1, <1>4, <1>8 DEF WordsInOrder, Here
<1> QED
  BY <1>2, <1>6, <1>7, <1>9

-----------------------------------------------------------------------------
(* The steps of the server.                                                *)

(* The loop of listener_wait() stops at a slot whose descriptor is ready.  *)
LEMMA StopsAtReady ==
  ASSUME NEW t \in Tables, t.fd_array_size <= Len(t.slots),
         NEW sets \in [Events -> SUBSET Fds], \A e \in Events \ {"read"} : sets[e] = {},
         NEW k \in Nat, k >= 1, GoesOn(t, sets, k)
  PROVE  /\ table' = t /\ i' \in Nat /\ fdtmp' \in [Events -> SUBSET Fds]
         /\ \A e \in Events \ {"read"} : fdtmp'[e] = {}
         /\ i' # 0 => /\ i' \in Slots(t) /\ i' >= k /\ fdtmp' = sets
                      /\ "read" \in t.slots[i'].events /\ t.slots[i'].fd \in sets["read"]
<1> DEFINE due == {n \in k..t.fd_array_size : Ready(t.slots[n], sets)}
<1>1. /\ table' = t /\ i' = IF due = {} THEN 0 ELSE Min(due)
      /\ fdtmp' = IF due = {} THEN NoSets ELSE sets
  BY DEF GoesOn
<1>2. t.fd_array_size \in Nat /\ \A n \in 1..Len(t.slots) : t.slots[n] \in Slot
  BY DEF Tables
<1>3. NoSets \in [Events -> SUBSET Fds] /\ \A e \in Events : NoSets[e] = {}
  BY DEF NoSets
<1>4. CASE due = {}
  BY <1>1, <1>3, <1>4
<1>5. CASE due # {}
  <2>1. due \in SUBSET Nat
    BY <1>2
  <2>2. Min(due) \in due
    BY <1>5, <2>1, MinOf
  <2>3. i' \in due /\ fdtmp' = sets
    BY <1>1, <1>5, <2>2
  <2>4. i' \in Slots(t) /\ i' >= k /\ i' \in Nat /\ Ready(t.slots[i'], sets)
    BY <1>2, <2>3 DEF Slots
  <2>5. i' \in 1..Len(t.slots)
    BY <1>2, <2>4 DEF Slots, Tables
  <2>6. t.slots[i'].events \subseteq Events
    BY <1>2, <2>5 DEF Slot
  <2>7. PICK e \in t.slots[i'].events : t.slots[i'].fd \in sets[e]
    BY <2>4 DEF Ready
  <2>8. e = "read"
    BY <2>6, <2>7
  <2> HIDE DEF due
  <2> QED
    BY <1>1, <2>3, <2>4, <2>7, <2>8
<1> QED
  BY <1>4, <1>5

(* From slot k on, with descriptors of which the closed ones have no slot  *)
(* that waits: the pass goes well.                                         *)
LEMMA PassGoesOn ==
  ASSUME NEW t, SoundTable(t, Open'),
         NEW sets \in [Events -> SUBSET Fds], \A e \in Events \ {"read"} : sets[e] = {},
         NEW k \in Nat, k >= 1, GoesOn(t, sets, k),
         \A f \in sets["read"] \ (Open' \cup {ServerFd}) : \A j \in Slots(t) :
            j >= k /\ t.slots[j].fd = f => "read" \notin t.slots[j].events,
         k = 1 => /\ sets["read"] \subseteq Open' \cup {ServerFd}
                  /\ ServerFd \in sets["read"] => backlog' # <<>>,
         pc' # "read"
  PROVE  PassGoesWell' /\ table' = t /\ i' \in Nat /\ fdtmp' \in [Events -> SUBSET Fds]
<1>1. t \in Tables /\ t.fd_array_size <= Len(t.slots) /\ t.slots[1] = ServerSlot
  BY DEF SoundTable
<1>2. /\ table' = t /\ i' \in Nat /\ fdtmp' \in [Events -> SUBSET Fds]
      /\ \A e \in Events \ {"read"} : fdtmp'[e] = {}
      /\ i' # 0 => /\ i' \in Slots(t) /\ i' >= k /\ fdtmp' = sets
                   /\ "read" \in t.slots[i'].events /\ t.slots[i'].fd \in sets["read"]
  BY <1>1, StopsAtReady
<1>3. ASSUME i' # 0, NEW f \in fdtmp'["read"] \ (Open' \cup {ServerFd}), NEW j \in Slots(t),
             j >= i', t.slots[j].fd = f
      PROVE  "read" \notin t.slots[j].events
  <2>1. j \in Nat
    BY DEF Slots
  <2>2. j >= k
    BY <1>2, <1>3, <2>1
  <2> QED
    BY <1>2, <1>3, <2>2
<1>4. ASSUME i' = 1 PROVE backlog' # <<>> /\ fdtmp'["read"] \subseteq Open' \cup {ServerFd}
  <2>1. k = 1 /\ fdtmp' = sets /\ t.slots[1].fd \in sets["read"]
    BY <1>2, <1>4
  <2> QED
    BY <1>1, <2>1 DEF ServerSlot
<1>5. Here' = t.slots[i']
  BY <1>2 DEF Here
<1>6. PassGoesWell'
  BY <1>2, <1>3, <1>4, <1>5 DEF PassGoesWell
<1> QED
  BY <1>2, <1>6

(* The callback is called with an open descriptor.                         *)
LEMMA CallsOpen ==
  ASSUME MessagesInv, i # 0
  PROVE  i \in Slots(table) /\ Here.fd \in Open \cup {ServerFd}
<1>1. i \in Slots(table) /\ "read" \in Here.events /\ Here.fd \in fdtmp["read"]
  BY DEF MessagesInv, PassGoesWell
<1>2. i >= i
  BY <1>1 DEF Slots
<1>3. ASSUME Here.fd \notin Open \cup {ServerFd} PROVE FALSE
  BY <1>1, <1>2, <1>3 DEF MessagesInv, PassGoesWell, Here
<1> QED
  BY <1>1, <1>3

LEMMA WaitKeeps ==
  ASSUME MessagesInv, Wait
  PROVE  MessagesInv'
<1> USE DEF MessagesInv
<1>1. pc = "loop" /\ UNCHANGED <<backlog, client, stream, sent, conn, heard, pc, buf, worn>>
  BY DEF Wait, clientVars, serverVars
<1>2. PICK sets : /\ sets = [e \in Events |->
                       {f \in table.fdsets[e] \cap (IF e = "read" THEN ReadyToRead ELSE {}) :
                          f <= table.maxfd}]
                  /\ GoesOn(table, sets, 1)
  BY DEF Wait, Select
<1>3. Open' = Open
  BY <1>1 DEF Open
<1>4. SoundTable(table, Open) /\ table \in Tables
  BY DEF TableIsSound, SoundTable
<1>5. sets \in [Events -> SUBSET Fds] /\ \A e \in Events \ {"read"} : sets[e] = {}
  <2>1. table.fdsets \in [Events -> SUBSET Fds]
    BY <1>4 DEF Tables
  <2> QED
    BY <1>2, <2>1
<1>6. sets["read"] \subseteq Open \cup {ServerFd}
  <2>1. table.fdsets["read"] \subseteq Open \cup {ServerFd}
    BY <1>4, SipcAssumption DEF SoundTable
  <2> QED
    BY <1>2, <2>1, SipcAssumption
<1>7. ServerFd \in sets["read"] => backlog # <<>>
  <2>1. sets["read"] \subseteq ReadyToRead
    BY <1>2, SipcAssumption
  <2>2. ServerFd \in ReadyToRead => backlog # <<>>
    BY DEF ReadyToRead, HasInput, OnePlaceEach
  <2> QED
    BY <2>1, <2>2
<1> HIDE DEF MessagesInv
<1>8. /\ PassGoesWell' /\ table' = table /\ i' \in Nat /\ fdtmp' \in [Events -> SUBSET Fds]
  <2>1. pc' # "read" /\ SoundTable(table, Open') /\ backlog' = backlog
    BY <1>1, <1>3, <1>4
  <2>2. \A f \in sets["read"] \ (Open' \cup {ServerFd}) : \A j \in Slots(table) :
          j >= 1 /\ table.slots[j].fd = f => "read" \notin table.slots[j].events
    BY <1>3, <1>6
  <2>3. /\ sets["read"] \subseteq Open' \cup {ServerFd}
        /\ ServerFd \in sets["read"] => backlog' # <<>>
    BY <1>1, <1>3, <1>6, <1>7
  <2>4. GoesOn(table, sets, 1)
    BY <1>2
  <2> QED
    BY <1>5, <2>1, <2>2, <2>3, <2>4, PassGoesOn
<1> USE DEF MessagesInv
<1>9. TypeOK'
  BY <1>1, <1>8 DEF TypeOK
<1>10. OnePlaceEach'
  <2>1. \A d \in Clients : Waits(d)' = Waits(d) /\ Connected(d)' = Connected(d)
    BY <1>1 DEF Waits, Connected
  <2> QED
    BY <1>1, <1>3, <2>1 DEF OnePlaceEach
<1>11. TableIsSound' /\ EachHasASlot'
  BY <1>1, <1>3, <1>8 DEF TableIsSound, EachHasASlot
<1>12. WordsInOrder'
  <2>1. \A d \in Clients : Taken(d)' = Taken(d)
    BY <1>1 DEF Taken
  <2> QED
    BY <1>1, <2>1 DEF WordsInOrder
<1> QED
  BY <1>8, <1>9, <1>10, <1>11, <1>12

(* A client that waits leaves a number free: there is one for each client. *)
LEMMA NewFdIsFree ==
  ASSUME MessagesInv, backlog # <<>>
  PROVE  NewFd \in Fds /\ NewFd # ServerFd /\ NewFd \notin Open
<1> DEFINE free == (Fds \ {ServerFd}) \ Open
           others == Fds \ {ServerFd}
           rest == Clients \ {Head(backlog)}
<1>1. Head(backlog) \in Clients /\ Waits(Head(backlog))
  <2>1. backlog \in Seq(Clients)
    BY DEF MessagesInv, TypeOK
  <2>2. 1 \in DOMAIN backlog /\ Head(backlog) = backlog[1] /\ backlog[1] \in Clients
    BY <2>1
  <2> QED
    BY <2>2 DEF Waits
<1>2. ~Connected(Head(backlog))
  BY <1>1 DEF MessagesInv, OnePlaceEach
<1>3. IsFiniteSet(others) /\ Cardinality(others) = Cardinality(Clients)
  <2> DEFINE m == Cardinality(Clients) + 1
  <2>1. m \in Nat /\ m >= 1 /\ Fds = 1..m /\ Cardinality(Clients) = m - 1
    BY FdsAre
  <2> HIDE DEF m
  <2>2. IsFiniteSet(1..m) /\ Cardinality(1..m) = m
    BY <2>1, FS_Interval
  <2> QED
    BY <2>1, <2>2, FdsAreFinite, FS_RemoveElement
<1>4. IsFiniteSet(rest) /\ Cardinality(rest) = Cardinality(Clients) - 1
  BY <1>1, SipcAssumption, FS_RemoveElement
<1>5. free # {}
  <2> SUFFICES ASSUME free = {} PROVE FALSE
    OBVIOUS
  <2> DEFINE at == [f \in others |-> conn[f]]
  <2>1. \A f \in others : f \in Open /\ conn[f] \in rest
    BY <1>2 DEF MessagesInv, TypeOK, Open, Connected
  <2>2. at \in [others -> rest]
    BY <2>1
  <2>3. Cardinality(rest) < Cardinality(others)
    BY <1>3, <1>4, FdsAre
  <2>4. \A f \in others : at[f] = conn[f]
    OBVIOUS
  <2> HIDE DEF at, others, rest
  <2>5. PICK f, g \in others : f # g /\ at[f] = at[g]
    BY <1>3, <1>4, <2>2, <2>3, FS_PigeonHole
  <2> QED
    BY <2>1, <2>4, <2>5 DEF MessagesInv, OnePlaceEach
<1>6. free \in SUBSET Nat
  BY FdsAre
<1>7. Min(free) \in free
  BY <1>5, <1>6, MinOf
<1> QED
  BY <1>7 DEF NewFd

LEMMA AcceptKeeps ==
  ASSUME MessagesInv, Accept
  PROVE  MessagesInv'
<1>1. /\ pc = "loop" /\ i # 0 /\ Here.cb = server_cb /\ Here.fd = ServerFd
      /\ conn' = [conn EXCEPT ![NewFd] = Head(backlog)] /\ backlog' = Tail(backlog)
      /\ pc' \in {"loop", "dead"} /\ UNCHANGED <<client, stream, sent, heard, buf>>
  BY DEF Accept, Calls, clientVars
<1>2. PICK added \in Added(table, NewFd, Reading, server_cb) :
        /\ GoesOn(added, fdtmp, i + 1)
        /\ worn' = (worn \/ Littered(added) \/ table.nfds > Cardinality(Open) + 1)
  BY DEF Accept, Returned
<1>3. SoundTable(table, Open) /\ table \in Tables
  BY DEF MessagesInv, TableIsSound, SoundTable
<1>4. i = 1
  <2>1. i \in Slots(table)
    BY <1>1, CallsOpen
  <2>2. i \in 1..Len(table.slots)
    BY <1>3, <2>1 DEF SoundTable, Tables, Slots
  <2>3. ASSUME i \in 2..Len(table.slots) PROVE FALSE
    <3>1. table.slots[i].cb = Junk
      BY <1>1, <1>3, <2>3 DEF SoundTable, Here
    <3> QED
      BY <1>1, <3>1, SipcAssumption DEF Here
  <2>4. Len(table.slots) \in Nat
    BY <1>3 DEF Tables
  <2> QED
    BY <2>2, <2>3, <2>4
<1>5. backlog # <<>> /\ fdtmp["read"] \subseteq Open \cup {ServerFd}
  BY <1>4 DEF MessagesInv, PassGoesWell
<1>6. NewFd \in Fds /\ NewFd # ServerFd /\ NewFd \notin Open
  BY <1>5, NewFdIsFree
<1>7. /\ backlog \in Seq(Clients) /\ conn \in [Fds -> Clients \cup {None}]
      /\ fdtmp \in [Events -> SUBSET Fds] /\ \A e \in Events \ {"read"} : fdtmp[e] = {}
  BY DEF MessagesInv, TypeOK, PassGoesWell
<1> DEFINE c == Head(backlog)
           fd == NewFd
           N == Len(backlog)
<1>8. /\ c \in Clients /\ c # None /\ c = backlog[1] /\ 1 \in DOMAIN backlog
      /\ N \in Nat /\ N >= 1
      /\ Tail(backlog) \in Seq(Clients) /\ DOMAIN Tail(backlog) = 1..(N - 1)
      /\ \A k \in 1..(N - 1) : Tail(backlog)[k] = backlog[k + 1] /\ k + 1 \in DOMAIN backlog
  BY <1>5, <1>7, SipcAssumption
<1>9. \A f \in Fds : conn'[f] = IF f = fd THEN c ELSE conn[f]
  BY <1>1, <1>7
<1>10. Waits(c)
  BY <1>8 DEF Waits
<1> HIDE DEF c, fd
<1>11. Open' = Open \cup {fd}
  BY <1>6, <1>8, <1>9 DEF Open, fd
<1>12. SoundTable(added, Open')
  <2>1. SoundTable(added, Open \cup {NewFd})
    BY <1>2, <1>3, <1>6, AddedSound
  <2> QED
    BY <1>11, <2>1 DEF fd
<1>13. PassGoesWell' /\ table' = added /\ i' \in Nat /\ fdtmp' \in [Events -> SUBSET Fds]
  <2>1. GoesOn(added, fdtmp, 2) /\ pc' # "read"
    BY <1>1, <1>2, <1>4
  <2>2. \A f \in fdtmp["read"] \ (Open' \cup {ServerFd}) : \A j \in Slots(added) :
          j >= 2 /\ added.slots[j].fd = f => "read" \notin added.slots[j].events
    BY <1>5, <1>11
  <2> QED
    BY <1>7, <1>12, <2>1, <2>2, PassGoesOn
<1>14. TypeOK'
  <2>1. /\ table'.slots \in Seq(Slot) /\ table'.fd_array_size \in 0..Len(table'.slots)
        /\ table'.nfds \in Nat /\ table'.maxfd \in Fds \cup {-1, 0}
        /\ table'.fdsets \in [Events -> SUBSET Fds]
    BY <1>12, <1>13 DEF SoundTable, Tables
  <2>2. conn' \in [Fds -> Clients \cup {None}] /\ backlog' \in Seq(Clients) /\ worn' \in BOOLEAN
    BY <1>1, <1>2, <1>6, <1>7, <1>8 DEF c, MessagesInv, TypeOK
  <2> QED
    BY <1>1, <1>13, <2>1, <2>2 DEF MessagesInv, TypeOK
<1>15. OnePlaceEach'
  <2>0. OnePlaceEach /\ ~Connected(c)
    BY <1>8, <1>10 DEF MessagesInv, OnePlaceEach
  <2>1. conn'[ServerFd] = None
    BY <1>6, <1>9, <2>0, FdsAreFinite DEF fd, OnePlaceEach
  <2>2. ASSUME NEW f \in Open', NEW g \in Open', conn'[f] = conn'[g] PROVE f = g
    <3>1. f \in Fds /\ g \in Fds /\ fd \in Fds
      BY <1>6 DEF Open, fd
    <3>2. \A h \in Fds : conn[h] # c
      BY <2>0 DEF Connected
    <3> QED
      BY <1>9, <1>11, <2>0, <2>2, <3>1, <3>2 DEF OnePlaceEach
  <2>3. ASSUME NEW k \in DOMAIN backlog', NEW l \in DOMAIN backlog', backlog'[k] = backlog'[l]
        PROVE  k = l
    <3>1. /\ k \in 1..(N - 1) /\ l \in 1..(N - 1)
      BY <1>1, <1>8
    <3>2. backlog[k + 1] = backlog[l + 1] /\ k + 1 \in DOMAIN backlog /\ l + 1 \in DOMAIN backlog
      BY <1>1, <1>8, <2>3, <3>1
    <3>3. k + 1 = l + 1
      BY <2>0, <3>2 DEF OnePlaceEach
    <3> QED
      BY <1>8, <3>1, <3>3
  <2>4. ASSUME NEW d \in Clients, Waits(d)' PROVE Waits(d) /\ d # c
    <3>1. PICK k \in DOMAIN backlog' : backlog'[k] = d
      BY <2>4 DEF Waits
    <3>2. k \in 1..(N - 1) /\ backlog[k + 1] = d /\ k + 1 \in DOMAIN backlog
      BY <1>1, <1>8, <3>1
    <3>3. k + 1 # 1
      BY <1>8, <3>2
    <3> QED
      BY <1>8, <2>0, <3>2, <3>3 DEF OnePlaceEach, Waits
  <2>5. ASSUME NEW d \in Clients, Connected(d)' PROVE Connected(d) \/ d = c
    BY <1>9, <2>5 DEF Connected
  <2>6. client' = client /\ client[c] # "out"
    BY <1>1, <1>8, <1>10, <2>0 DEF OnePlaceEach
  <2>7. ASSUME NEW d \in Clients
        PROVE  /\ client'[d] = "out" => ~Waits(d)' /\ ~Connected(d)'
               /\ ~(Waits(d)' /\ Connected(d)')
    BY <2>0, <2>4, <2>5, <2>6 DEF OnePlaceEach
  <2> QED
    BY <2>1, <2>2, <2>3, <2>7 DEF OnePlaceEach
<1>16. EachHasASlot'
  <2> SUFFICES ASSUME ~worn' PROVE Roster(added, Open') /\ Counted(added, Open')
    BY <1>13 DEF EachHasASlot
  <2>1. ~worn /\ ~Littered(added) /\ ~(table.nfds > Cardinality(Open) + 1)
    BY <1>2
  <2>2. Roster(table, Open) /\ Counted(table, Open)
    BY <2>1 DEF MessagesInv, EachHasASlot
  <2>3. Open \in SUBSET Fds /\ Cardinality(Open) \in Nat
    <3>1. Open \in SUBSET Fds
      BY DEF Open
    <3> QED
      BY <3>1, FdsAreFinite, FS_Subset, FS_CardinalityType
  <2>4. table.nfds = Cardinality(Open) + 1
    BY <1>3, <2>1, <2>2, <2>3 DEF Counted, Tables
  <2>5. Roster(added, Open \cup {NewFd}) /\ Counted(added, Open \cup {NewFd})
    BY <1>2, <1>3, <1>6, <2>1, <2>2, <2>3, <2>4, AddedRoster
  <2> QED
    BY <1>11, <2>5 DEF fd
<1>17. WordsInOrder'
  <2>1. \A d \in Clients : Taken(d)' = Taken(d)
    BY <1>1 DEF Taken
  <2> QED
    BY <1>1, <2>1 DEF MessagesInv, WordsInOrder
<1>18. TableIsSound'
  BY <1>12, <1>13 DEF TableIsSound
<1> QED
  BY <1>13, <1>14, <1>15, <1>16, <1>17, <1>18 DEF MessagesInv

(* A step that leaves the table, the connections and the clients alone.    *)
LEMMA PlacesUntouched ==
  ASSUME MessagesInv, UNCHANGED <<table, backlog, conn, client, worn>>
  PROVE  Open' = Open /\ OnePlaceEach' /\ TableIsSound' /\ EachHasASlot'
<1>1. Open' = Open
  BY DEF Open
<1>2. \A d \in Clients : Waits(d)' = Waits(d) /\ Connected(d)' = Connected(d)
  BY DEF Waits, Connected
<1> QED
  BY <1>1, <1>2 DEF MessagesInv, OnePlaceEach, TableIsSound, EachHasASlot

LEMMA BeginReadKeeps ==
  ASSUME MessagesInv, BeginRead
  PROVE  MessagesInv'
<1>1. /\ pc = "loop" /\ i # 0 /\ Here.cb = server_cb /\ Here.fd # ServerFd
      /\ pc' = "read" /\ buf' = <<>>
      /\ UNCHANGED <<table, fdtmp, i, backlog, client, stream, sent, conn, heard, worn>>
  BY DEF BeginRead, Calls, listener, clientVars
<1>2. Here.fd \in Open
  BY <1>1, CallsOpen
<1>3. Open' = Open /\ OnePlaceEach' /\ TableIsSound' /\ EachHasASlot'
  BY <1>1, PlacesUntouched
<1>4. TypeOK'
  BY <1>1 DEF MessagesInv, TypeOK
<1>5. PassGoesWell'
  BY <1>1, <1>2, <1>3 DEF MessagesInv, PassGoesWell, Here
<1>6. WordsInOrder'
  <2>1. \A d \in Clients : Taken(d)' = Taken(d)
    BY <1>1 DEF Taken
  <2> QED
    BY <1>1, <2>1 DEF MessagesInv, WordsInOrder
<1> QED
  BY <1>3, <1>4, <1>5, <1>6 DEF MessagesInv

LEMMA CallJunkKeeps ==
  ASSUME MessagesInv, CallJunk
  PROVE  MessagesInv'
<1>1. /\ pc = "loop" /\ pc' = "dead"
      /\ UNCHANGED <<table, fdtmp, i, backlog, client, stream, sent, conn, heard, buf, worn>>
  BY DEF CallJunk, listener, clientVars
<1>2. Open' = Open /\ OnePlaceEach' /\ TableIsSound' /\ EachHasASlot'
  BY <1>1, PlacesUntouched
<1>3. TypeOK'
  BY <1>1 DEF MessagesInv, TypeOK
<1>4. PassGoesWell'
  BY <1>1, <1>2 DEF MessagesInv, PassGoesWell, Here
<1>5. WordsInOrder'
  <2>1. \A d \in Clients : Taken(d)' = Taken(d)
    BY <1>1 DEF Taken
  <2> QED
    BY <1>1, <2>1 DEF MessagesInv, WordsInOrder
<1> QED
  BY <1>2, <1>3, <1>4, <1>5 DEF MessagesInv

(* What read() takes next: the text of the next message or, after it, its  *)
(* newline.                                                                *)
LEMMA TakesNext ==
  ASSUME MessagesInv, pc = "read", NEW c, c = conn[Here.fd], stream[c] # <<>>
  PROVE  /\ c \in Clients /\ stream[c] \in Seq({Newline} \cup Text)
         /\ heard[c] \in Seq(Seq(Text))
         /\ \A k \in DOMAIN Tail(stream[c]) : IsToken(Taken(c) + 1 + k, Tail(stream[c])[k])
         /\ Len(Tail(stream[c])) = Len(stream[c]) - 1 /\ Len(stream[c]) \in Nat
         /\ Head(stream[c]) \in Text =>
              buf = <<>> /\ Head(stream[c]) = Len(heard[c]) + 1
         /\ Head(stream[c]) = Newline => buf = <<Len(heard[c]) + 1>>
<1>1. Here.fd \in Open /\ c \in Clients
  BY DEF MessagesInv, PassGoesWell, Open, TypeOK
<1>2. /\ stream[c] \in Seq({Newline} \cup Text) /\ heard[c] \in Seq(Seq(Text))
      /\ Len(heard[c]) \in Nat
  BY <1>1 DEF MessagesInv, TypeOK
<1>3. /\ buf \in {<<>>, <<Len(heard[c]) + 1>>}
      /\ \A k \in DOMAIN stream[c] : IsToken(Taken(c) + k, stream[c][k])
  BY <1>1 DEF MessagesInv, WordsInOrder
<1>4. Taken(c) = 2 * Len(heard[c]) + IF buf # <<>> THEN 1 ELSE 0
  BY DEF Taken
<1>5. Taken(c) \in Nat
  BY <1>2, TakenIs
<1>6. /\ Len(Tail(stream[c])) = Len(stream[c]) - 1 /\ Len(stream[c]) \in Nat
      /\ Head(stream[c]) = stream[c][1] /\ 1 \in DOMAIN stream[c]
      /\ \A k \in DOMAIN Tail(stream[c]) :
           k \in Nat /\ k + 1 \in DOMAIN stream[c] /\ Tail(stream[c])[k] = stream[c][k + 1]
  BY <1>2
<1>7. ASSUME NEW k \in DOMAIN Tail(stream[c])
      PROVE  IsToken(Taken(c) + 1 + k, Tail(stream[c])[k])
  <2>1. IsToken(Taken(c) + (k + 1), stream[c][k + 1])
    BY <1>3, <1>6
  <2>2. Taken(c) + (k + 1) = Taken(c) + 1 + k
    BY SMTT(20), <1>5, <1>6
  <2> QED
    BY <1>6, <2>1, <2>2
<1>8. IsToken(Taken(c) + 1, Head(stream[c]))
  BY <1>3, <1>6
<1>9. \A x \in Text : x \in Nat /\ x >= 1
  BY SipcAssumption DEF Text
<1> DEFINE x == Head(stream[c])
           n == Len(heard[c])
<1>10. n \in Nat
  BY <1>2
<1>11. IsToken(Taken(c) + 1, x)
  BY <1>8
<1>12. CASE buf = <<>>
  <2>1. Taken(c) = 2 * n
    BY <1>4, <1>12
  <2> HIDE DEF x, n
  <2>2. x \in Text => x = n + 1
    BY <1>9, <1>10, <1>11, <2>1 DEF IsToken, Newline
  <2>3. x # Newline
    BY <1>10, <1>11, <2>1 DEF IsToken, Newline
  <2> QED
    BY <1>1, <1>2, <1>6, <1>7, <1>12, <2>2, <2>3 DEF x, n
<1>13. CASE buf = <<Len(heard[c]) + 1>>
  <2>1. Taken(c) = 2 * n + 1
    BY <1>4, <1>13
  <2> HIDE DEF x, n
  <2>2. x \notin Text
    BY <1>9, <1>10, <1>11, <2>1 DEF IsToken, Newline
  <2> QED
    BY <1>1, <1>2, <1>6, <1>7, <1>13, <2>2 DEF x, n
<1> QED
  BY <1>3, <1>12, <1>13

LEMMA ReadTextKeeps ==
  ASSUME MessagesInv, ReadText
  PROVE  MessagesInv'
<1>0. PICK c : c = conn[Here.fd]
  OBVIOUS
<1>1. PICK x \in Text :
        /\ pc = "read" /\ stream[c] # <<>> /\ x = Head(stream[c])
        /\ stream' = [stream EXCEPT ![c] = Tail(@)] /\ buf' = Append(buf, x)
        /\ UNCHANGED <<table, fdtmp, i, backlog, client, sent, conn, heard, pc, worn>>
  BY <1>0 DEF ReadText, Take, listener
<1>2. /\ c \in Clients /\ stream[c] \in Seq({Newline} \cup Text) /\ heard[c] \in Seq(Seq(Text))
      /\ \A k \in DOMAIN Tail(stream[c]) : IsToken(Taken(c) + 1 + k, Tail(stream[c])[k])
      /\ Len(Tail(stream[c])) = Len(stream[c]) - 1 /\ Len(stream[c]) \in Nat
      /\ buf = <<>> /\ x = Len(heard[c]) + 1
  BY <1>0, <1>1, TakesNext
<1>3. Open' = Open /\ OnePlaceEach' /\ TableIsSound' /\ EachHasASlot'
  BY <1>1, PlacesUntouched
<1>4. buf' = <<Len(heard[c]) + 1>> /\ buf' \in Seq(Text)
  BY <1>1, <1>2
<1>5. TypeOK'
  <2>1. Tail(stream[c]) \in Seq({Newline} \cup Text)
    BY <1>1, <1>2
  <2> QED
    BY <1>1, <1>4, <2>1 DEF MessagesInv, TypeOK
<1>6. PassGoesWell'
  BY <1>1, <1>3 DEF MessagesInv, PassGoesWell, Here
<1>7. \A d \in Clients : stream'[d] = IF d = c THEN Tail(stream[c]) ELSE stream[d]
  BY <1>1 DEF MessagesInv, TypeOK
<1>8. Taken(c) \in Nat /\ Taken(c)' = Taken(c) + 1 /\ \A d \in Clients \ {c} : Taken(d)' = Taken(d)
  <2>1. Here' = Here /\ Len(heard[c]) \in Nat /\ buf' # <<>>
    BY <1>1, <1>2, <1>4 DEF Here
  <2>2. Taken(c) = 2 * Len(heard[c]) /\ Taken(c)' = 2 * Len(heard[c]) + 1
    BY <1>0, <1>1, <1>2, <2>1 DEF Taken
  <2>3. \A d \in Clients \ {c} : Taken(d)' = Taken(d)
    BY <1>0, <1>1, <2>1 DEF Taken
  <2> QED
    BY <2>1, <2>2, <2>3
<1>9. ASSUME NEW d \in Clients
      PROVE  /\ \A n \in DOMAIN heard'[d] : heard'[d][n] = <<n>>
             /\ \A k \in DOMAIN stream'[d] : IsToken(Taken(d)' + k, stream'[d][k])
             /\ Taken(d)' + Len(stream'[d]) = Taken(d) + Len(stream[d])
             /\ client[d] = "out" => stream'[d] = <<>>
  <2>1. CASE d # c
    BY <1>1, <1>7, <1>8, <2>1 DEF MessagesInv, WordsInOrder
  <2>2. CASE d = c
    <3>1. stream'[c] = Tail(stream[c])
      BY <1>2, <1>7
    <3>2. \A k \in DOMAIN stream'[c] : IsToken(Taken(c)' + k, stream'[c][k])
      BY <1>2, <1>8, <3>1
    <3>3. Taken(c)' + Len(stream'[c]) = Taken(c) + Len(stream[c])
      BY <1>2, <1>8, <3>1
    <3>4. client[c] # "out"
      BY <1>1, <1>2 DEF MessagesInv, WordsInOrder
    <3>5. \A n \in DOMAIN heard'[c] : heard'[c][n] = <<n>>
      BY <1>1, <1>2 DEF MessagesInv, WordsInOrder
    <3> QED
      BY <2>2, <3>2, <3>3, <3>4, <3>5
  <2> QED
    BY <2>1, <2>2
<1>10. \A d \in Clients :
         /\ client'[d] = "out" => sent'[d] = 0 /\ heard'[d] = <<>> /\ stream'[d] = <<>>
         /\ client'[d] = "in" => Taken(d)' + Len(stream'[d]) = 2 * sent'[d]
         /\ client'[d] = "sending" => Taken(d)' + Len(stream'[d]) = 2 * sent'[d] + 1
         /\ Taken(d)' + Len(stream'[d]) <= 2 * sent'[d] + 1
  BY <1>1, <1>9 DEF MessagesInv, WordsInOrder
<1>11. heard'[conn'[Here'.fd]] = heard[c]
  BY <1>0, <1>1 DEF Here
<1>12. WordsInOrder'
  BY <1>4, <1>9, <1>10, <1>11 DEF WordsInOrder
<1> QED
  BY <1>3, <1>5, <1>6, <1>12 DEF MessagesInv

(* The walk goes on at the next slot, with a table that listener_wait()    *)
(* has not changed since.                                                  *)
LEMMA NextOfPass ==
  ASSUME MessagesInv, i # 0
  PROVE  /\ i \in Nat /\ i >= 1 /\ i + 1 \in Nat /\ i + 1 >= 1 /\ i + 1 # 1
         /\ fdtmp \in [Events -> SUBSET Fds] /\ \A e \in Events \ {"read"} : fdtmp[e] = {}
         /\ \A f \in fdtmp["read"] \ (Open \cup {ServerFd}) : \A k \in Slots(table) :
              k >= i + 1 /\ table.slots[k].fd = f => "read" \notin table.slots[k].events
<1>1. i \in Nat /\ i >= 1 /\ fdtmp \in [Events -> SUBSET Fds]
  BY DEF MessagesInv, TypeOK
<1>2. \A k \in Slots(table) : k >= i + 1 => k >= i
  BY <1>1 DEF Slots
<1> QED
  BY <1>1, <1>2 DEF MessagesInv, PassGoesWell

LEMMA AppendedIs ==
  ASSUME NEW S, NEW s \in Seq(S), NEW x \in S
  PROVE  /\ Append(s, x) \in Seq(S) /\ Len(s) \in Nat /\ Len(Append(s, x)) = Len(s) + 1
         /\ \A n \in DOMAIN Append(s, x) : n # Len(s) + 1 =>
              n \in DOMAIN s /\ Append(s, x)[n] = s[n]
         /\ Append(s, x)[Len(s) + 1] = x
OBVIOUS

LEMMA ReadNewlineKeeps ==
  ASSUME MessagesInv, ReadNewline
  PROVE  MessagesInv'
<1>0. PICK c : c = conn[Here.fd]
  OBVIOUS
<1>1. /\ pc = "read" /\ stream[c] # <<>> /\ Newline = Head(stream[c])
      /\ stream' = [stream EXCEPT ![c] = Tail(@)]
      /\ heard' = [heard EXCEPT ![c] = Append(@, buf)] /\ pc' = "loop" /\ buf' = <<>>
      /\ GoesOn(table, fdtmp, i + 1)
      /\ UNCHANGED <<backlog, client, sent, conn, worn>>
  BY <1>0 DEF ReadNewline, Take, Returned
<1>2. /\ c \in Clients /\ stream[c] \in Seq({Newline} \cup Text) /\ heard[c] \in Seq(Seq(Text))
      /\ \A k \in DOMAIN Tail(stream[c]) : IsToken(Taken(c) + 1 + k, Tail(stream[c])[k])
      /\ Len(Tail(stream[c])) = Len(stream[c]) - 1 /\ Len(stream[c]) \in Nat
      /\ buf = <<Len(heard[c]) + 1>>
  BY <1>0, <1>1, TakesNext
<1>3. i # 0 /\ SoundTable(table, Open)
  BY <1>1 DEF MessagesInv, PassGoesWell, TableIsSound
<1>4. Open' = Open
  BY <1>1 DEF Open
<1>5. PassGoesWell' /\ table' = table /\ i' \in Nat /\ fdtmp' \in [Events -> SUBSET Fds]
  <2>1. SoundTable(table, Open') /\ pc' # "read"
    BY <1>1, <1>3, <1>4
  <2>2. /\ i + 1 \in Nat /\ i + 1 >= 1 /\ i + 1 # 1
        /\ fdtmp \in [Events -> SUBSET Fds] /\ \A e \in Events \ {"read"} : fdtmp[e] = {}
        /\ \A f \in fdtmp["read"] \ (Open' \cup {ServerFd}) : \A k \in Slots(table) :
             k >= i + 1 /\ table.slots[k].fd = f => "read" \notin table.slots[k].events
    BY <1>3, <1>4, NextOfPass
  <2>3. GoesOn(table, fdtmp, i + 1)
    BY <1>1
  <2> QED
    BY <2>1, <2>2, <2>3, PassGoesOn
<1>6. OnePlaceEach' /\ TableIsSound' /\ EachHasASlot'
  BY <1>1, <1>5, PlacesUntouched
<1>7. buf \in Seq(Text)
  BY DEF MessagesInv, TypeOK
<1>8. TypeOK'
  <2>1. Tail(stream[c]) \in Seq({Newline} \cup Text) /\ Append(heard[c], buf) \in Seq(Seq(Text))
    BY <1>1, <1>2, <1>7
  <2>2. <<>> \in Seq(Text)
    OBVIOUS
  <2> QED
    BY <1>1, <1>5, <2>1, <2>2 DEF MessagesInv, TypeOK
<1>9. \A d \in Clients : /\ stream'[d] = IF d = c THEN Tail(stream[c]) ELSE stream[d]
                        /\ heard'[d] = IF d = c THEN Append(heard[c], buf) ELSE heard[d]
  BY <1>1 DEF MessagesInv, TypeOK
<1>10. /\ Taken(c) \in Nat /\ Taken(c)' = Taken(c) + 1
       /\ \A d \in Clients \ {c} : Taken(d)' = Taken(d)
  <2>0. heard'[c] = Append(heard[c], buf)
    BY <1>2, <1>9
  <2>1. Len(heard[c]) \in Nat /\ Len(heard'[c]) = Len(heard[c]) + 1
    BY <1>2, <1>7, <2>0, AppendedIs
  <2>2. Taken(c) = 2 * Len(heard[c]) + 1
    BY <1>0, <1>1, <1>2 DEF Taken
  <2>3. Taken(c)' = 2 * Len(heard'[c]) + 0
    BY <1>1 DEF Taken
  <2>4. \A d \in Clients \ {c} : Taken(d)' = Taken(d)
    BY <1>0, <1>1, <1>9 DEF Taken
  <2> QED
    BY <2>1, <2>2, <2>3, <2>4
<1>11. ASSUME NEW d \in Clients
       PROVE  /\ \A n \in DOMAIN heard'[d] : heard'[d][n] = <<n>>
              /\ \A k \in DOMAIN stream'[d] : IsToken(Taken(d)' + k, stream'[d][k])
              /\ Taken(d)' + Len(stream'[d]) = Taken(d) + Len(stream[d])
              /\ client[d] = "out" => stream'[d] = <<>> /\ heard'[d] = <<>>
  <2>1. CASE d # c
    BY <1>1, <1>9, <1>10, <2>1 DEF MessagesInv, WordsInOrder
  <2>2. CASE d = c
    <3>1. stream'[c] = Tail(stream[c]) /\ heard'[c] = Append(heard[c], buf)
      BY <1>2, <1>9
    <3>2. \A k \in DOMAIN stream'[c] : IsToken(Taken(c)' + k, stream'[c][k])
      BY <1>2, <1>10, <3>1
    <3>3. Taken(c)' + Len(stream'[c]) = Taken(c) + Len(stream[c])
      BY <1>2, <1>10, <3>1
    <3>4. client[c] # "out"
      BY <1>1, <1>2 DEF MessagesInv, WordsInOrder
    <3>5. ASSUME NEW n \in DOMAIN heard'[c] PROVE heard'[c][n] = <<n>>
      <4> DEFINE h == heard[c]
      <4>1. /\ n # Len(h) + 1 => n \in DOMAIN h /\ Append(h, buf)[n] = h[n]
            /\ Append(h, buf)[Len(h) + 1] = buf
        BY <1>2, <1>7, <3>1, AppendedIs
      <4>2. \A m \in DOMAIN h : h[m] = <<m>>
        BY <1>2 DEF MessagesInv, WordsInOrder
      <4>3. buf = <<Len(h) + 1>> /\ heard'[c] = Append(h, buf)
        BY <1>2, <3>1
      <4> HIDE DEF h
      <4>4. CASE n = Len(h) + 1
        BY <4>1, <4>3, <4>4
      <4>5. CASE n # Len(h) + 1
        BY <4>1, <4>2, <4>3, <4>5
      <4> QED
        BY <4>4, <4>5
    <3> QED
      BY <2>2, <3>2, <3>3, <3>4, <3>5
  <2> QED
    BY <2>1, <2>2
<1>12. \A d \in Clients :
         /\ client'[d] = "out" => sent'[d] = 0 /\ heard'[d] = <<>> /\ stream'[d] = <<>>
         /\ client'[d] = "in" => Taken(d)' + Len(stream'[d]) = 2 * sent'[d]
         /\ client'[d] = "sending" => Taken(d)' + Len(stream'[d]) = 2 * sent'[d] + 1
         /\ Taken(d)' + Len(stream'[d]) <= 2 * sent'[d] + 1
  BY <1>1, <1>11 DEF MessagesInv, WordsInOrder
<1>13. WordsInOrder'
  BY <1>1, <1>11, <1>12 DEF WordsInOrder
<1> QED
  BY <1>5, <1>6, <1>8, <1>13 DEF MessagesInv

LEMMA ReadEndKeeps ==
  ASSUME MessagesInv, ReadEnd
  PROVE  MessagesInv'
<1>0. PICK f, c : f = Here.fd /\ c = conn[f]
  OBVIOUS
<1> DEFINE r == Removed(table, f, Reading)
<1>1. /\ pc = "read" /\ stream[c] = <<>> /\ client[c] = "closed"
      /\ conn' = [conn EXCEPT ![f] = None] /\ pc' = "loop" /\ buf' = <<>>
      /\ GoesOn(r, fdtmp, i + 1)
      /\ UNCHANGED <<backlog, client, stream, sent, heard, worn>>
  BY <1>0 DEF ReadEnd, AtEnd, Returned, clientVars
<1>2. /\ i # 0 /\ f \in Open /\ SoundTable(table, Open) /\ conn[ServerFd] = None
      /\ conn \in [Fds -> Clients \cup {None}]
  BY <1>0, <1>1 DEF MessagesInv, PassGoesWell, TableIsSound, OnePlaceEach, TypeOK
<1>3. f \in Fds /\ f # ServerFd /\ c \in Clients /\ Open \in SUBSET Fds
  BY <1>0, <1>2 DEF Open
<1>4. \A g \in Fds : conn'[g] = IF g = f THEN None ELSE conn[g]
  BY <1>1, <1>2
<1>5. Open' = Open \ {f}
  BY <1>3, <1>4 DEF Open
<1>6. SoundTable(r, Open')
  BY <1>2, <1>3, <1>5, RemovedSound
<1>7. table \in Tables /\ table.fd_array_size <= Len(table.slots)
  BY <1>2 DEF SoundTable
<1>8. /\ i \in Nat /\ i + 1 \in Nat /\ i + 1 >= 1 /\ i + 1 # 1
      /\ fdtmp \in [Events -> SUBSET Fds] /\ \A e \in Events \ {"read"} : fdtmp[e] = {}
      /\ \A g \in fdtmp["read"] \ (Open \cup {ServerFd}) : \A k \in Slots(table) :
           k >= i + 1 /\ table.slots[k].fd = g => "read" \notin table.slots[k].events
  BY <1>2, NextOfPass
<1>9. ASSUME NEW g \in fdtmp["read"] \ (Open' \cup {ServerFd}), NEW j \in Slots(r),
             j >= i + 1, r.slots[j].fd = g
      PROVE  "read" \notin r.slots[j].events
  <2>1. PICK k \in Slots(table) : j <= k /\ IsLeftOf(r.slots[j], table.slots[k], f)
    BY <1>3, <1>7, RemovedMoves
  <2>2. CASE g = f
    BY <1>9, <2>1, <2>2 DEF IsLeftOf
  <2>3. CASE g # f
    <3>1. g \in fdtmp["read"] \ (Open \cup {ServerFd}) /\ table.slots[k].fd = g
      BY <1>5, <1>9, <2>1, <2>3 DEF IsLeftOf
    <3>2. j \in Nat /\ k \in Nat
      BY DEF Slots
    <3>3. k >= i + 1
      BY <1>8, <1>9, <2>1, <3>2
    <3> QED
      BY <1>8, <2>1, <3>1, <3>3 DEF IsLeftOf
  <2> QED
    BY <2>2, <2>3
<1>10. PassGoesWell' /\ table' = r /\ i' \in Nat /\ fdtmp' \in [Events -> SUBSET Fds]
  <2>1. GoesOn(r, fdtmp, i + 1) /\ pc' # "read"
    BY <1>1
  <2> HIDE DEF r
  <2> QED
    BY <1>6, <1>8, <1>9, <2>1, PassGoesOn
<1>11. TypeOK'
  <2>1. /\ table'.slots \in Seq(Slot) /\ table'.fd_array_size \in 0..Len(table'.slots)
        /\ table'.nfds \in Nat /\ table'.maxfd \in Fds \cup {-1, 0}
        /\ table'.fdsets \in [Events -> SUBSET Fds]
    <3> HIDE DEF r
    <3> QED
      BY <1>6, <1>10 DEF SoundTable, Tables
  <2>2. conn' \in [Fds -> Clients \cup {None}]
    BY <1>1, <1>2
  <2>3. <<>> \in Seq(Text)
    OBVIOUS
  <2> QED
    BY <1>1, <1>10, <2>1, <2>2, <2>3 DEF MessagesInv, TypeOK
<1>12. OnePlaceEach'
  <2>1. \A d \in Clients : Waits(d)' = Waits(d) /\ (Connected(d)' => Connected(d))
    BY <1>1, <1>4, SipcAssumption DEF Waits, Connected
  <2>2. conn'[ServerFd] = None
    BY <1>2, <1>3, <1>4, FdsAreFinite
  <2>3. \A g, h \in Open' : conn'[g] = conn'[h] => g = h
    BY <1>3, <1>4, <1>5 DEF MessagesInv, OnePlaceEach
  <2> QED
    BY <1>1, <2>1, <2>2, <2>3 DEF MessagesInv, OnePlaceEach
<1>13. EachHasASlot'
  <2> SUFFICES ASSUME ~worn PROVE Roster(r, Open \ {f}) /\ Counted(r, Open \ {f})
    BY <1>1, <1>5, <1>10 DEF EachHasASlot
  <2>1. Roster(table, Open) /\ Counted(table, Open)
    BY DEF MessagesInv, EachHasASlot
  <2>2. Roster(r, Open \ {f})
    BY <1>3, <1>7, <2>1, RemovedRoster
  <2>3. Counted(r, Open \ {f})
    BY <1>2, <1>3, <1>7, <2>1, RemovedCounted
  <2> QED
    BY <2>2, <2>3
<1>14. WordsInOrder'
  <2>1. heard[c] \in Seq(Seq(Text)) /\ Len(heard[c]) \in Nat /\ sent[c] \in Nat
    BY <1>3 DEF MessagesInv, TypeOK
  <2>2. \A d \in Clients \ {c} : Taken(d)' = Taken(d)
    BY <1>0, <1>1 DEF Taken
  <2>3. Taken(c)' = 2 * Len(heard[c]) + 0
    BY <1>1 DEF Taken
  <2>4. Taken(c)' <= 2 * sent[c] + 1
    <3>1. Taken(c) + Len(stream[c]) <= 2 * sent[c] + 1 /\ Len(stream[c]) = 0
      BY <1>1, <1>3 DEF MessagesInv, WordsInOrder
    <3>2. Taken(c) \in Nat /\ Taken(c) >= 2 * Len(heard[c])
      BY <2>1, TakenIs
    <3> QED
      BY <2>1, <2>3, <3>1, <3>2
  <2>5. ASSUME NEW d \in Clients
        PROVE  /\ \A n \in DOMAIN heard'[d] : heard'[d][n] = <<n>>
               /\ \A k \in DOMAIN stream'[d] : IsToken(Taken(d)' + k, stream'[d][k])
               /\ client'[d] = "out" => sent'[d] = 0 /\ heard'[d] = <<>> /\ stream'[d] = <<>>
               /\ client'[d] = "in" => Taken(d)' + Len(stream'[d]) = 2 * sent'[d]
               /\ client'[d] = "sending" => Taken(d)' + Len(stream'[d]) = 2 * sent'[d] + 1
               /\ Taken(d)' + Len(stream'[d]) <= 2 * sent'[d] + 1
    <3>1. CASE d # c
      BY <1>1, <2>2, <3>1 DEF MessagesInv, WordsInOrder
    <3>2. CASE d = c
      <4>1. DOMAIN stream'[c] = {} /\ Len(stream'[c]) = 0 /\ client'[c] = "closed"
        BY <1>1
      <4>2. \A n \in DOMAIN heard'[c] : heard'[c][n] = <<n>>
        BY <1>1, <1>3 DEF MessagesInv, WordsInOrder
      <4>3. Taken(c)' + Len(stream'[c]) <= 2 * sent'[c] + 1
        <5>1. Taken(c)' \in Nat /\ sent'[c] = sent[c]
          BY <1>1, <2>1, <2>3
        <5> QED
          BY <2>4, <4>1, <5>1
      <4> QED
        BY <3>2, <4>1, <4>2, <4>3
    <3> QED
      BY <3>1, <3>2
  <2> QED
    BY <1>1, <2>5 DEF WordsInOrder
<1>15. TableIsSound'
  BY <1>6, <1>10 DEF TableIsSound
<1> QED
  BY <1>10, <1>11, <1>12, <1>13, <1>14, <1>15 DEF MessagesInv

-----------------------------------------------------------------------------
LEMMA MessagesStepKeeps == MessagesInv /\ [Next]_vars => MessagesInv'
<1> SUFFICES ASSUME MessagesInv, [Next]_vars PROVE MessagesInv'
  OBVIOUS
<1>1. CASE UNCHANGED vars
  <2>1. UNCHANGED <<table, fdtmp, i, backlog, client, stream, sent, conn, heard, pc, buf, worn>>
    BY <1>1 DEF vars, listener, clientVars, serverVars
  <2>2. OnePlaceEach' /\ TableIsSound' /\ EachHasASlot' /\ Open' = Open
    BY <2>1, PlacesUntouched
  <2>3. TypeOK' /\ PassGoesWell'
    BY <2>1, <2>2 DEF MessagesInv, TypeOK, PassGoesWell, Here
  <2>4. \A d \in Clients : Taken(d)' = Taken(d)
    BY <2>1 DEF Taken, Here
  <2>5. WordsInOrder'
    BY <2>1, <2>4 DEF MessagesInv, WordsInOrder, Here
  <2> QED
    BY <2>2, <2>3, <2>5 DEF MessagesInv
<1>2. CASE Server
  BY <1>2, WaitKeeps, AcceptKeeps, BeginReadKeeps, CallJunkKeeps, ReadTextKeeps,
     ReadNewlineKeeps, ReadEndKeeps DEF Server
<1>3. CASE \E c \in Clients : Connect(c) \/ SendText(c) \/ SendNewline(c) \/ Close(c)
  BY <1>3, ConnectKeeps, SendTextKeeps, SendNewlineKeeps, CloseKeeps
<1> QED
  BY <1>1, <1>2, <1>3 DEF Next

(* A behaviour about names leaves the messages alone.                      *)
LEMMA MessagesAlways == IpcSpec => []MessagesInv
<1>1. IpcInit => MessagesInv
  BY MessagesInitially DEF IpcInit
<1>2. MessagesInv /\ [IpcNext]_ipcVars => MessagesInv'
  <2>1. [IpcNext]_ipcVars => [Next]_vars
    BY DEF IpcNext, ipcVars, MessagesStep, NamesStep
  <2> QED
    BY <2>1, MessagesStepKeeps
<1> QED
  BY <1>1, <1>2, PTL DEF IpcSpec

(* select() is given, and server_cb() called with, open descriptors only,  *)
(* for any clients (Listener.cpp:126-141, Sipc.cpp:129-171).               *)
THEOREM OnlyOpenServed == IpcSpec => []ServesOpen
<1>1. MessagesInv => ServesOpen
  <2> SUFFICES ASSUME MessagesInv PROVE ServesOpen
    OBVIOUS
  <2>1. \A e \in Events : table.fdsets[e] \subseteq Open \cup {ServerFd}
    BY DEF MessagesInv, TableIsSound, SoundTable
  <2>2. pc = "read" => Here.fd \in Open
    BY DEF MessagesInv, PassGoesWell
  <2>3. Calls(server_cb) => Here.fd \in Open \cup {ServerFd}
    BY CallsOpen DEF Calls
  <2> QED
    BY <2>1, <2>2, <2>3 DEF ServesOpen
<1> QED
  BY <1>1, MessagesAlways, PTL

(* The callback gets each client's messages whole, once and in their       *)
(* order, for any clients and any number of messages (Sipc.cpp:129-171).   *)
THEOREM AlwaysWhole == IpcSpec => []MessagesWhole
<1>1. MessagesInv => MessagesWhole
  <2> SUFFICES ASSUME MessagesInv, NEW c \in Clients
               PROVE  /\ Len(heard[c]) <= sent[c]
                      /\ \A n \in DOMAIN heard[c] : heard[c][n] = <<n>>
    BY DEF MessagesWhole
  <2>1. Len(heard[c]) \in Nat /\ sent[c] \in Nat /\ Len(stream[c]) \in Nat
    <3>1. /\ heard[c] \in Seq(Seq(Text)) /\ sent[c] \in Nat
          /\ stream[c] \in Seq({Newline} \cup Text)
      BY DEF MessagesInv, TypeOK
    <3> QED
      BY <3>1
  <2>2. Taken(c) + Len(stream[c]) <= 2 * sent[c] + 1
    BY DEF MessagesInv, WordsInOrder
  <2>3. Taken(c) \in Nat /\ Taken(c) >= 2 * Len(heard[c])
    BY <2>1, TakenIs
  <2>4. Len(heard[c]) <= sent[c]
    <3>1. \A h, n, l, t \in Nat : t + l <= 2 * n + 1 /\ t >= 2 * h => h <= n
      OBVIOUS
    <3> QED
      BY <2>1, <2>2, <2>3, <3>1
  <2> QED
    BY <2>4 DEF MessagesInv, WordsInOrder
<1> QED
  BY <1>1, MessagesAlways, PTL

(* As long as nothing was added after a removal, each connection has one   *)
(* slot and select() looks at it (listener_add_fd(), Listener.cpp:42-74).  *)
THEOREM OneSlotEach == IpcSpec => []SlotOfEach
<1>1. MessagesInv => SlotOfEach
  <2> SUFFICES ASSUME MessagesInv, ~worn, NEW f \in Open
               PROVE  /\ Cardinality({k \in 1..table.fd_array_size : table.slots[k].fd = f}) = 1
                      /\ f \in table.fdsets["read"] /\ f <= table.maxfd
    BY DEF SlotOfEach
  <2>1. Roster(table, Open)
    BY DEF MessagesInv, EachHasASlot
  <2>2. f # 0
    BY FdsAreFinite DEF Open
  <2>3. PICK k \in Slots(table) : table.slots[k].fd = f
    BY <2>1 DEF Roster
  <2>4. {j \in 1..table.fd_array_size : table.slots[j].fd = f} = {k}
    BY <2>1, <2>2, <2>3 DEF Roster, Slots
  <2>5. Cardinality({k}) = 1
    BY FS_Singleton
  <2> QED
    BY <2>1, <2>4, <2>5 DEF Roster
<1> QED
  BY <1>1, MessagesAlways, PTL

(* Every variable of the two has its type, for any constants: the table of *)
(* listener_add_fd() and listener_remove_fd() (Listener.cpp:42-109) and    *)
(* what Sipc.cpp keeps of servers and clients.                             *)
THEOREM IpcTypes == IpcSpec => []IpcTypeOK
<1> DEFINE AboutOK == about \in {"names", "messages"}
<1>1. IpcInit => AboutOK
  BY DEF IpcInit
<1>2. AboutOK /\ [IpcNext]_ipcVars => AboutOK'
  BY DEF IpcNext, MessagesStep, NamesStep, ipcVars
<1>3. NamesInit => NamesInv
  BY NamesInitially
<1>4. NamesInv /\ [NamesNext]_namesVars => NamesInv'
  BY NamesStepKeeps
<1>5. IpcSpec => NamesSpec
  BY IpcIsNames, PTL DEF IpcSpec
<1>6. AboutOK /\ MessagesInv /\ NamesInv => IpcTypeOK
  BY DEF MessagesInv, NamesInv, IpcTypeOK
<1>7. IpcSpec => []AboutOK
  BY <1>1, <1>2, PTL DEF IpcSpec
<1>8. IpcSpec => []NamesInv
  BY <1>3, <1>4, <1>5, PTL DEF NamesSpec
<1> QED
  BY <1>6, <1>7, <1>8, MessagesAlways, PTL
===============================================================================
