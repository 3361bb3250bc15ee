------------------------------- MODULE Listener -------------------------------
(***************************************************************************)
(* Listener.cpp: the table of monitored descriptors and listener_wait(),   *)
(* whose callbacks add and remove descriptors while it walks the table.    *)
(***************************************************************************)
EXTENDS Integers, Sequences, FiniteSetsExt, Selection

CONSTANTS
  Fds,        \* descriptor numbers, of which 0 is none
  Events,     \* LISTENER_READ and the others
  Callbacks,
  Junk,       \* what uninitialised memory has in place of a callback
  Litter      \* descriptors that uninitialised memory may look like (a bound)

VARIABLES
  table,  \* fd_array, fd_array_size, nfds, maxfd and fdsets
  fdtmp,  \* what select() has left of fdsets
  i       \* the slot whose callback listener_wait() is in, 0 if in select()

listener == <<table, fdtmp, i>>

Slot   == [fd : Fds \cup {0}, events : SUBSET Events, cb : Callbacks \cup {Junk}]
Blank  == [fd |-> 0, events |-> {}, cb |-> Junk]
NoSets == [e \in Events |-> {}]

(* New memory is blank or has left something that looks like a descriptor. *)
Fresh == {Blank} \cup [fd : Litter, events : {Events}, cb : {Junk}]

(* slots has the length of the memory, of which fd_array_size are looked at.*)
Empty == [slots |-> <<>>, fd_array_size |-> 0, nfds |-> 0, maxfd |-> 0, fdsets |-> NoSets]

(* Mutant: maxfd counts the slots that move only.                          *)
MaxFdOfMoved(t, kept) ==
  Max({-1} \cup {t.slots[k].fd : k \in {n \in kept : \E j \in 1..n : j \notin kept}})

MaxFd(t, kept) == Max({-1} \cup {t.slots[k].fd : k \in kept})

(* listener_remove_fd(): the slots that are kept move down.  What was in   *)
(* the slots that are no longer looked at stays there.                     *)
Removed(t, fd, when) ==
  LET looked == 1..t.fd_array_size
      kept   == {k \in looked : t.slots[k].fd = fd => ~(t.slots[k].events \subseteq when)}
      edited == [k \in DOMAIN t.slots |->
                   IF k \in kept /\ t.slots[k].fd = fd
                     THEN [t.slots[k] EXCEPT !.events = @ \ when] ELSE t.slots[k]]
      size   == Cardinality(kept)
  IN  [t EXCEPT
         !.slots  = AtPlaces(edited, kept) \o SubSeq(edited, size + 1, Len(@)),
         !.fd_array_size = size,
         !.maxfd  = MaxFd(t, kept),
         !.fdsets = [e \in Events |-> @[e] \ IF e \in when THEN {fd} ELSE {}]]

(* Mutant: the size is kept though realloc() fails.                        *)
ResizedNot(t, size) == {[t EXCEPT !.fd_array_size = size]}

Resized(t, size) ==
  {[t EXCEPT !.fd_array_size = size,
             !.slots = SubSeq(@ \o [k \in 1..size |-> new], 1, size)] : new \in Fresh}

(* The array doubles (and adds one) when nfds has reached its size, which  *)
(* listener_remove_fd() has lowered: the memory may shrink, too.           *)
Grown(t) ==
  IF t.nfds >= t.fd_array_size THEN Resized(t, 2 * t.fd_array_size + 1) ELSE {t}

(* Mutant: maxfd is left to listener_remove_fd().                          *)
PutLow(t, fd, when, cb) ==
  [t EXCEPT
     !.slots  = IF t.nfds < Len(@)
                  THEN [@ EXCEPT ![t.nfds + 1] = [fd |-> fd, events |-> when, cb |-> cb]]
                  ELSE @,
     !.nfds   = @ + 1,
     !.fdsets = [e \in Events |-> @[e] \cup IF e \in when THEN {fd} ELSE {}]]

(* The slot is number nfds, which is never lowered.  A slot beyond the     *)
(* array is not kept (see Strays).                                         *)
Put(t, fd, when, cb) ==
  [t EXCEPT
     !.slots  = IF t.nfds < Len(@)
                  THEN [@ EXCEPT ![t.nfds + 1] = [fd |-> fd, events |-> when, cb |-> cb]]
                  ELSE @,
     !.nfds   = @ + 1,
     !.maxfd  = Max({@, fd}),
     !.fdsets = [e \in Events |-> @[e] \cup IF e \in when THEN {fd} ELSE {}]]

(* listener_add_fd(): the tables it may leave.                             *)
Added(t, fd, when, cb) ==
  {Put(g, fd, when, cb) : g \in UNION {Grown(r) : r \in {Removed(t, fd, when)}}}

(* A slot that nobody has filled looks like a descriptor.                  *)
Littered(t) == \E k \in DOMAIN t.slots : t.slots[k].cb = Junk /\ t.slots[k].fd # 0

(* The slot lies beyond the array that was made for it.                    *)
Strays(t) == t.nfds > t.fd_array_size

Ready(s, sets) == \E e \in s.events : s.fd \in sets[e]

(* The loop of listener_wait() over table t, from slot k on: it stops at   *)
(* the next slot whose callback is due, or is left.                        *)
GoesOn(t, sets, k) ==
  LET due == {n \in k..t.fd_array_size : Ready(t.slots[n], sets)}
  IN  /\ table' = t
      /\ i' = IF due = {} THEN 0 ELSE Min(due)
      /\ fdtmp' = IF due = {} THEN NoSets ELSE sets

(* listener_wait(): select(), with ready[e] the descriptors that are ready.*)
Select(ready) ==
  /\ i = 0
  /\ \E sets \in {[e \in Events |-> {f \in table.fdsets[e] \cap ready[e] : f <= table.maxfd}]} :
       GoesOn(table, sets, 1)

Here == table.slots[i]

(* A callback is due, and the callback has left the table as t.            *)
Calls(cb)   == i # 0 /\ Here.cb = cb
Returned(t) == \E left \in {t} : GoesOn(left, fdtmp, i + 1)
===============================================================================
