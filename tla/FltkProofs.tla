------------------------------ MODULE FltkProofs -------------------------------
(***************************************************************************)
(* What a program in Fl::wait() can rely on, for any number of directories,*)
(* connections, windows, widgets, icons and themes: reports are due, who   *)
(* listens on a bus is called, and the display follows the themes and the  *)
(* settings.  A part that does not run keeps its state, so that what a     *)
(* step of one part keeps, every step of the program keeps.                *)
(***************************************************************************)
EXTENDS Fltk, DataTheorems
-------------------------------------------------------------------------------
(* Directory watch: the types.                                             *)

(* The first of the calls is one of them.                                  *)
LEMMA FirstIsCall ==
  ASSUME NEW hits \in SUBSET (Nat \X Nat), hits # {}
  PROVE  FirstOf(hits) \in hits /\ \A q \in hits \ {FirstOf(hits)} : Earlier(FirstOf(hits), q)
<1> DEFINE Xs == {p[1] : p \in hits}
           x  == Min(Xs)
           Ys == {p[2] : p \in {q \in hits : q[1] = x}}
           y  == Min(Ys)
<1>1. Xs \in SUBSET Nat /\ Xs # {}
  OBVIOUS
<1>2. x \in Xs /\ \A z \in Xs : x <= z
  BY <1>1, MinOf
<1> HIDE DEF x
<1>3. Ys \in SUBSET Nat /\ Ys # {}
  BY <1>2
<1>4. y \in Ys /\ \A z \in Ys : y <= z
  BY <1>3, MinOf
<1> HIDE DEF y
<1>5. PICK p \in hits : p[1] = x /\ p[2] = y
  BY <1>4
<1>6. ASSUME NEW q \in hits \ {p} PROVE Earlier(p, q)
  <2>1. /\ q[1] \in Nat /\ q[2] \in Nat /\ p[1] \in Nat /\ p[2] \in Nat /\ q = <<q[1], q[2]>>
        /\ p = <<p[1], p[2]>>
    OBVIOUS
  <2>2. p[1] <= q[1] /\ (q[1] = p[1] => p[2] <= q[2])
    BY <1>2, <1>4, <1>5
  <2>3. q[1] # p[1] \/ q[2] # p[2]
    BY <1>6, <2>1
  <2> QED
    BY <2>1, <2>2, <2>3 DEF Earlier
<1> QED
  BY <1>5, <1>6 DEF FirstOf

LEMMA DirNumbers ==
  ASSUME DirTypeOK
  PROVE  /\ added \in Nat /\ happened \in Nat /\ added <= MaxEntries /\ happened <= MaxChanges
         /\ Len(entries) \in Nat /\ DOMAIN entries = 1..Len(entries)
         /\ \A j \in DOMAIN entries :
              /\ entries[j] \in Entry /\ entries[j].name \in Names /\ entries[j].flags \in Asked
              /\ entries[j].reg \in 1..MaxEntries /\ entries[j].dir_fd \in 1..MaxEntries
              /\ entries[j].reg \in Nat
<1>1. added \in Nat /\ happened \in Nat /\ added <= MaxEntries /\ happened <= MaxChanges
  BY DirAssumption DEF DirTypeOK
<1>2. entries \in Seq(Entry)
  BY DEF DirTypeOK
<1>3. \A e \in Entry : /\ e.name \in Names /\ e.flags \in Asked /\ e.reg \in 1..MaxEntries
                       /\ e.dir_fd \in 1..MaxEntries /\ e.reg \in Nat
  BY DirAssumption DEF Entry
<1> QED
  BY <1>1, <1>2, <1>3

LEMMA EventNumbers ==
  ASSUME NEW e \in Event
  PROVE  e.id \in 1..MaxEntries /\ e.id \in Nat /\ e.change \in 0..MaxChanges /\ e.change \in Nat
<1>1. e.id \in 1..MaxEntries /\ e.change \in 0..MaxChanges
  BY DEF Event
<1> QED
  BY <1>1, DirAssumption

(* An event that is not the end of a watch is that of a change.            *)
Numbered(events) == \A x \in DOMAIN events : events[x].mask # Ended => events[x].change # 0

EventsNumbered == Numbered(waiting) /\ Numbered(buff)

(* The rest of a sequence, from some place.                                *)
LEMMA Rests ==
  ASSUME NEW S, NEW s \in Seq(S), NEW x \in 1..(Len(s) + 1)
  PROVE  /\ SubSeq(s, x, Len(s)) \in Seq(S) /\ DOMAIN SubSeq(s, x, Len(s)) = 1..(Len(s) - x + 1)
         /\ \A y \in 1..(Len(s) - x + 1) : SubSeq(s, x, Len(s))[y] = s[x + y - 1] /\ x + y - 1 \in DOMAIN s
OBVIOUS

(* A sequence without one of its elements.                                 *)
LEMMA WithoutOne ==
  ASSUME NEW S, NEW s \in Seq(S), NEW j \in DOMAIN s
  PROVE  /\ Without(s, j) \in Seq(S) /\ DOMAIN Without(s, j) = 1..(Len(s) - 1)
         /\ \A k \in 1..(Len(s) - 1) : Without(s, j)[k] = IF k < j THEN s[k] ELSE s[k + 1]
<1>1. PICK a, b : a = SubSeq(s, 1, j - 1) /\ b = SubSeq(s, j + 1, Len(s))
  OBVIOUS
<1>2. /\ a \in Seq(S) /\ Len(a) = j - 1 /\ \A k \in 1..(j - 1) : a[k] = s[k]
      /\ b \in Seq(S) /\ Len(b) = Len(s) - j /\ \A k \in 1..(Len(s) - j) : b[k] = s[j + k]
  BY <1>1
<1>3. PICK c : c = Without(s, j)
  OBVIOUS
<1>4. c = a \o b
  BY <1>1, <1>3 DEF Without
<1>5. PICK n \in Nat : n = Len(s) /\ j \in 1..n
  OBVIOUS
<1>6. /\ c \in Seq(S) /\ DOMAIN c = 1..(n - 1) /\ \A k \in 1..(j - 1) : c[k] = a[k]
      /\ \A k \in 1..(n - j) : c[(j - 1) + k] = b[k]
  <2>1. c \in Seq(S) /\ Len(c) = Len(a) + Len(b) /\ \A k \in 1..Len(a) : c[k] = a[k]
    BY ONLY ZenonT(30), <1>2, <1>4, Places
  <2>2. \A k \in 1..Len(b) : c[Len(a) + k] = b[k]
    BY ONLY SMTT(20), <1>2, <1>4, Places
  <2>3. DOMAIN c = 1..(n - 1)
    BY <1>2, <1>5, <2>1
  <2> QED
    BY <1>2, <1>5, <2>1, <2>2, <2>3
<1>7. ASSUME NEW k \in 1..(n - 1) PROVE c[k] = IF k < j THEN s[k] ELSE s[k + 1]
  <2>1. CASE k < j
    <3>1. k \in 1..(j - 1)
      BY ONLY <1>5, <2>1
    <3> QED
      BY ONLY <1>2, <1>6, <2>1, <3>1
  <2>2. CASE ~(k < j)
    <3>1. k - (j - 1) \in 1..(n - j) /\ (j - 1) + (k - (j - 1)) = k /\ j + (k - (j - 1)) = k + 1
      BY <1>5, <2>2
    <3>2. c[k] = b[k - (j - 1)] /\ b[k - (j - 1)] = s[k + 1]
      BY <1>2, <1>5, <1>6, <3>1
    <3> QED
      BY <2>2, <3>2
  <2> QED
    BY <2>1, <2>2
<1> QED
  BY ONLY <1>3, <1>5, <1>6, <1>7

(* How the loop over events and entries goes on.                           *)
LEMMA ScanCases ==
  ASSUME DirTypeOK, NEW events \in Seq(Event), NEW k, Scan(events, k)
  PROVE  \/ Done /\ buff' = <<>>
         \/ \E x \in DOMAIN events, j \in DOMAIN entries :
              /\ entries[j].dir_fd = events[x].id /\ Report(events[x].mask) # "NONE" /\ (x = 1 => j > k)
              /\ Call(events[x], j) /\ buff' = SubSeq(events, x, Len(events))
<1> DEFINE hits == {p \in (DOMAIN events) \X (DOMAIN entries) :
                       /\ entries[p[2]].dir_fd = events[p[1]].id
                       /\ Report(events[p[1]].mask) # "NONE"
                       /\ p[1] = 1 => p[2] > k}
<1>1. hits \in SUBSET (Nat \X Nat)
  BY DEF DirTypeOK
<1>2. CASE hits = {}
  BY <1>2 DEF Scan
<1>3. CASE hits # {}
  <2>1. Call(events[FirstOf(hits)[1]], FirstOf(hits)[2])
        /\ buff' = SubSeq(events, FirstOf(hits)[1], Len(events))
    BY <1>3 DEF Scan
  <2>2. FirstOf(hits) \in hits
    BY <1>1, <1>3, FirstIsCall
  <2> HIDE DEF hits
  <2>3. PICK p : p = FirstOf(hits)
    OBVIOUS
  <2>4. p \in hits /\ Call(events[p[1]], p[2]) /\ buff' = SubSeq(events, p[1], Len(events))
    BY <2>1, <2>2, <2>3
  <2>5. /\ p[1] \in DOMAIN events /\ p[2] \in DOMAIN entries /\ entries[p[2]].dir_fd = events[p[1]].id
        /\ Report(events[p[1]].mask) # "NONE" /\ (p[1] = 1 => p[2] > k)
    BY <2>4 DEF hits
  <2> QED
    BY <2>4, <2>5
<1> QED
  BY <1>2, <1>3

(* How FAM's events are gone through.                                      *)
LEMMA DrainCases ==
  ASSUME DirTypeOK, FamDrain
  PROVE  \/ Done /\ waiting' = <<>>
         \/ \E x \in DOMAIN waiting :
              /\ ~Skipped(waiting[x]) /\ waiting' = SubSeq(waiting, x + 1, Len(waiting))
              /\ \/ where' = "dead" /\ UNCHANGED <<at, reported>>
                 \/ \E j \in For(waiting[x]) : Call(waiting[x], j)
<1> DEFINE hits == {x \in DOMAIN waiting : ~Skipped(waiting[x])}
           First == CHOOSE x \in hits : \A y \in hits : x <= y
<1>1. hits \in SUBSET Nat
  BY DEF DirTypeOK
<1>2. CASE hits = {}
  BY <1>2 DEF FamDrain
<1>3. CASE hits # {}
  <2>1. First \in hits
    BY <1>1, <1>3, Smallest
  <2>2. /\ waiting' = SubSeq(waiting, First + 1, Len(waiting))
        /\ IF For(waiting[First]) = {} THEN where' = "dead" /\ UNCHANGED <<at, reported>>
           ELSE Call(waiting[First], CHOOSE j \in For(waiting[First]) : TRUE)
    BY <1>3 DEF FamDrain
  <2> HIDE DEF First
  <2> QED
    BY <2>1, <2>2
<1> QED
  BY <1>2, <1>3

(* A call is typed.                                                        *)
LEMMA CallTyped ==
  ASSUME DirTypeOK, NEW e \in Event, e.change # 0, NEW j \in DOMAIN entries, Call(e, j)
  PROVE  /\ at' \in 0..MaxEntries /\ where' \in {"loop", "callback", "off", "dead"}
         /\ reported' \in SUBSET ((1..MaxEntries) \X (1..MaxChanges))
<1>1. e.change \in 0..MaxChanges /\ e.change \in Nat
  BY EventNumbers
<1>2. entries[j].reg \in 1..MaxEntries /\ e.change \in 1..MaxChanges
  BY <1>1, DirNumbers, DirAssumption
<1>3. entries[j].reg \in 0..MaxEntries
  BY <1>2
<1> QED
  BY <1>2, <1>3 DEF Call, DirTypeOK

LEMMA ScanTyped ==
  ASSUME DirTypeOK, NEW events \in Seq(Event), Numbered(events), NEW k, Scan(events, k)
  PROVE  /\ buff' \in Seq(Event) /\ Numbered(buff')
         /\ at' \in 0..MaxEntries /\ where' \in {"loop", "callback", "off", "dead"}
         /\ reported' \in SUBSET ((1..MaxEntries) \X (1..MaxChanges))
<1>1. CASE Done /\ buff' = <<>>
  <2>1. 0 \in 0..MaxEntries
    BY DirAssumption
  <2> QED
    BY <1>1, <2>1 DEF Done, DirTypeOK, Numbered
<1>2. ASSUME NEW x \in DOMAIN events, NEW j \in DOMAIN entries, Report(events[x].mask) # "NONE",
             Call(events[x], j), buff' = SubSeq(events, x, Len(events))
      PROVE  /\ buff' \in Seq(Event) /\ Numbered(buff')
             /\ at' \in 0..MaxEntries /\ where' \in {"loop", "callback", "off", "dead"}
             /\ reported' \in SUBSET ((1..MaxEntries) \X (1..MaxChanges))
  <2>1. events[x] \in Event /\ events[x].change # 0
    BY <1>2 DEF Numbered, Report, Ended
  <2>2. buff' \in Seq(Event) /\ \A y \in DOMAIN buff' : \E z \in DOMAIN events : buff'[y] = events[z]
    BY <1>2, Rests
  <2>3. Numbered(buff')
    BY <2>2 DEF Numbered
  <2> QED
    BY <1>2, <2>1, <2>2, <2>3, CallTyped
<1> QED
  BY <1>1, <1>2, ScanCases

LEMMA DrainTyped ==
  ASSUME DirTypeOK, EventsNumbered, FamDrain
  PROVE  /\ waiting' \in Seq(Event) /\ Numbered(waiting')
         /\ at' \in 0..MaxEntries /\ where' \in {"loop", "callback", "off", "dead"}
         /\ reported' \in SUBSET ((1..MaxEntries) \X (1..MaxChanges))
<1>0. waiting \in Seq(Event) /\ Numbered(waiting)
  BY DEF DirTypeOK, EventsNumbered
<1>1. CASE Done /\ waiting' = <<>>
  <2>1. 0 \in 0..MaxEntries
    BY DirAssumption
  <2> QED
    BY <1>1, <2>1 DEF Done, DirTypeOK, Numbered
<1>2. ASSUME NEW x \in DOMAIN waiting, ~Skipped(waiting[x]), waiting' = SubSeq(waiting, x + 1, Len(waiting)),
             \/ where' = "dead" /\ UNCHANGED <<at, reported>>
             \/ \E j \in For(waiting[x]) : Call(waiting[x], j)
      PROVE  /\ waiting' \in Seq(Event) /\ Numbered(waiting')
             /\ at' \in 0..MaxEntries /\ where' \in {"loop", "callback", "off", "dead"}
             /\ reported' \in SUBSET ((1..MaxEntries) \X (1..MaxChanges))
  <2>1. waiting[x] \in Event /\ waiting[x].change # 0
    BY <1>0, <1>2 DEF Numbered, Skipped
  <2>2. waiting' \in Seq(Event) /\ \A y \in DOMAIN waiting' : \E z \in DOMAIN waiting : waiting'[y] = waiting[z]
    <3>1. x + 1 \in 1..(Len(waiting) + 1)
      BY <1>0
    <3> QED
      BY <1>0, <1>2, <3>1, Rests
  <2>3. Numbered(waiting')
    BY <1>0, <2>2 DEF Numbered
  <2>4. /\ at' \in 0..MaxEntries /\ where' \in {"loop", "callback", "off", "dead"}
        /\ reported' \in SUBSET ((1..MaxEntries) \X (1..MaxChanges))
    <3>1. CASE where' = "dead" /\ UNCHANGED <<at, reported>>
      BY <3>1 DEF DirTypeOK
    <3>2. ASSUME NEW j \in For(waiting[x]), Call(waiting[x], j)
          PROVE  /\ at' \in 0..MaxEntries /\ where' \in {"loop", "callback", "off", "dead"}
                 /\ reported' \in SUBSET ((1..MaxEntries) \X (1..MaxChanges))
      <4>1. j \in DOMAIN entries
        BY DEF For
      <4> QED
        BY <2>1, <3>2, <4>1, CallTyped
    <3> QED
      BY <1>2, <3>1, <3>2
  <2> QED
    BY <2>2, <2>3, <2>4
<1> QED
  BY <1>0, <1>1, <1>2, DrainCases

(* What happens in a directory, as events of the watches that are told.    *)
Extended(all, some, more) == all = some \o more

Told(d, mask, n, more) ==
  /\ Extended(waiting', waiting, more) /\ DOMAIN more = 1..n
  /\ \A x \in 1..n : /\ more[x].mask = mask /\ more[x].change = happened + 1
                     /\ \E w \in watches : w.id = more[x].id /\ w.dir = d /\ mask \in w.mask
  /\ \A x, y \in 1..n : x # y => more[x].id # more[y].id

LEMMA ChangeCases ==
  ASSUME DirTypeOK, NEW d \in Dirs, NEW mask \in Changes, Change(d, mask)
  PROVE  \E n \in Nat, more \in Seq(Event) : Told(d, mask, n, more)
<1>1. PICK told : told = {w.id : w \in {v \in watches : v.dir = d /\ mask \in v.mask}}
  OBVIOUS
<1>2. happened' = happened + 1 /\ happened + 1 \in 1..MaxChanges /\ happened + 1 \in 0..MaxChanges
  BY DirNumbers, DirAssumption DEF Change
<1>3. PICK order \in [1..Cardinality(told) -> told] :
        /\ \A x, y \in DOMAIN order : x # y => order[x] # order[y]
        /\ waiting' = waiting \o
             [x \in DOMAIN order |-> [id |-> order[x], mask |-> mask, change |-> happened']]
  BY <1>1 DEF Change
<1>4. told \in SUBSET (1..MaxEntries)
  BY <1>1 DEF DirTypeOK, Watch
<1>5. PICK n \in Nat : n = Cardinality(told)
  <2>1. IsFiniteSet(told)
    <3>1. IsFiniteSet(1..MaxEntries)
      BY DirAssumption, FS_Interval
    <3> QED
      BY <1>4, <3>1, FS_Subset
  <2> QED
    BY <2>1, FS_CardinalityType
<1>6. PICK more : more = [x \in 1..n |-> [id |-> order[x], mask |-> mask, change |-> happened + 1]]
  OBVIOUS
<1>7. waiting' = waiting \o more
  BY <1>2, <1>3, <1>5, <1>6
<1>8. ASSUME NEW x \in 1..n
      PROVE  /\ order[x] \in told
             /\ more[x].id = order[x] /\ more[x].mask = mask /\ more[x].change = happened + 1
             /\ more[x] \in Event
  <2>1. more[x] = [id |-> order[x], mask |-> mask, change |-> happened + 1]
    BY <1>6
  <2>2. order[x] \in told
    BY <1>3, <1>5
  <2>3. order[x] \in 1..MaxEntries
    BY <1>4, <2>2
  <2>4. more[x] \in Event
    BY <1>2, <2>1, <2>3 DEF Event
  <2> QED
    BY <2>1, <2>2, <2>4
<1>9. \A x \in 1..n : more[x] \in Event
  BY <1>8
<1>10. more \in Seq(Event) /\ DOMAIN more = 1..n
  BY <1>6, <1>9
<1>11. \A x \in 1..n : /\ more[x].mask = mask /\ more[x].change = happened + 1
                       /\ \E w \in watches : w.id = more[x].id /\ w.dir = d /\ mask \in w.mask
  <2>1. \A y \in told : \E w \in watches : w.id = y /\ w.dir = d /\ mask \in w.mask
    BY <1>1
  <2> QED
    BY <1>8, <2>1
<1>12. \A x, y \in 1..n : x # y => more[x].id # more[y].id
  <2>1. \A x \in 1..n : more[x].id = order[x]
    BY <1>8
  <2>2. DOMAIN order = 1..n
    BY <1>3, <1>5
  <2> QED
    BY <1>3, <2>1, <2>2
<1>13. Extended(waiting', waiting, more)
  BY <1>7 DEF Extended
<1>14. Told(d, mask, n, more)
  BY <1>10, <1>11, <1>12, <1>13 DEF Told
<1> QED
  BY ONLY <1>5, <1>10, <1>14

TypedNow == DirTypeOK /\ EventsNumbered

LEMMA AddTyped ==
  ASSUME TypedNow, NEW n \in Names, NEW flags \in Asked, AddDir(n, flags)
  PROVE  TypedNow'
<1>1. added + 1 \in 1..MaxEntries /\ added + 1 \in 0..MaxEntries /\ DirTypeOK /\ DirOf[n] \in Dirs
  BY DirNumbers, DirAssumption DEF AddDir, TypedNow
<1>2. PICK w :
        /\ w = [id |-> IF OldWatch(n) = {} THEN added + 1 ELSE (CHOOSE o \in OldWatch(n) : TRUE).id,
                dir |-> DirOf[n], mask |-> IF inotify THEN Mask(flags) ELSE Changes]
        /\ watches' = (watches \ OldWatch(n)) \cup {w}
        /\ entries' = Append(entries, [name |-> n, dir_fd |-> w.id, flags |-> flags, reg |-> added + 1])
  BY DEF AddDir
<1>3. w \in Watch
  <2>1. \A o \in OldWatch(n) : o.id \in 1..MaxEntries
    BY <1>1 DEF OldWatch, DirTypeOK, Watch
  <2>2. OldWatch(n) # {} => (CHOOSE o \in OldWatch(n) : TRUE).id \in 1..MaxEntries
    BY <2>1
  <2>3. Mask(flags) \in SUBSET Changes
    BY DEF Mask
  <2> QED
    BY <1>1, <1>2, <2>2, <2>3 DEF Watch
<1>4. [name |-> n, dir_fd |-> w.id, flags |-> flags, reg |-> added + 1] \in Entry
  BY <1>1, <1>3 DEF Entry, Watch
<1>5. entries' \in Seq(Entry)
  BY <1>1, <1>2, <1>4 DEF DirTypeOK
<1>6. watches' \in SUBSET Watch
  BY <1>1, <1>2, <1>3 DEF DirTypeOK
<1>7. /\ added' \in 0..MaxEntries /\ mixed' \in BOOLEAN
      /\ UNCHANGED <<backend, callback, waiting, buff, at, where, happened, due, reported>>
  <2>1. mixed \in BOOLEAN
    BY <1>1 DEF DirTypeOK
  <2> QED
    BY <1>1, <2>1 DEF AddDir, Mixed
<1>8. DirTypeOK'
  BY <1>1, <1>5, <1>6, <1>7 DEF DirTypeOK
<1> QED
  BY <1>7, <1>8 DEF TypedNow, EventsNumbered

(* The entry that is removed, and the rest.                                *)
LEMMA RemovedEntry ==
  ASSUME DirTypeOK, NEW n \in Names, Known(n)
  PROVE  /\ IndexOf(n) \in DOMAIN entries /\ entries[IndexOf(n)] \in Entry
         /\ Without(entries, IndexOf(n)) \in Seq(Entry)
<1>1. IndexOf(n) \in DOMAIN entries
  BY DEF IndexOf, Known
<1> QED
  BY <1>1, WithoutOne DEF DirTypeOK

LEMMA RemoveTyped ==
  ASSUME TypedNow, NEW n \in Names, RemoveDir(n)
  PROVE  TypedNow'
<1>1. DirTypeOK /\ Known(n)
  BY DEF TypedNow, RemoveDir
<1>2. PICK e \in Entry :
        /\ e = entries[IndexOf(n)] /\ watches' = {w \in watches : w.id # e.dir_fd}
        /\ waiting' = IF watches' = watches THEN waiting
                      ELSE Append(waiting, [id |-> e.dir_fd, mask |-> Ended, change |-> 0])
  BY <1>1, RemovedEntry DEF RemoveDir
<1>3. PICK ev : ev = [id |-> e.dir_fd, mask |-> Ended, change |-> 0]
  OBVIOUS
<1>4. ev \in Event /\ ev.mask = Ended
  BY <1>3, DirAssumption DEF Event, Entry
<1>5. waiting \in Seq(Event) /\ Append(waiting, ev) \in Seq(Event)
  BY <1>1, <1>4 DEF DirTypeOK
<1>6. waiting' \in Seq(Event) /\ \A x \in DOMAIN waiting' : waiting'[x] = ev \/ \E y \in DOMAIN waiting : waiting'[x] = waiting[y]
  BY <1>2, <1>3, <1>4, <1>5
<1>7. /\ entries' = Without(entries, IndexOf(n))
      /\ UNCHANGED <<backend, callback, buff, at, where, historyVars>>
  BY DEF RemoveDir
<1>8. entries' \in Seq(Entry) /\ watches' \in SUBSET Watch
  BY <1>1, <1>2, <1>7, RemovedEntry DEF DirTypeOK
<1>9. DirTypeOK'
  BY <1>1, <1>6, <1>7, <1>8 DEF DirTypeOK, historyVars
<1>10. Numbered(waiting')
  BY <1>4, <1>6 DEF Numbered, TypedNow, EventsNumbered
<1> QED
  BY <1>7, <1>9, <1>10 DEF TypedNow, EventsNumbered

LEMMA ChangeTyped ==
  ASSUME TypedNow, NEW d \in Dirs, NEW mask \in Changes, Change(d, mask)
  PROVE  TypedNow'
<1>1. DirTypeOK /\ Numbered(waiting) /\ waiting \in Seq(Event)
  BY DEF TypedNow, DirTypeOK, EventsNumbered
<1>0. PICK n \in Nat, more \in Seq(Event) : Told(d, mask, n, more)
  BY <1>1, ChangeCases
<1>2. /\ Extended(waiting', waiting, more) /\ DOMAIN more = 1..n
      /\ \A x \in 1..n : more[x].mask = mask /\ more[x].change = happened + 1
  BY <1>0 DEF Told
<1>3. PICK all : all = waiting' /\ all = waiting \o more
  BY <1>2 DEF Extended
<1>4. happened \in Nat /\ happened + 1 \in 1..MaxChanges /\ happened + 1 \in 0..MaxChanges
  BY <1>1, DirNumbers, DirAssumption DEF Change
<1>5. all \in Seq(Event)
  BY ONLY <1>1, <1>3, Places, more \in Seq(Event)
<1>6. \A x \in DOMAIN all : (\E y \in DOMAIN waiting : all[x] = waiting[y]) \/ (\E y \in DOMAIN more : all[x] = more[y])
  BY <1>1, <1>3
<1>7. Numbered(all)
  BY <1>1, <1>2, <1>4, <1>6 DEF Numbered
<1>8. due' \in SUBSET ((1..MaxEntries) \X (1..MaxChanges))
  BY SMTT(20), <1>1, <1>4, DirNumbers DEF Change, DirTypeOK
<1>9. DirTypeOK'
  BY <1>1, <1>2, <1>3, <1>4, <1>5, <1>8 DEF Change, DirTypeOK
<1> QED
  BY <1>2, <1>3, <1>7, <1>9 DEF TypedNow, EventsNumbered, Change

LEMMA CallbackTyped == TypedNow /\ WatchCallback => TypedNow'
<1> SUFFICES ASSUME TypedNow, WatchCallback PROVE TypedNow'
  OBVIOUS
<1>1. /\ DirTypeOK /\ waiting \in Seq(Event) /\ Numbered(waiting) /\ buff \in Seq(Event) /\ Numbered(buff)
      /\ EventsNumbered
  BY DEF TypedNow, EventsNumbered, DirTypeOK
<1>2. /\ 0 \in 0..MaxEntries /\ <<>> \in Seq(Event) /\ Numbered(<<>>)
      /\ Done => /\ at' \in 0..MaxEntries /\ where' \in {"loop", "callback", "off", "dead"}
                 /\ reported' \in SUBSET ((1..MaxEntries) \X (1..MaxChanges))
  <2>1. 0 \in 0..MaxEntries
    BY DirAssumption
  <2> QED
    BY <1>1, <2>1 DEF Done, DirTypeOK, Numbered
<1>3. \A events : Lost(events) => due' \in SUBSET ((1..MaxEntries) \X (1..MaxChanges))
  BY <1>1 DEF Lost, DirTypeOK
<1>4. CASE InotifyRead
  <2>1. waiting' = <<>> /\ UNCHANGED <<backend, entries, callback, watches, added, happened, mixed>>
    BY <1>4 DEF InotifyRead
  <2>2. /\ due' \in SUBSET ((1..MaxEntries) \X (1..MaxChanges))
        /\ at' \in 0..MaxEntries /\ where' \in {"loop", "callback", "off", "dead"}
        /\ reported' \in SUBSET ((1..MaxEntries) \X (1..MaxChanges))
        /\ buff' \in Seq(Event) /\ Numbered(buff')
    <3>1. CASE callback
      <4>1. Scan(waiting, 0) /\ UNCHANGED due
        BY <1>4, <3>1 DEF InotifyRead
      <4> QED
        BY <1>1, <4>1, ScanTyped DEF DirTypeOK
    <3>2. CASE ~callback
      BY <1>1, <1>2, <1>3, <1>4, <3>2 DEF InotifyRead
    <3> QED
      BY <3>1, <3>2
  <2>3. DirTypeOK'
    BY <1>1, <1>2, <2>1, <2>2 DEF DirTypeOK
  <2> QED
    BY <1>2, <2>1, <2>2, <2>3 DEF TypedNow, EventsNumbered
<1>5. CASE InotifyReturn \/ InotifyReturnFreed
  <2>1. /\ UNCHANGED <<backend, entries, callback, watches, waiting, added, happened, due>>
        /\ mixed' \in {mixed, TRUE}
    BY <1>5 DEF InotifyReturn, InotifyReturnFreed
  <2>2. /\ at' \in 0..MaxEntries /\ where' \in {"loop", "callback", "off", "dead"}
        /\ reported' \in SUBSET ((1..MaxEntries) \X (1..MaxChanges))
        /\ buff' \in Seq(Event) /\ Numbered(buff')
    <3>1. CASE where' = "dead" /\ UNCHANGED <<at, buff, reported>>
      BY <1>1, <3>1 DEF DirTypeOK
    <3>2. CASE \E k : Scan(buff, k)
      BY <1>1, <3>2, ScanTyped
    <3> QED
      BY <1>5, <3>1, <3>2 DEF InotifyReturn, InotifyReturnFreed
  <2>3. DirTypeOK'
    BY <1>1, <2>1, <2>2 DEF DirTypeOK
  <2> QED
    BY <1>1, <2>1, <2>2, <2>3 DEF TypedNow, EventsNumbered
<1>6. CASE FamRead \/ FamReturn
  <2>1. UNCHANGED <<backend, entries, callback, watches, buff, added, happened, mixed>>
    BY <1>6 DEF FamRead, FamReturn
  <2>2. /\ due' \in SUBSET ((1..MaxEntries) \X (1..MaxChanges))
        /\ at' \in 0..MaxEntries /\ where' \in {"loop", "callback", "off", "dead"}
        /\ reported' \in SUBSET ((1..MaxEntries) \X (1..MaxChanges))
        /\ waiting' \in Seq(Event) /\ Numbered(waiting')
    <3>1. CASE FamDrain /\ UNCHANGED due
      BY <1>1, <3>1, DrainTyped DEF DirTypeOK
    <3>2. CASE Done /\ Lost(waiting) /\ waiting' = <<>>
      BY <1>1, <1>2, <1>3, <3>2
    <3> QED
      BY <1>6, <3>1, <3>2 DEF FamRead, FamReturn
  <2>3. DirTypeOK'
    BY <1>1, <2>1, <2>2 DEF DirTypeOK
  <2> QED
    BY <1>1, <2>1, <2>2, <2>3 DEF TypedNow, EventsNumbered
<1> QED
  BY <1>4, <1>5, <1>6 DEF WatchCallback

LEMMA DirTyped == TypedNow /\ DirNext => TypedNow'
<1> SUFFICES ASSUME TypedNow, DirNext PROVE TypedNow'
  OBVIOUS
<1>1. CASE SetDirCallback
  BY <1>1 DEF SetDirCallback, TypedNow, DirTypeOK, EventsNumbered, Numbered, historyVars
<1>2. CASE Shutdown
  <2>1. /\ entries' = <<>> /\ watches' = {} /\ waiting' = <<>> /\ callback' = FALSE /\ where' = "off"
        /\ UNCHANGED <<backend, buff, at, added, happened, due, reported, mixed>>
    BY <1>2 DEF Shutdown, historyVars
  <2>2. entries' \in Seq(Entry) /\ waiting' \in Seq(Event) /\ Numbered(waiting')
    BY <2>1 DEF Numbered
  <2>3. DirTypeOK'
    BY <2>1, <2>2 DEF TypedNow, DirTypeOK
  <2> QED
    BY <2>1, <2>2, <2>3 DEF TypedNow, EventsNumbered
<1>3. CASE CalledFreed
  BY <1>3 DEF CalledFreed, TypedNow, DirTypeOK, EventsNumbered, Numbered, historyVars
<1> QED
  BY <1>1, <1>2, <1>3, AddTyped, RemoveTyped, ChangeTyped, CallbackTyped DEF DirNext, DirProgram
-------------------------------------------------------------------------------
(* Directory watch: what is reported is due.                               *)

(* While no two entries share a watch, each has its own.                   *)
WatchOf(e) == [id |-> e.reg, dir |-> DirOf[e.name], mask |-> IF inotify THEN Mask(e.flags) ELSE Changes]

EntriesWatched ==
  /\ \A j \in DOMAIN entries : entries[j].reg <= added /\ entries[j].dir_fd = entries[j].reg
  /\ \A j, k \in DOMAIN entries : entries[j].reg = entries[k].reg => j = k
  /\ watches = {WatchOf(entries[j]) : j \in DOMAIN entries}

(* An event is due to the entry it is for, if that is still there: the     *)
(* kernel selects what it tells, FAM tells everything.                     *)
DueEvent(e) ==
  /\ e.id <= added /\ e.change <= happened
  /\ e.mask # Ended =>
       \A j \in {k \in DOMAIN entries : entries[k].dir_fd = e.id} :
         /\ inotify => e.mask \in Mask(entries[j].flags)
         /\ e.mask \in Mask(entries[j].flags) => <<entries[j].reg, e.change>> \in due

(* Nothing that happened later was reported to the one it is for.          *)
Fresh(e) == e.mask # Ended => \A q \in reported : q[1] = e.id => q[2] < e.change

Precedes(e, f) == e.mask # Ended /\ f.mask # Ended /\ e.id = f.id => e.change < f.change

WaitingDue ==
  /\ \A x \in DOMAIN waiting : DueEvent(waiting[x]) /\ Fresh(waiting[x])
  /\ \A x, y \in DOMAIN waiting : x < y => Precedes(waiting[x], waiting[y])

(* The first of the events that were read is the one the loop stands on.   *)
BuffDue ==
  /\ \A x \in DOMAIN buff : DueEvent(buff[x]) /\ (x # 1 => Fresh(buff[x]))
  /\ \A x, y \in DOMAIN buff : x < y => Precedes(buff[x], buff[y])
  /\ \A x \in DOMAIN buff, y \in DOMAIN waiting : Precedes(buff[x], waiting[y])

LoopStands ==
  /\ ~inotify \/ where # "callback" => buff = <<>>
  /\ inotify /\ where = "callback" => buff # <<>> /\ at = buff[1].id

Faithful ==
  /\ EntriesWatched /\ WaitingDue /\ BuffDue /\ LoopStands
  /\ \A q \in reported : q[2] <= happened

DirInv == TypedNow /\ (~mixed => Faithful)

(* As ReportsAreDue has it.                                                *)
Reports ==
  \A p \in reported' \ reported :
    /\ p \in due /\ p[1] \in Regs
    /\ \A q \in reported : q[1] = p[1] => q[2] < p[2]

LEMMA DirInitially == DirInit => DirInv
<1> SUFFICES ASSUME DirInit PROVE DirInv
  OBVIOUS
<1> USE DirAssumption DEF DirInit
<1>1. TypedNow
  <2>1. 0 \in 0..MaxEntries /\ 0 \in 0..MaxChanges /\ <<>> \in Seq(Entry) /\ <<>> \in Seq(Event)
    OBVIOUS
  <2>2. DirTypeOK
    BY <2>1 DEF DirTypeOK
  <2> QED
    BY <2>2 DEF TypedNow, EventsNumbered, Numbered
<1>2. Faithful
  BY DEF Faithful, EntriesWatched, WaitingDue, BuffDue, LoopStands
<1> QED
  BY <1>1, <1>2 DEF DirInv

(* The notifier stays the same.                                            *)
LEMMA MasksStay ==
  ASSUME UNCHANGED backend
  PROVE  inotify' = inotify /\ \A f : Mask(f)' = Mask(f) /\ \A e : WatchOf(e)' = WatchOf(e)
<1>1. inotify' = inotify
  BY DEF inotify
<1>2. ASSUME NEW f PROVE Selects(f)' = Selects(f)
  BY <1>1 DEF Selects
<1>3. ASSUME NEW f PROVE Mask(f)' = Mask(f)
  BY <1>2 DEF Mask
<1>4. ASSUME NEW e PROVE WatchOf(e)' = WatchOf(e)
  BY <1>1, <1>3 DEF WatchOf
<1> QED
  BY <1>1, <1>3, <1>4

LEMMA AddFaithful ==
  ASSUME TypedNow, Faithful, ~mixed', NEW n \in Names, NEW flags \in Asked, AddDir(n, flags)
  PROVE  Faithful' /\ Reports
<1>1. /\ DirTypeOK /\ added \in Nat /\ DOMAIN entries = 1..Len(entries) /\ Len(entries) \in Nat
      /\ entries \in Seq(Entry)
  BY DirNumbers DEF TypedNow, DirTypeOK
<1>2. OldWatch(n) = {}
  <2>1. inotify => \A j \in DOMAIN entries : DirOf[entries[j].name] # DirOf[n]
    BY DEF AddDir, Mixed
  <2> QED
    BY <2>1 DEF OldWatch, Faithful, EntriesWatched, WatchOf
<1>3. PICK e : e = [name |-> n, dir_fd |-> added + 1, flags |-> flags, reg |-> added + 1]
  OBVIOUS
<1>4. /\ watches' = watches \cup {WatchOf(e)} /\ entries' = Append(entries, e) /\ added' = added + 1
      /\ UNCHANGED <<backend, callback, waiting, buff, at, where, happened, due, reported>>
  BY <1>2, <1>3 DEF AddDir, WatchOf
<1>5. /\ DOMAIN entries' = 1..(Len(entries) + 1) /\ entries'[Len(entries) + 1] = e
      /\ \A j \in DOMAIN entries : entries'[j] = entries[j]
      /\ \A j \in DOMAIN entries' : j = Len(entries) + 1 \/ j \in DOMAIN entries
      /\ DOMAIN entries \subseteq DOMAIN entries' /\ Len(entries) + 1 \in DOMAIN entries'
  BY <1>1, <1>4
<1>6. \A j \in DOMAIN entries : entries[j].reg \in Nat /\ entries[j].reg <= added /\ entries[j].dir_fd = entries[j].reg
  BY <1>1, DirNumbers DEF Faithful, EntriesWatched
<1>7. e.reg = added + 1 /\ e.dir_fd = added + 1
  BY <1>3
<1>8. EntriesWatched'
  <2>1. \A j \in DOMAIN entries' : entries'[j].reg <= added' /\ entries'[j].dir_fd = entries'[j].reg
    BY <1>1, <1>4, <1>5, <1>6, <1>7
  <2>2. ASSUME NEW j \in DOMAIN entries', NEW k \in DOMAIN entries', entries'[j].reg = entries'[k].reg PROVE j = k
    BY <1>1, <1>5, <1>6, <1>7, <2>2 DEF Faithful, EntriesWatched
  <2>3. \A f : WatchOf(f)' = WatchOf(f)
    BY <1>4, MasksStay
  <2>4. watches' = {WatchOf(entries'[j]) : j \in DOMAIN entries'}
    BY <1>4, <1>5 DEF Faithful, EntriesWatched
  <2>5. watches' = {WatchOf(entries[j])' : j \in DOMAIN entries'}
    BY <2>3, <2>4
  <2> QED
    BY <2>1, <2>2, <2>5 DEF EntriesWatched
<1>9. ASSUME NEW f \in Event, DueEvent(f) PROVE DueEvent(f)'
  <2>1. f.id \in Nat /\ f.id <= added /\ f.id # added + 1
    BY <1>1, <1>9, EventNumbers DEF DueEvent
  <2>2. \A j \in DOMAIN entries' : entries'[j].dir_fd = f.id => j \in DOMAIN entries /\ entries'[j] = entries[j]
    BY <1>5, <1>7, <2>1
  <2>3. inotify' = inotify /\ \A fl : Mask(fl)' = Mask(fl)
    BY <1>4, MasksStay
  <2> QED
    BY <1>1, <1>4, <1>9, <2>1, <2>2, <2>3 DEF DueEvent
<1>10. waiting \in Seq(Event) /\ buff \in Seq(Event)
  BY <1>1 DEF DirTypeOK
<1>11. WaitingDue'
  BY <1>4, <1>9, <1>10 DEF Faithful, WaitingDue, Fresh
<1>12. BuffDue'
  BY <1>4, <1>9, <1>10 DEF Faithful, BuffDue, Fresh
<1>13. LoopStands' /\ Reports /\ \A q \in reported' : q[2] <= happened'
  BY <1>4, MasksStay DEF Faithful, LoopStands, Reports
<1> QED
  BY <1>8, <1>11, <1>12, <1>13 DEF Faithful

(* The places of what remains when the element at i is removed.            *)
Shift(i, k) == IF k < i THEN k ELSE k + 1

LEMMA WithoutRest ==
  ASSUME NEW S, NEW s \in Seq(S), NEW i \in DOMAIN s, NEW t, t = Without(s, i)
  PROVE  /\ t \in Seq(S)
         /\ \A k \in DOMAIN t : Shift(i, k) \in DOMAIN s \ {i} /\ t[k] = s[Shift(i, k)]
         /\ \A j, k \in DOMAIN t : Shift(i, j) = Shift(i, k) => j = k
         /\ \A j \in DOMAIN s \ {i} : \E k \in DOMAIN t : Shift(i, k) = j
<1>1. PICK n \in Nat : DOMAIN s = 1..n /\ n = Len(s) /\ i \in 1..n
  OBVIOUS
<1>2. /\ t \in Seq(S) /\ DOMAIN t = 1..(n - 1)
      /\ \A k \in 1..(n - 1) : t[k] = IF k < i THEN s[k] ELSE s[k + 1]
  BY <1>1, WithoutOne
<1>3. \A k \in 1..(n - 1) : Shift(i, k) \in 1..n /\ Shift(i, k) # i /\ t[k] = s[Shift(i, k)]
  BY <1>1, <1>2 DEF Shift
<1>4. \A j, k \in 1..(n - 1) : Shift(i, j) = Shift(i, k) => j = k
  BY <1>1 DEF Shift
<1>5. ASSUME NEW j \in 1..n, j # i PROVE \E k \in 1..(n - 1) : Shift(i, k) = j
  <2>1. CASE j < i
    BY <1>1, <2>1 DEF Shift
  <2>2. CASE j > i
    <3>1. j - 1 \in 1..(n - 1) /\ Shift(i, j - 1) = j
      BY <1>1, <2>2 DEF Shift
    <3> QED
      BY <3>1
  <2> QED
    BY <1>1, <1>5, <2>1, <2>2
<1> QED
  BY <1>1, <1>2, <1>3, <1>4, <1>5

LEMMA RemoveFaithful ==
  ASSUME TypedNow, Faithful, NEW n \in Names, RemoveDir(n)
  PROVE  Faithful' /\ Reports
<1>1. DirTypeOK /\ Known(n) /\ entries \in Seq(Entry) /\ waiting \in Seq(Event) /\ buff \in Seq(Event)
  BY DEF TypedNow, RemoveDir, DirTypeOK
<1>2. PICK i \in DOMAIN entries : i = IndexOf(n)
  BY <1>1, RemovedEntry
<1>3. PICK ev : ev = [id |-> entries[i].dir_fd, mask |-> Ended, change |-> 0]
  OBVIOUS
<1>4. /\ watches' = {w \in watches : w.id # entries[i].dir_fd}
      /\ waiting' = waiting \/ waiting' = Append(waiting, ev)
      /\ entries' = Without(entries, i)
      /\ UNCHANGED <<backend, callback, buff, at, where, added, happened, due, reported, mixed>>
  BY <1>2, <1>3 DEF RemoveDir, historyVars
<1>5. /\ \A k \in DOMAIN entries' : Shift(i, k) \in DOMAIN entries \ {i} /\ entries'[k] = entries[Shift(i, k)]
      /\ \A j, k \in DOMAIN entries' : Shift(i, j) = Shift(i, k) => j = k
      /\ \A j \in DOMAIN entries \ {i} : \E k \in DOMAIN entries' : Shift(i, k) = j
  BY <1>1, <1>4, WithoutRest
<1>6. EntriesWatched
  BY DEF Faithful
<1>7. EntriesWatched'
  <2>1. \A j \in DOMAIN entries' : entries'[j].reg <= added' /\ entries'[j].dir_fd = entries'[j].reg
    BY <1>4, <1>5, <1>6 DEF EntriesWatched
  <2>2. \A j, k \in DOMAIN entries' : entries'[j].reg = entries'[k].reg => j = k
    BY <1>5, <1>6 DEF EntriesWatched
  <2>3. \A j \in DOMAIN entries : j # i => WatchOf(entries[j]).id # entries[i].dir_fd
    BY <1>6 DEF EntriesWatched, WatchOf
  <2>4. WatchOf(entries[i]).id = entries[i].dir_fd
    BY <1>6 DEF EntriesWatched, WatchOf
  <2>5. watches' = {WatchOf(entries[j]) : j \in DOMAIN entries \ {i}}
    BY <1>4, <1>6, <2>3, <2>4 DEF EntriesWatched
  <2>6. watches' = {WatchOf(entries'[k]) : k \in DOMAIN entries'}
    BY <1>5, <2>5
  <2>7. watches' = {WatchOf(entries[k])' : k \in DOMAIN entries'}
    BY <1>4, <2>6, MasksStay
  <2> QED
    BY <2>1, <2>2, <2>7 DEF EntriesWatched
<1>8. ASSUME NEW f, DueEvent(f) PROVE DueEvent(f)'
  <2>1. \A k \in DOMAIN entries' : \E j \in DOMAIN entries : entries'[k] = entries[j]
    BY <1>5
  <2> QED
    BY <1>4, <1>8, <2>1, MasksStay DEF DueEvent
<1>9. DueEvent(ev) /\ \A f : Fresh(ev) /\ Precedes(f, ev) /\ Precedes(ev, f)
  <2>1. ev.id <= added /\ ev.change <= happened /\ ev.mask = Ended
    BY <1>1, <1>3, <1>6, DirNumbers DEF EntriesWatched
  <2> QED
    BY <2>1 DEF DueEvent, Fresh, Precedes
<1>10. /\ \A x \in DOMAIN waiting' :
            waiting'[x] = ev \/ (x \in DOMAIN waiting /\ waiting'[x] = waiting[x])
       /\ \A x, y \in DOMAIN waiting' : x < y => waiting'[y] = ev \/ (y \in DOMAIN waiting /\ x \in DOMAIN waiting)
  <2>1. CASE waiting' = waiting
    BY <1>1, <2>1
  <2>2. CASE waiting' = Append(waiting, ev)
    <3>1. PICK m \in Nat : m = Len(waiting) /\ DOMAIN waiting = 1..m
      BY <1>1
    <3>2. DOMAIN waiting' = 1..(m + 1) /\ waiting'[m + 1] = ev /\ \A x \in 1..m : waiting'[x] = waiting[x]
      BY <1>1, <2>2, <3>1
    <3>3. \A x \in 1..(m + 1) : x = m + 1 \/ x \in 1..m
      BY <3>1
    <3> QED
      BY <3>1, <3>2, <3>3
  <2> QED
    BY <1>4, <2>1, <2>2
<1>11. WaitingDue'
  <2>1. \A f : Fresh(f)' = Fresh(f)
    BY <1>4 DEF Fresh
  <2>2. PICK all : all = waiting'
    OBVIOUS
  <2>3. \A x \in DOMAIN all : DueEvent(all[x])' /\ Fresh(all[x])'
    BY <1>8, <1>9, <1>10, <2>1, <2>2 DEF Faithful, WaitingDue
  <2>4. \A x, y \in DOMAIN all : x < y => Precedes(all[x], all[y])
    BY <1>9, <1>10, <2>2 DEF Faithful, WaitingDue
  <2> QED
    BY <2>2, <2>3, <2>4 DEF WaitingDue
<1>12. BuffDue'
  <2>1. \A f : Fresh(f)' = Fresh(f)
    BY <1>4 DEF Fresh
  <2>2. \A x \in DOMAIN buff, y \in DOMAIN waiting' : Precedes(buff[x], waiting'[y])
    BY <1>9, <1>10 DEF Faithful, BuffDue
  <2> QED
    BY <1>4, <1>8, <2>1, <2>2 DEF Faithful, BuffDue
<1>13. LoopStands' /\ Reports /\ \A q \in reported' : q[2] <= happened'
  BY <1>4, MasksStay DEF Faithful, LoopStands, Reports
<1> QED
  BY <1>7, <1>11, <1>12, <1>13 DEF Faithful

LEMMA ChangeFaithful ==
  ASSUME TypedNow, Faithful, NEW d \in Dirs, NEW mask \in Changes, Change(d, mask)
  PROVE  Faithful' /\ Reports
<1>1. DirTypeOK /\ waiting \in Seq(Event) /\ buff \in Seq(Event) /\ happened \in Nat
  BY DirNumbers DEF TypedNow, DirTypeOK
<1>0. PICK n \in Nat, more \in Seq(Event) : Told(d, mask, n, more)
  BY <1>1, ChangeCases
<1>2. /\ Extended(waiting', waiting, more) /\ DOMAIN more = 1..n
      /\ \A x \in 1..n : /\ more[x].mask = mask /\ more[x].change = happened + 1
                         /\ \E w \in watches : w.id = more[x].id /\ w.dir = d /\ mask \in w.mask
      /\ \A x, y \in 1..n : x # y => more[x].id # more[y].id
  BY <1>0 DEF Told
<1>3. /\ happened' = happened + 1
      /\ due' = due \cup
           {<<entries[j].reg, happened'>> :
              j \in {k \in DOMAIN entries : DirOf[entries[k].name] = d /\ mask \in Mask(entries[k].flags)}}
      /\ UNCHANGED <<backend, entries, callback, watches, buff, at, where, added, reported, mixed>>
  BY DEF Change
<1>4. EntriesWatched
  BY DEF Faithful
<1>5. EntriesWatched'
  BY <1>3, <1>4, MasksStay DEF EntriesWatched
<1>6. ASSUME NEW f \in Event, DueEvent(f) PROVE DueEvent(f)'
  <2>1. f.change <= happened + 1
    BY <1>1, <1>6, EventNumbers DEF DueEvent
  <2> QED
    BY <1>3, <1>6, <2>1, MasksStay DEF DueEvent
<1>7. ASSUME NEW x \in 1..n PROVE DueEvent(more[x])'
  <2>1. PICK i \in DOMAIN entries :
          /\ WatchOf(entries[i]).id = more[x].id /\ WatchOf(entries[i]).dir = d
          /\ mask \in WatchOf(entries[i]).mask
    BY <1>2, <1>4 DEF EntriesWatched
  <2>2. /\ entries[i].reg = more[x].id /\ DirOf[entries[i].name] = d
        /\ inotify => mask \in Mask(entries[i].flags)
    BY <2>1 DEF WatchOf
  <2>3. \A j \in DOMAIN entries : entries[j].dir_fd = more[x].id => j = i
    BY <1>4, <2>2 DEF EntriesWatched
  <2>4. mask \in Mask(entries[i].flags) => <<entries[i].reg, happened + 1>> \in due'
    BY <1>3, <2>2
  <2>5. more[x].id <= added /\ more[x].change = happened + 1 /\ more[x].mask = mask
    BY <1>2, <1>4, <2>2 DEF EntriesWatched
  <2>6. happened + 1 <= happened + 1
    BY <1>1
  <2> QED
    BY <1>3, <2>2, <2>3, <2>4, <2>5, <2>6, MasksStay DEF DueEvent
<1>8. ASSUME NEW f \in Event, f.change <= happened, NEW x \in 1..n PROVE Precedes(f, more[x])
  <2>1. f.change < happened + 1
    BY <1>1, <1>8, EventNumbers
  <2> QED
    BY <1>2, <2>1 DEF Precedes
<1>9. \A x \in 1..n : Fresh(more[x])
  <2>1. \A q \in reported : q[2] < happened + 1
    <3>1. \A q \in reported : q[2] \in Nat /\ q[2] <= happened
      BY <1>1, DirAssumption DEF Faithful, DirTypeOK
    <3> QED
      BY <1>1, <3>1
  <2> QED
    BY <1>2, <2>1 DEF Fresh
<1>10. PICK m \in Nat : m = Len(waiting) /\ DOMAIN waiting = 1..m
  BY <1>1
<1>11. PICK all : all = waiting' /\ all = waiting \o more
  BY <1>2 DEF Extended
<1>12. /\ DOMAIN all = 1..(m + n) /\ \A x \in 1..m : all[x] = waiting[x]
       /\ \A x \in 1..n : all[m + x] = more[x]
  BY <1>1, <1>2, <1>10, <1>11
<1>13. \A x \in DOMAIN all :
         \/ x \in 1..m /\ all[x] = waiting[x]
         \/ \E y \in 1..n : x = m + y /\ all[x] = more[y]
  <2> SUFFICES ASSUME NEW x \in 1..(m + n), x \notin 1..m PROVE \E y \in 1..n : x = m + y /\ all[x] = more[y]
    BY <1>12
  <2>1. x - m \in 1..n /\ x = m + (x - m)
    BY <1>10
  <2> QED
    BY <1>12, <2>1
<1>14. \A x \in 1..m : waiting[x] \in Event /\ DueEvent(waiting[x]) /\ waiting[x].change <= happened /\ Fresh(waiting[x])
  BY <1>1, <1>10 DEF Faithful, WaitingDue, DueEvent
<1>15. \A f : Fresh(f)' = Fresh(f)
  BY <1>3 DEF Fresh
<1>16. \A x \in DOMAIN all : DueEvent(all[x])' /\ Fresh(all[x])'
  BY <1>6, <1>7, <1>9, <1>13, <1>14, <1>15
<1>17. ASSUME NEW x \in DOMAIN all, NEW y \in DOMAIN all, x < y PROVE Precedes(all[x], all[y])
  <2>1. CASE y \in 1..m
    <3>1. x \in 1..m
      BY <1>12, <1>17, <2>1
    <3>2. Precedes(waiting[x], waiting[y])
      BY <1>10, <1>17, <2>1, <3>1 DEF Faithful, WaitingDue
    <3> QED
      BY <1>12, <2>1, <3>1, <3>2
  <2>2. ASSUME NEW v \in 1..n, y = m + v, all[y] = more[v] PROVE Precedes(all[x], all[y])
    <3>1. CASE x \in 1..m
      BY <1>8, <1>12, <1>14, <2>2, <3>1
    <3>2. ASSUME NEW u \in 1..n, x = m + u, all[x] = more[u] PROVE Precedes(all[x], all[y])
      <4>1. u # v
        BY <1>17, <2>2, <3>2, <1>10
      <4> QED
        BY <1>2, <2>2, <3>2, <4>1 DEF Precedes
    <3> QED
      BY <1>13, <3>1, <3>2
  <2> QED
    BY <1>13, <2>1, <2>2
<1>18. WaitingDue'
  BY <1>11, <1>16, <1>17 DEF WaitingDue
<1>19. \A x \in DOMAIN buff : buff[x] \in Event /\ DueEvent(buff[x]) /\ buff[x].change <= happened
  BY <1>1 DEF Faithful, BuffDue, DueEvent
<1>20. \A x \in DOMAIN buff, y \in DOMAIN all : Precedes(buff[x], all[y])
  BY <1>8, <1>10, <1>13, <1>19 DEF Faithful, BuffDue
<1>21. BuffDue'
  BY <1>3, <1>6, <1>11, <1>15, <1>19, <1>20 DEF Faithful, BuffDue
<1>22. LoopStands' /\ Reports
  BY <1>3, MasksStay DEF Faithful, LoopStands, Reports
<1>23. \A q \in reported' : q[2] <= happened'
  <2>1. \A q \in reported : q[2] \in Nat /\ q[2] <= happened
    BY <1>1, DirAssumption DEF Faithful, DirTypeOK
  <2> QED
    BY <1>1, <1>3, <2>1
<1> QED
  BY <1>5, <1>18, <1>21, <1>22, <1>23 DEF Faithful

(* A call: it reports what is due, and after what was reported before.     *)
LEMMA CallFaithful ==
  ASSUME TypedNow, Faithful, NEW e \in Event, NEW j \in DOMAIN entries, entries[j].dir_fd = e.id,
         e.mask # Ended, e.mask \in Mask(entries[j].flags), DueEvent(e), Fresh(e), Call(e, j),
         UNCHANGED happened
  PROVE  /\ Reports /\ at' = e.id /\ where' = "callback"
         /\ \A f : Fresh(f) /\ Precedes(e, f) => Fresh(f)'
         /\ \A q \in reported' : q[2] <= happened'
<1>1. entries[j].reg = e.id
  BY DEF Faithful, EntriesWatched
<1>2. at' = e.id /\ where' = "callback" /\ reported' = reported \cup {<<e.id, e.change>>}
  BY <1>1 DEF Call
<1>3. <<e.id, e.change>> \in due /\ e.id \in Regs /\ e.change <= happened
  BY <1>1 DEF DueEvent, Regs
<1>4. Reports
  BY <1>2, <1>3 DEF Reports, Fresh
<1>5. ASSUME NEW f, Fresh(f), Precedes(e, f) PROVE Fresh(f)'
  BY <1>2, <1>5 DEF Fresh, Precedes
<1>6. \A q \in reported' : q[2] <= happened'
  BY <1>2, <1>3 DEF Faithful
<1> QED
  BY <1>2, <1>4, <1>5, <1>6

(* Nothing but what is read and reported changes.                          *)
LEMMA ReadersKeep ==
  ASSUME Faithful, UNCHANGED <<backend, entries, watches, added>>
  PROVE  EntriesWatched' /\ (UNCHANGED <<happened, due>> => \A f : DueEvent(f) => DueEvent(f)')
<1>1. EntriesWatched'
  BY MasksStay DEF Faithful, EntriesWatched
<1>2. ASSUME UNCHANGED <<happened, due>>, NEW f, DueEvent(f) PROVE DueEvent(f)'
  BY <1>2, MasksStay DEF DueEvent
<1> QED
  BY <1>1, <1>2

(* What watch_callback() does with the events in its buffer.               *)
LEMMA ScanFaithful ==
  ASSUME TypedNow, Faithful, inotify, NEW events \in Seq(Event), NEW k, Scan(events, k),
         \A x \in DOMAIN events : DueEvent(events[x]),
         \A x \in DOMAIN events : x # 1 => Fresh(events[x]),
         \A j \in DOMAIN entries : events # <<>> /\ j > k /\ entries[j].dir_fd = events[1].id => Fresh(events[1]),
         \A x, y \in DOMAIN events : x < y => Precedes(events[x], events[y]),
         \A x \in DOMAIN waiting' : DueEvent(waiting'[x]) /\ Fresh(waiting'[x]),
         \A x, y \in DOMAIN waiting' : x < y => Precedes(waiting'[x], waiting'[y]),
         \A x \in DOMAIN events, y \in DOMAIN waiting' : Precedes(events[x], waiting'[y]),
         UNCHANGED <<backend, entries, watches, added, happened, due>>
  PROVE  Faithful' /\ Reports
<1>0. PICK rest : rest = waiting'
  OBVIOUS
<1>1. EntriesWatched' /\ (\A f : DueEvent(f) => DueEvent(f)') /\ inotify'
  BY ReadersKeep, MasksStay
<1>2. CASE Done /\ buff' = <<>>
  <2>1. UNCHANGED reported /\ where' = "loop" /\ \A f : Fresh(f)' = Fresh(f)
    BY <1>2 DEF Done, Fresh
  <2>2. WaitingDue'
    BY <1>1, <2>1 DEF WaitingDue
  <2>3. BuffDue' /\ LoopStands' /\ Reports /\ \A q \in reported' : q[2] <= happened'
    BY <1>1, <1>2, <2>1 DEF BuffDue, LoopStands, Reports, Faithful
  <2> QED
    BY <1>1, <2>2, <2>3 DEF Faithful
<1>3. ASSUME NEW x \in DOMAIN events, NEW j \in DOMAIN entries,
             entries[j].dir_fd = events[x].id, Report(events[x].mask) # "NONE", x = 1 => j > k,
             Call(events[x], j), buff' = SubSeq(events, x, Len(events))
      PROVE  Faithful' /\ Reports
  <2>1. PICK e \in Event : e = events[x]
    OBVIOUS
  <2>2. e.mask # Ended /\ DueEvent(e) /\ e.mask \in Mask(entries[j].flags)
    BY <1>3, <2>1 DEF Report, Ended, DueEvent
  <2>3. Fresh(e)
    BY <1>3, <2>1
  <2>4. /\ Reports /\ at' = e.id /\ where' = "callback"
        /\ \A f : Fresh(f) /\ Precedes(e, f) => Fresh(f)'
        /\ \A q \in reported' : q[2] <= happened'
    BY <1>3, <2>1, <2>2, <2>3, CallFaithful
  <2>5. PICK n \in Nat, m \in Nat \ {0} : n = Len(events) /\ DOMAIN events = 1..n /\ m = n - x + 1 /\ x \in 1..n
    <3>1. Len(events) \in Nat /\ x \in 1..Len(events) /\ Len(events) - x + 1 \in Nat \ {0}
      OBVIOUS
    <3> QED
      BY <3>1
  <2>6. PICK later : later = buff'
    OBVIOUS
  <2>7. DOMAIN later = 1..m /\ \A y \in 1..m : later[y] = events[x + y - 1] /\ x + y - 1 \in DOMAIN events
    BY <1>3, <2>5, <2>6, Rests
  <2>8. later # <<>> /\ later[1] = e
    BY <2>1, <2>5, <2>7
  <2>9. \A y \in 1..m : DueEvent(later[y])'
    BY <1>1, <2>7
  <2>10. \A y \in 1..m : y # 1 => Fresh(later[y])'
    <3> SUFFICES ASSUME NEW y \in 1..m, y # 1 PROVE Fresh(later[y])'
      OBVIOUS
    <3>1. x < x + y - 1 /\ x + y - 1 # 1 /\ x + y - 1 \in DOMAIN events
      BY <2>5, <2>7
    <3>2. Fresh(events[x + y - 1]) /\ Precedes(e, events[x + y - 1])
      BY <2>1, <3>1
    <3> QED
      BY <2>4, <2>7, <3>2
  <2>11. ASSUME NEW y \in 1..m, NEW z \in 1..m, y < z PROVE Precedes(later[y], later[z])
    <3>1. x + y - 1 < x + z - 1 /\ x + y - 1 \in DOMAIN events /\ x + z - 1 \in DOMAIN events
      BY <2>5, <2>7, <2>11
    <3>2. Precedes(events[x + y - 1], events[x + z - 1])
      BY <3>1
    <3> QED
      BY <2>7, <3>2
  <2>12. \A y \in 1..m, z \in DOMAIN rest : Precedes(later[y], rest[z])
    BY <1>0, <2>7
  <2>13. BuffDue'
    BY <1>0, <2>6, <2>7, <2>9, <2>10, <2>11, <2>12 DEF BuffDue
  <2>14. \A z \in DOMAIN rest : DueEvent(rest[z])' /\ Fresh(rest[z])'
    BY <1>0, <1>1, <2>1, <2>4
  <2>15. WaitingDue'
    BY <1>0, <2>14 DEF WaitingDue
  <2>16. LoopStands'
    BY <1>1, <2>4, <2>6, <2>8 DEF LoopStands
  <2> QED
    BY <1>1, <2>4, <2>13, <2>15, <2>16 DEF Faithful
<1> QED
  BY <1>2, <1>3, ScanCases DEF TypedNow

(* Events that nobody wants to be called for are taken all at once.        *)
LEMMA LossFaithful ==
  ASSUME TypedNow, Faithful, where # "callback" \/ ~inotify, Done, Lost(waiting), waiting' = <<>>,
         UNCHANGED <<backend, entries, watches, buff, added, happened>>
  PROVE  Faithful' /\ Reports
<1>1. EntriesWatched' /\ inotify' = inotify
  BY ReadersKeep, MasksStay
<1>2. buff' = <<>> /\ UNCHANGED reported /\ where' = "loop"
  BY DEF Faithful, LoopStands, Done
<1>3. WaitingDue' /\ BuffDue' /\ LoopStands'
  BY <1>2 DEF WaitingDue, BuffDue, LoopStands
<1> QED
  BY <1>1, <1>2, <1>3 DEF Faithful, Reports

LEMMA InotifyFaithful ==
  ASSUME TypedNow, Faithful, InotifyRead \/ InotifyReturn
  PROVE  Faithful' /\ Reports
<1>1. waiting \in Seq(Event) /\ buff \in Seq(Event) /\ WaitingDue /\ BuffDue /\ LoopStands /\ EntriesWatched
  BY DEF TypedNow, DirTypeOK, Faithful
<1>2. CASE InotifyRead
  <2>1. /\ inotify /\ where = "loop" /\ waiting' = <<>>
        /\ UNCHANGED <<backend, entries, watches, added, happened>>
    BY <1>2 DEF InotifyRead
  <2>2. CASE callback
    <3>1. Scan(waiting, 0) /\ UNCHANGED due
      BY <1>2, <2>2 DEF InotifyRead
    <3>2. /\ \A x \in DOMAIN waiting : DueEvent(waiting[x]) /\ Fresh(waiting[x])
          /\ \A x, y \in DOMAIN waiting : x < y => Precedes(waiting[x], waiting[y])
      BY <1>1 DEF WaitingDue
    <3>3. waiting # <<>> => Fresh(waiting[1])
      BY <1>1, <3>2
    <3>4. DOMAIN waiting' = {}
      BY <2>1
    <3> QED
      BY <1>1, <2>1, <3>1, <3>2, <3>3, <3>4, ScanFaithful
  <2>3. CASE ~callback
    <3>1. Done /\ Lost(waiting) /\ UNCHANGED buff
      BY <1>2, <2>3 DEF InotifyRead
    <3> QED
      BY <2>1, <3>1, LossFaithful
  <2> QED
    BY <2>2, <2>3
<1>3. CASE InotifyReturn
  <2>1. /\ inotify /\ where = "callback" /\ at \in Regs /\ Scan(buff, IndexAt)
        /\ UNCHANGED <<backend, entries, watches, waiting, added, happened, due>>
    BY <1>3 DEF InotifyReturn
  <2>2. IndexAt \in DOMAIN entries /\ entries[IndexAt].reg = at /\ at = buff[1].id
    BY <1>1, <2>1 DEF IndexAt, Regs, LoopStands
  <2>3. IndexAt \in Nat
    BY <2>2, DirNumbers DEF TypedNow
  <2>4. \A j \in DOMAIN entries : ~(j > IndexAt /\ entries[j].dir_fd = buff[1].id)
    BY <1>1, <2>2, <2>3 DEF EntriesWatched
  <2>5. /\ \A x \in DOMAIN buff : DueEvent(buff[x]) /\ (x # 1 => Fresh(buff[x]))
        /\ \A x, y \in DOMAIN buff : x < y => Precedes(buff[x], buff[y])
        /\ \A x \in DOMAIN buff, y \in DOMAIN waiting' : Precedes(buff[x], waiting'[y])
    BY <1>1, <2>1 DEF BuffDue
  <2>6. /\ \A x \in DOMAIN waiting' : DueEvent(waiting'[x]) /\ Fresh(waiting'[x])
        /\ \A x, y \in DOMAIN waiting' : x < y => Precedes(waiting'[x], waiting'[y])
    BY <1>1, <2>1 DEF WaitingDue
  <2> HIDE DEF IndexAt
  <2> QED
    BY <1>1, <2>1, <2>4, <2>5, <2>6, ScanFaithful
<1> QED
  BY <1>2, <1>3

LEMMA DrainFaithful ==
  ASSUME TypedNow, Faithful, ~inotify, FamDrain,
         UNCHANGED <<backend, entries, watches, buff, added, happened, due>>
  PROVE  Faithful' /\ Reports
<1>1. DirTypeOK /\ waiting \in Seq(Event) /\ WaitingDue /\ buff = <<>>
  BY DEF TypedNow, DirTypeOK, Faithful, LoopStands
<1>2. EntriesWatched' /\ (\A f : DueEvent(f) => DueEvent(f)') /\ ~inotify' /\ buff' = <<>>
  BY <1>1, ReadersKeep, MasksStay
<1>3. BuffDue' /\ LoopStands'
  BY <1>2 DEF BuffDue, LoopStands
<1>4. CASE Done /\ waiting' = <<>>
  BY <1>2, <1>3, <1>4 DEF Done, Reports, Faithful, WaitingDue
<1>5. ASSUME NEW x \in DOMAIN waiting, ~Skipped(waiting[x]), waiting' = SubSeq(waiting, x + 1, Len(waiting)),
             \/ where' = "dead" /\ UNCHANGED <<at, reported>>
             \/ \E j \in For(waiting[x]) : Call(waiting[x], j)
      PROVE  Faithful' /\ Reports
  <2>1. PICK e \in Event : e = waiting[x]
    BY <1>1
  <2>2. e.mask # Ended /\ DueEvent(e) /\ Fresh(e)
    BY <1>1, <1>5, <2>1 DEF Skipped, WaitingDue
  <2>3. /\ Reports /\ \A q \in reported' : q[2] <= happened'
        /\ \A f : Fresh(f) /\ Precedes(e, f) => Fresh(f)'
    <3>1. CASE where' = "dead" /\ UNCHANGED <<at, reported>>
      BY <3>1 DEF Reports, Fresh, Faithful
    <3>2. ASSUME NEW j \in For(waiting[x]), Call(waiting[x], j)
          PROVE  /\ Reports /\ \A q \in reported' : q[2] <= happened'
                 /\ \A f : Fresh(f) /\ Precedes(e, f) => Fresh(f)'
      <4>1. j \in DOMAIN entries /\ entries[j].dir_fd = e.id /\ Call(e, j)
        BY <2>1, <3>2 DEF For
      <4>2. PICK i \in For(e) : e.mask \in Mask(entries[i].flags)
        BY <1>5, <2>1, <3>2 DEF Skipped
      <4>3. i = j
        BY <4>1, <4>2 DEF For, Faithful, EntriesWatched
      <4> QED
        BY <2>2, <4>1, <4>2, <4>3, CallFaithful
    <3> QED
      BY <1>5, <3>1, <3>2
  <2>4. PICK rest : rest = waiting'
    OBVIOUS
  <2>5. PICK n \in Nat : n = Len(waiting) /\ DOMAIN waiting = 1..n /\ x \in 1..n /\ x + 1 \in 1..(n + 1)
    <3>1. Len(waiting) \in Nat /\ x \in 1..Len(waiting) /\ x + 1 \in 1..(Len(waiting) + 1)
      BY <1>1
    <3> QED
      BY <1>1, <3>1
  <2>6. /\ DOMAIN rest = 1..(n - x) /\ \A y \in 1..(n - x) : rest[y] = waiting[x + y] /\ x + y \in DOMAIN waiting
    <3>1. /\ DOMAIN rest = 1..(n - (x + 1) + 1)
          /\ \A y \in 1..(n - (x + 1) + 1) : rest[y] = waiting[x + 1 + y - 1] /\ x + 1 + y - 1 \in DOMAIN waiting
      BY <1>1, <1>5, <2>4, <2>5, Rests
    <3>2. n - (x + 1) + 1 = n - x /\ \A y \in 1..(n - x) : x + 1 + y - 1 = x + y
      BY <2>5
    <3> QED
      BY <3>1, <3>2
  <2>7. \A y \in 1..(n - x) : DueEvent(rest[y])' /\ Fresh(rest[y])'
    <3> SUFFICES ASSUME NEW y \in 1..(n - x) PROVE DueEvent(rest[y])' /\ Fresh(rest[y])'
      OBVIOUS
    <3>1. x < x + y
      BY <2>5
    <3>2. DueEvent(waiting[x + y]) /\ Fresh(waiting[x + y]) /\ Precedes(e, waiting[x + y])
      BY <1>1, <2>1, <2>6, <3>1 DEF WaitingDue
    <3> QED
      BY <1>2, <2>3, <2>6, <3>2
  <2>8. ASSUME NEW y \in 1..(n - x), NEW z \in 1..(n - x), y < z PROVE Precedes(rest[y], rest[z])
    <3>1. x + y < x + z
      BY <2>5, <2>8
    <3> QED
      BY <1>1, <2>6, <3>1 DEF WaitingDue
  <2>9. WaitingDue'
    BY <2>4, <2>6, <2>7, <2>8 DEF WaitingDue
  <2> QED
    BY <1>2, <1>3, <2>3, <2>9 DEF Faithful
<1> QED
  BY <1>1, <1>4, <1>5, DrainCases

LEMMA FamFaithful ==
  ASSUME TypedNow, Faithful, FamRead \/ FamReturn
  PROVE  Faithful' /\ Reports
<1>1. ~inotify /\ UNCHANGED <<backend, entries, watches, buff, added, happened>>
  BY DEF FamRead, FamReturn
<1>2. CASE FamDrain /\ UNCHANGED due
  BY <1>1, <1>2, DrainFaithful
<1>3. CASE Done /\ Lost(waiting) /\ waiting' = <<>>
  BY <1>1, <1>3, LossFaithful
<1> QED
  BY <1>2, <1>3 DEF FamRead, FamReturn

LEMMA DirFaithful ==
  ASSUME TypedNow, Faithful, ~mixed', DirNext
  PROVE  Faithful' /\ Reports
<1>1. CASE SetDirCallback
  <2>1. UNCHANGED <<backend, entries, watches, waiting, buff, at, where, added, happened, due, reported>>
    BY <1>1 DEF SetDirCallback, historyVars
  <2> QED
    BY <2>1, MasksStay DEF Faithful, EntriesWatched, WaitingDue, BuffDue, LoopStands, DueEvent, Fresh, Reports
<1>2. CASE Shutdown
  <2>1. /\ where = "loop" /\ where' = "off" /\ entries' = <<>> /\ watches' = {} /\ waiting' = <<>>
        /\ UNCHANGED <<backend, buff, at, added, happened, due, reported>>
    BY <1>2 DEF Shutdown, historyVars
  <2>2. buff' = <<>>
    BY <2>1 DEF Faithful, LoopStands
  <2> QED
    BY <2>1, <2>2 DEF Faithful, EntriesWatched, WaitingDue, BuffDue, LoopStands, Reports
<1>3. ~InotifyReturnFreed
  BY DEF InotifyReturnFreed
<1>4. CASE CalledFreed
  <2>1. /\ where = "off" /\ where' = "dead"
        /\ UNCHANGED <<backend, entries, watches, waiting, buff, at, added, happened, due, reported>>
    BY <1>4 DEF CalledFreed, historyVars
  <2> QED
    BY <2>1, MasksStay DEF Faithful, EntriesWatched, WaitingDue, BuffDue, LoopStands, DueEvent, Fresh, Reports
<1> QED
  BY <1>1, <1>2, <1>3, <1>4, AddFaithful, RemoveFaithful, ChangeFaithful, InotifyFaithful, FamFaithful
  DEF DirNext, DirProgram, WatchCallback

(* Once entries have shared a watch, that is not forgotten.                *)
LEMMA StaysMixed == DirTypeOK /\ DirNext /\ mixed => mixed'
BY DEF DirTypeOK, DirNext, DirProgram, WatchCallback, AddDir, Mixed, RemoveDir, SetDirCallback, Shutdown, CalledFreed,
       Change, InotifyRead, InotifyReturn, InotifyReturnFreed, FamRead, FamReturn, historyVars

LEMMA DirStepKeeps ==
  ASSUME DirInv, [DirNext]_dirVars
  PROVE  DirInv' /\ (~mixed' => Reports)
<1>1. CASE DirNext
  <2>1. TypedNow'
    BY <1>1, DirTyped DEF DirInv
  <2>2. ASSUME ~mixed' PROVE Faithful' /\ Reports
    <3>1. ~mixed
      BY <1>1, <2>2, StaysMixed DEF DirInv, TypedNow
    <3> QED
      BY <1>1, <2>2, <3>1, DirFaithful DEF DirInv
  <2> QED
    BY <2>1, <2>2 DEF DirInv
<1>2. CASE UNCHANGED dirVars
  <2>1. UNCHANGED <<backend, entries, callback, watches, waiting, buff, at, where, added, happened, due, reported, mixed>>
    BY <1>2 DEF dirVars, watchVars, historyVars
  <2>2. TypedNow' /\ Reports
    BY <2>1 DEF DirInv, TypedNow, DirTypeOK, EventsNumbered, Numbered, Reports
  <2>3. Faithful => Faithful'
    BY <2>1, MasksStay DEF Faithful, EntriesWatched, WaitingDue, BuffDue, LoopStands, DueEvent, Fresh
  <2> QED
    BY <2>1, <2>2, <2>3 DEF DirInv
<1> QED
  BY <1>1, <1>2
-------------------------------------------------------------------------------
(* D-Bus connections: what is on its way, and who is called.               *)

(* register_object() takes every object for registered while the list has  *)
(* none, so that it never has one.                                         *)
Unlisted == \A e \in Conns : dc[e].object_list = <<>>

(* What waits for the filters is in the order in which it was sent.        *)
Ordered(items, last) ==
  /\ \A k \in DOMAIN items : items[k] <= last
  /\ \A j, k \in DOMAIN items : j < k => items[j] < items[k]

PendingOrdered == \A b \in Buses : Ordered(Pending(b), sent)

DbusInv == DbusTypeOK /\ Unlisted /\ PendingOrdered

LEMMA MailNumbers == Len(Mail) \in Nat /\ DOMAIN Mail = 1..Len(Mail)
BY ConnsAssumption

LEMMA NoCallsTyped == NoCalls \in [Conns -> Nat]
BY DEF NoCalls

LEMMA DbusInitially == DbusInit => DbusInv
<1> SUFFICES ASSUME DbusInit PROVE DbusInv
  OBVIOUS
<1> USE DEF DbusInit
<1>1. NoImpl \in Impl /\ NoImpl.object_list = <<>>
  <2>1. <<>> \in Seq(Paths) /\ NoList \in (SUBSET Buses) \cup {NoList} /\ Null \in Buses \cup {Null}
    OBVIOUS
  <2> QED
    BY <2>1 DEF NoImpl, Impl
<1>2. /\ dc \in [Conns -> Impl] /\ sent \in 0..Len(Mail) /\ calls \in [Conns -> Nat]
      /\ socket \in [Buses -> Seq(DOMAIN Mail)] /\ queue \in [Buses -> Seq(DOMAIN Mail)]
      /\ filters \in [Buses -> Seq(Conns)]
  BY <1>1, MailNumbers, NoCallsTyped
<1>3. DbusTypeOK
  BY <1>2 DEF DbusTypeOK
<1>4. \A b \in Buses : Pending(b) = <<>>
  BY DEF Pending
<1>5. Unlisted /\ PendingOrdered
  BY <1>1, <1>4 DEF Unlisted, PendingOrdered, Ordered
<1> QED
  BY <1>3, <1>5 DEF DbusInv

(* What is taken from a queue and what is added to it.                     *)
LEMMA QueueMoves ==
  ASSUME NEW S, NEW q \in Seq(S), NEW s \in Seq(S)
  PROVE  /\ q \o s \in Seq(S) /\ q \o <<>> = q /\ <<>> \o s = s
         /\ q # <<>> => Tail(q) \o s = Tail(q \o s) /\ Head(q) = Head(q \o s) /\ q \o s # <<>>
<1>1. q \o s \in Seq(S) /\ q \o <<>> = q /\ <<>> \o s = s
  OBVIOUS
<1>2. ASSUME q # <<>> PROVE Tail(q) \o s = Tail(q \o s) /\ Head(q) = Head(q \o s) /\ q \o s # <<>>
  BY <1>2
<1> QED
  BY <1>1, <1>2

LEMMA QueueGrows ==
  ASSUME NEW S, NEW q \in Seq(S), NEW s \in Seq(S), NEW m \in S
  PROVE  /\ q \o Append(s, m) = Append(q \o s, m)
         /\ s # <<>> => Append(s, m) # <<>> /\ Head(Append(s, m)) = Head(s)
OBVIOUS

LEMMA OrderedMoves ==
  ASSUME NEW items \in Seq(Nat), NEW last \in Nat, Ordered(items, last)
  PROVE  /\ items # <<>> => /\ Ordered(Tail(items), last)
                            /\ Tail(items) # <<>> => Head(Tail(items)) # Head(items)
         /\ Ordered(items, last + 1) /\ Ordered(Append(items, last + 1), last + 1)
<1>0. PICK n \in Nat : n = Len(items) /\ DOMAIN items = 1..n
  OBVIOUS
<1>1. \A k \in 1..n : items[k] \in Nat /\ items[k] <= last
  BY <1>0 DEF Ordered
<1>2. \A j, k \in 1..n : j < k => items[j] < items[k]
  BY <1>0 DEF Ordered
<1>3. ASSUME items # <<>>
      PROVE  /\ Ordered(Tail(items), last)
             /\ Tail(items) # <<>> => Head(Tail(items)) # Head(items)
  <2>1. n \in Nat \ {0}
    BY <1>0, <1>3
  <2>2. Head(items) = items[1] /\ DOMAIN Tail(items) = 1..(n - 1)
    BY <1>0, <1>3, <2>1
  <2>3. \A k \in 1..(n - 1) : Tail(items)[k] = items[k + 1]
    BY <1>0, <1>3, <2>1
  <2>4. \A k \in 1..(n - 1) : k \in 1..n /\ k + 1 \in 1..n /\ 1 < k + 1
    BY <2>1
  <2>5. 1 \in 1..n
    BY <2>1
  <2>6. PICK rest : rest = Tail(items)
    OBVIOUS
  <2>7. Ordered(rest, last)
    <3>1. \A k \in 1..(n - 1) : rest[k] <= last
      BY ONLY <1>1, <2>3, <2>4, <2>6
    <3>2. \A j, k \in 1..(n - 1) : j < k => j + 1 < k + 1
      OBVIOUS
    <3>3. \A j, k \in 1..(n - 1) : j < k => rest[j] < rest[k]
      BY ONLY <1>2, <2>3, <2>4, <2>6, <3>2
    <3> QED
      BY ONLY <2>2, <2>6, <3>1, <3>3 DEF Ordered
  <2>8. ASSUME rest # <<>> PROVE Head(rest) # Head(items)
    <3>1. Head(rest) = rest[1] /\ 1 \in 1..(n - 1)
      BY <1>3, <2>2, <2>6, <2>8
    <3>2. items[1] < Head(rest) /\ items[1] \in Nat
      BY ONLY <1>1, <1>2, <2>3, <2>4, <2>5, <2>6, <3>1
    <3> QED
      BY ONLY <2>2, <3>2
  <2> QED
    BY <2>6, <2>7, <2>8
<1>4. Ordered(items, last + 1)
  BY <1>0, <1>1, <1>2 DEF Ordered
<1>5. Ordered(Append(items, last + 1), last + 1)
  <2>1. PICK more : more = Append(items, last + 1)
    OBVIOUS
  <2>2. DOMAIN more = 1..(n + 1) /\ more[n + 1] = last + 1 /\ \A k \in 1..n : more[k] = items[k]
    BY <1>0, <2>1
  <2>3. \A k \in 1..(n + 1) : k = n + 1 \/ k \in 1..n
    BY <1>0
  <2>4. \A k \in 1..(n + 1) : more[k] <= last + 1
    BY ONLY <1>1, <2>2, <2>3, last \in Nat
  <2>5. \A j, k \in 1..(n + 1) : j < k => j \in 1..n
    BY <1>0
  <2>6. \A k \in 1..n : items[k] < last + 1
    BY ONLY <1>1, last \in Nat
  <2>7. \A j, k \in 1..(n + 1) : j < k => more[j] < more[k]
    BY ONLY <1>2, <2>2, <2>3, <2>5, <2>6
  <2> QED
    BY <2>1, <2>2, <2>4, <2>7 DEF Ordered
<1> QED
  BY <1>3, <1>4, <1>5

LEMMA DbusTypes ==
  ASSUME DbusTypeOK, NEW b \in Buses
  PROVE  /\ queue[b] \in Seq(DOMAIN Mail) /\ socket[b] \in Seq(DOMAIN Mail)
         /\ Pending(b) \in Seq(DOMAIN Mail) /\ Pending(b) \in Seq(Nat) /\ sent \in Nat
<1>1. queue[b] \in Seq(DOMAIN Mail) /\ socket[b] \in Seq(DOMAIN Mail) /\ sent \in Nat
  BY MailNumbers DEF DbusTypeOK
<1>2. Pending(b) \in Seq(DOMAIN Mail)
  BY <1>1 DEF Pending
<1>3. DOMAIN Mail \subseteq Nat
  BY MailNumbers
<1> QED
  BY <1>1, <1>2, <1>3

(* The numbers of the filters of a bus that are a given object's.          *)
LEMMA FiltersCounted ==
  ASSUME DbusTypeOK, NEW b \in Buses
  PROVE  /\ filters[b] \in Seq(Conns) /\ Len(filters[b]) \in Nat /\ DOMAIN filters[b] = 1..Len(filters[b])
         /\ \A k \in DOMAIN filters[b] \cup {0} : k \in 0..Len(filters[b])
         /\ \A e \in Conns : IsFiniteSet(FiltersOf(e, b))
<1>1. /\ filters[b] \in Seq(Conns) /\ Len(filters[b]) \in Nat /\ DOMAIN filters[b] = 1..Len(filters[b])
  BY DEF DbusTypeOK
<1>2. IsFiniteSet(1..Len(filters[b]))
  <2>1. PICK n \in Nat : n = Len(filters[b])
    BY <1>1
  <2>2. IsFiniteSet(1..n)
    <3>1. 1 \in Int /\ n \in Int
      OBVIOUS
    <3> QED
      BY ONLY <3>1, FS_Interval
  <2> QED
    BY <2>1, <2>2
<1>3. \A e \in Conns : FiltersOf(e, b) \subseteq 1..Len(filters[b])
  BY <1>1 DEF FiltersOf
<1> QED
  BY <1>1, <1>2, <1>3, FS_Subset

(* How a message is taken: the filters are asked up to the k-th, which     *)
(* handles it or is the last or ends the program.                          *)
Called(b, m, ghosts, j) == filters[b][j] \in ghosts \/ Wants(filters[b][j], m)

CallsOf(e, b, m, ghosts, k) == {j \in 1..k : filters[b][j] = e /\ Called(b, m, ghosts, j)}

Given(b, m, ghosts, k, ends) ==
  /\ k < Len(filters[b]) => ends \/ (k > 0 /\ Called(b, m, ghosts, k))
  /\ calls' = [e \in Conns |-> Cardinality(CallsOf(e, b, m, ghosts, k))]
  /\ alive' = ~ends

GivenSomehow(b, m) ==
  \E ghosts \in SUBSET Conns, k \in DOMAIN filters[b] \cup {0}, ends \in BOOLEAN : Given(b, m, ghosts, k, ends)

LEMMA CallsCounted ==
  ASSUME DbusTypeOK, NEW b \in Buses, NEW m, NEW ghosts, NEW k \in DOMAIN filters[b] \cup {0}, NEW e \in Conns
  PROVE  LET these == CallsOf(e, b, m, ghosts, k) IN
         /\ these \subseteq FiltersOf(e, b) /\ IsFiniteSet(these)
         /\ Cardinality(these) \in Nat /\ Cardinality(these) <= Cardinality(FiltersOf(e, b))
         /\ these # {} => Cardinality(these) > 0
<1> DEFINE these == CallsOf(e, b, m, ghosts, k)
<1>1. k \in 0..Len(filters[b]) /\ Len(filters[b]) \in Nat /\ DOMAIN filters[b] = 1..Len(filters[b])
  BY FiltersCounted
<1>2. 1..k \subseteq DOMAIN filters[b]
  BY <1>1
<1>3. these \subseteq FiltersOf(e, b)
  BY <1>2 DEF CallsOf, FiltersOf
<1>4. IsFiniteSet(FiltersOf(e, b))
  BY FiltersCounted
<1> HIDE DEF these
<1>5. IsFiniteSet(these) /\ Cardinality(these) <= Cardinality(FiltersOf(e, b))
  BY <1>3, <1>4, FS_Subset
<1>6. Cardinality(these) \in Nat
  BY <1>5, FS_CardinalityType
<1>7. these # {} => Cardinality(these) # 0
  BY <1>5, FS_EmptySet
<1>8. these # {} => Cardinality(these) > 0
  BY <1>6, <1>7
<1> QED
  BY <1>3, <1>5, <1>6, <1>8 DEF these

LEMMA DispatchTakes ==
  ASSUME DbusTypeOK, NEW b \in Buses, NEW q \in [Buses -> Seq(DOMAIN Mail)], Dispatch(b, q)
  PROVE  /\ q[b] # <<>> /\ Tail(q[b]) \in Seq(DOMAIN Mail)
         /\ queue' = [q EXCEPT ![b] = Tail(q[b])] /\ alive' \in BOOLEAN
         /\ GivenSomehow(b, Head(q[b])) /\ calls' \in [Conns -> Nat]
<1>1. q[b] # <<>> /\ queue' = [q EXCEPT ![b] = Tail(q[b])]
  BY DEF Dispatch
<1>2. Tail(q[b]) \in Seq(DOMAIN Mail)
  <2>1. q[b] \in Seq(DOMAIN Mail)
    OBVIOUS
  <2> QED
    BY <1>1, <2>1
<1>3. Ghosts(b) \subseteq Conns
  <2>1. \A k \in DOMAIN filters[b] : filters[b][k] \in Conns
    BY FiltersCounted
  <2> QED
    BY <2>1 DEF Ghosts, Range
<1>4. PICK ghosts \in SUBSET Ghosts(b), k \in DOMAIN filters[b] \cup {0}, ends \in BOOLEAN :
        Given(b, Head(q[b]), ghosts, k, ends)
  BY DEF Dispatch, Given, Called, CallsOf
<1>5. GivenSomehow(b, Head(q[b]))
  BY <1>3, <1>4 DEF GivenSomehow
<1>6. \A e \in Conns : Cardinality(CallsOf(e, b, Head(q[b]), ghosts, k)) \in Nat
  BY CallsCounted
<1>7. calls' \in [Conns -> Nat] /\ alive' \in BOOLEAN
  BY <1>4, <1>6 DEF Given
<1> QED
  BY <1>1, <1>2, <1>5, <1>7

(* What happens to the messages of a bus in a step.                        *)
Waits(b)   == Pending(b)' = Pending(b)
Arrives(b) == Pending(b)' = Append(Pending(b), sent + 1)
Taken(b)   == Pending(b) # <<>> /\ Pending(b)' = Tail(Pending(b)) /\ GivenSomehow(b, Head(Pending(b)))

Moves ==
  \/ /\ calls' = NoCalls
     /\ \/ sent' = sent /\ \A b \in Buses : Waits(b)
        \/ sent' = sent + 1 /\ \A b \in Buses : Waits(b) \/ Arrives(b)
  \/ sent' = sent /\ \E b \in Buses : Taken(b) /\ \A c \in Buses \ {b} : Waits(c)

LEMMA TakenMoves ==
  ASSUME DbusTypeOK, NEW b \in Buses, NEW q \in [Buses -> Seq(DOMAIN Mail)], Dispatch(b, q), sent' = sent,
         socket' \in [Buses -> Seq(DOMAIN Mail)], \A c \in Buses : q[c] \o socket'[c] = Pending(c)
  PROVE  Moves /\ queue' \in [Buses -> Seq(DOMAIN Mail)] /\ calls' \in [Conns -> Nat] /\ alive' \in BOOLEAN
<1>1. /\ q[b] # <<>> /\ Tail(q[b]) \in Seq(DOMAIN Mail) /\ queue' = [q EXCEPT ![b] = Tail(q[b])]
      /\ GivenSomehow(b, Head(q[b])) /\ calls' \in [Conns -> Nat] /\ alive' \in BOOLEAN
  BY DispatchTakes
<1>2. queue' \in [Buses -> Seq(DOMAIN Mail)]
  BY <1>1
<1>3. q[b] \in Seq(DOMAIN Mail) /\ socket'[b] \in Seq(DOMAIN Mail) /\ q[b] \o socket'[b] = Pending(b)
  OBVIOUS
<1>4. /\ Tail(q[b]) \o socket'[b] = Tail(Pending(b)) /\ Head(q[b]) = Head(Pending(b)) /\ Pending(b) # <<>>
  <2>1. PICK old, rest : old = q[b] /\ rest = socket'[b]
    OBVIOUS
  <2>2. old \in Seq(DOMAIN Mail) /\ rest \in Seq(DOMAIN Mail) /\ old # <<>> /\ old \o rest = Pending(b)
    BY <1>1, <1>3, <2>1
  <2>3. Tail(old) \o rest = Tail(old \o rest) /\ Head(old) = Head(old \o rest) /\ old \o rest # <<>>
    <3>1. PICK S : S = DOMAIN Mail
      OBVIOUS
    <3>2. old \in Seq(S) /\ rest \in Seq(S) /\ old # <<>>
      BY ONLY <2>2, <3>1
    <3> QED
      BY ONLY <3>2, QueueMoves
  <2> QED
    BY <2>1, <2>2, <2>3
<1>5. queue'[b] = Tail(q[b]) /\ \A c \in Buses \ {b} : queue'[c] = q[c]
  BY <1>1
<1>6. Taken(b)
  BY <1>1, <1>4, <1>5 DEF Taken, Pending
<1>7. \A c \in Buses \ {b} : Waits(c)
  BY <1>5 DEF Waits, Pending
<1> QED
  BY <1>1, <1>2, <1>6, <1>7 DEF Moves

(* However messages move, they stay in order.                              *)
LEMMA MovesKeepOrder == DbusInv /\ Moves => PendingOrdered'
<1> SUFFICES ASSUME DbusInv, Moves, NEW b \in Buses PROVE Ordered(Pending(b)', sent')
  BY DEF PendingOrdered
<1>1. Pending(b) \in Seq(Nat) /\ sent \in Nat /\ Ordered(Pending(b), sent)
  BY DbusTypes DEF DbusInv, PendingOrdered
<1>2. /\ Pending(b) # <<>> => Ordered(Tail(Pending(b)), sent)
      /\ Ordered(Pending(b), sent + 1) /\ Ordered(Append(Pending(b), sent + 1), sent + 1)
  BY <1>1, OrderedMoves
<1> QED
  BY <1>1, <1>2 DEF Moves, Waits, Arrives, Taken

(* Nothing that concerns a message.                                        *)
LEMMA Unmoved == UNCHANGED <<socket, queue, sent>> /\ calls' = NoCalls => Moves
BY DEF Moves, Waits, Pending

Settled == DbusTypeOK' /\ Unlisted' /\ Moves

(* A call of the program that concerns no message.                         *)
LEMMA CallKeeps ==
  ASSUME DbusInv, NEW e \in Conns, ProgramCall(e), dc' \in [Conns -> Impl], Unlisted',
         registered' \in [Conns -> SUBSET Paths], filters' \in [Buses -> Seq(Conns)],
         watcher' \in [Buses -> Conns \cup {Null}], handler' \in [Buses -> Conns \cup {Null}],
         alive' \in BOOLEAN, UNCHANGED <<socket, queue, timers, dispatching, sent, stalled>>
  PROVE  Settled
<1>1. calls' = NoCalls /\ calls' \in [Conns -> Nat]
  BY NoCallsTyped DEF ProgramCall
<1>2. made' \in [Conns -> Nat]
  <2>1. made \in [Conns -> Nat] /\ made' = [made EXCEPT ![e] = @ + 1]
    BY DEF ProgramCall, DbusInv, DbusTypeOK
  <2> QED
    BY <2>1
<1>3. DbusTypeOK'
  BY <1>1, <1>2 DEF DbusInv, DbusTypeOK
<1> QED
  BY <1>1, <1>3, Unmoved DEF Settled

(* What is done with one object.                                           *)
LEMMA ImplKeeps ==
  ASSUME DbusInv, NEW e \in Conns, ProgramCall(e), NEW impl \in Impl, impl.object_list = <<>>,
         dc' = [dc EXCEPT ![e] = impl], registered' \in [Conns -> SUBSET Paths],
         handler' \in [Buses -> Conns \cup {Null}],
         UNCHANGED <<socket, queue, filters, watcher, timers, dispatching, alive, sent, stalled>>
  PROVE  Settled
<1>1. dc \in [Conns -> Impl] /\ Unlisted
  BY DEF DbusInv, DbusTypeOK
<1>2. dc' \in [Conns -> Impl] /\ Unlisted'
  BY <1>1 DEF Unlisted
<1>3. filters' \in [Buses -> Seq(Conns)] /\ watcher' \in [Buses -> Conns \cup {Null}] /\ alive' \in BOOLEAN
  BY DEF DbusInv, DbusTypeOK
<1> QED
  BY <1>2, <1>3, CallKeeps

LEMMA DisconnectedKeeps ==
  ASSUME DbusInv, NEW e \in Conns, NEW phase \in {"there", "freed"}, ProgramCall(e), Disconnected(e, phase)
  PROVE  Settled
<1>1. PICK impl : impl = [NoImpl EXCEPT !.phase = phase]
  OBVIOUS
<1>2. impl \in Impl /\ impl.object_list = <<>>
  <2>1. impl = [phase |-> phase, conn |-> Null, callback |-> FALSE, object_list |-> <<>>, watch_list |-> NoList]
    BY <1>1 DEF NoImpl
  <2>2. <<>> \in Seq(Paths) /\ NoList \in (SUBSET Buses) \cup {NoList} /\ Null \in Buses \cup {Null}
    OBVIOUS
  <2> QED
    BY <2>1, <2>2 DEF Impl
<1>3. /\ dc' = [dc EXCEPT ![e] = impl]
      /\ UNCHANGED <<socket, queue, filters, watcher, timers, dispatching, alive, sent, stalled>>
  BY <1>1 DEF Disconnected
<1>4. handler' \in [Buses -> Conns \cup {Null}] /\ registered' \in [Conns -> SUBSET Paths]
  BY DEF Disconnected, DbusInv, DbusTypeOK
<1> QED
  BY <1>2, <1>3, <1>4, ImplKeeps

LEMMA SameList ==
  ASSUME NEW d \in [Conns -> Impl], NEW e \in Conns
  PROVE  [d EXCEPT ![e].object_list = d[e].object_list] = d
<1>1. PICK impl : impl = [d[e] EXCEPT !.object_list = d[e].object_list]
  OBVIOUS
<1>2. impl = d[e]
  BY <1>1 DEF Impl
<1>3. [d EXCEPT ![e] = impl] = d
  BY <1>2
<1> QED
  BY <1>1, <1>3

LEMMA ObjectKeeps ==
  ASSUME DbusInv, NEW e \in Conns,
         \/ \E b \in Buses : Connect(e, b)
         \/ SetCallback(e) \/ Disconnect(e) \/ Destroy(e)
         \/ \E p \in Paths : RegisterObject(e, p) \/ UnregisterObject(e, p)
  PROVE  Settled
<1>1. /\ DbusTypeOK /\ dc[e] \in Impl /\ dc[e].object_list = <<>>
      /\ handler \in [Buses -> Conns \cup {Null}] /\ registered \in [Conns -> SUBSET Paths]
  BY DEF DbusInv, DbusTypeOK, Unlisted
<1>2. ASSUME NEW b \in Buses, Connect(e, b) PROVE Settled
  <2>1. PICK conn \in {b, Null} : dc' = [dc EXCEPT ![e].phase = "there", ![e].conn = conn]
    BY <1>2 DEF Connect
  <2>2. PICK impl : impl = [dc[e] EXCEPT !.phase = "there", !.conn = conn]
    OBVIOUS
  <2>3. impl \in Impl /\ impl.object_list = <<>>
    BY <1>1, <2>2 DEF Impl
  <2>4. dc' = [dc EXCEPT ![e] = impl]
    BY <1>1, <2>1, <2>2 DEF DbusTypeOK, Impl
  <2>5. ProgramCall(e) /\ UNCHANGED <<registered, libVars, socket, queue, timers, dispatching, alive, sent, stalled>>
    BY <1>2 DEF Connect
  <2> QED
    BY <1>1, <2>3, <2>4, <2>5, ImplKeeps DEF libVars
<1>3. CASE SetCallback(e)
  <2>1. PICK impl : impl = [dc[e] EXCEPT !.callback = ~@]
    OBVIOUS
  <2>2. impl \in Impl /\ impl.object_list = <<>>
    BY <1>1, <2>1 DEF Impl
  <2>3. dc' = [dc EXCEPT ![e] = impl]
    BY <1>3, <2>1 DEF SetCallback
  <2>4. ProgramCall(e) /\ UNCHANGED <<registered, libVars, socket, queue, timers, dispatching, alive, sent, stalled>>
    BY <1>3 DEF SetCallback
  <2> QED
    BY <1>1, <2>2, <2>3, <2>4, ImplKeeps DEF libVars
<1>4. ASSUME ProgramCall(e), dc' = dc, registered' \in [Conns -> SUBSET Paths],
             UNCHANGED <<libVars, socket, queue, timers, dispatching, alive, sent, stalled>>
      PROVE  Settled
  <2>1. dc' = [dc EXCEPT ![e] = dc[e]]
    BY <1>1, <1>4 DEF DbusTypeOK
  <2> QED
    BY <1>1, <1>4, <2>1, ImplKeeps DEF libVars
<1>5. ASSUME NEW p \in Paths, RegisterObject(e, p) PROVE Settled
  <2>1. HaveRegistered(e, p)
    BY <1>1 DEF HaveRegistered
  <2>2. dc' = dc
    <3>1. dc' = [dc EXCEPT ![e].object_list = dc[e].object_list]
      BY <1>5, <2>1 DEF RegisterObject
    <3> QED
      BY <1>1, <3>1, SameList DEF DbusTypeOK
  <2>3. registered' \in [Conns -> SUBSET Paths]
    BY <1>1, <1>5 DEF RegisterObject
  <2> QED
    BY <1>4, <1>5, <2>2, <2>3 DEF RegisterObject
<1>6. ASSUME NEW p \in Paths, UnregisterObject(e, p) PROVE Settled
  <2>1. RemoveFirst(dc[e].object_list, p) = dc[e].object_list
    BY <1>1 DEF RemoveFirst
  <2>2. dc' = dc
    <3>1. dc' = [dc EXCEPT ![e].object_list = dc[e].object_list]
      BY <1>6, <2>1 DEF UnregisterObject
    <3> QED
      BY <1>1, <3>1, SameList DEF DbusTypeOK
  <2>3. registered' \in [Conns -> SUBSET Paths]
    BY <1>1, <1>6 DEF UnregisterObject
  <2> QED
    BY <1>4, <1>6, <2>2, <2>3 DEF UnregisterObject
<1> QED
  BY <1>2, <1>3, <1>5, <1>6, DisconnectedKeeps DEF Disconnect, Destroy

(* A filter more, and perhaps another object that watches.                 *)
LEMMA SetupKeeps == ASSUME DbusInv, NEW e \in Conns, NEW fltk \in BOOLEAN, SetupListener(e, fltk) PROVE Settled
<1>1. DbusTypeOK /\ dc \in [Conns -> Impl] /\ Unlisted
  BY DEF DbusInv, DbusTypeOK
<1>2. PICK b : b = dc[e].conn
  OBVIOUS
<1>3. b \in Buses
  BY <1>1, <1>2 DEF SetupListener, Connected, Impl
<1>4. ProgramCall(e) /\ UNCHANGED <<registered, socket, queue, timers, dispatching, sent, stalled>>
  BY DEF SetupListener
<1>5. filters' \in [Buses -> Seq(Conns)]
  <2>1. filters \in [Buses -> Seq(Conns)] /\ filters' = [filters EXCEPT ![b] = Append(filters[b], e)]
    BY <1>1, <1>2 DEF SetupListener, DbusTypeOK
  <2>2. Append(filters[b], e) \in Seq(Conns)
    BY <1>3, <2>1
  <2> QED
    BY <2>1, <2>2
<1>6. registered' \in [Conns -> SUBSET Paths]
  BY <1>1, <1>4 DEF DbusTypeOK
<1>7. CASE ~fltk
  BY <1>1, <1>4, <1>5, <1>6, <1>7, CallKeeps DEF SetupListener, DbusTypeOK, Unlisted
<1>8. CASE fltk
  <2>1. PICK old : old = watcher[b]
    OBVIOUS
  <2>2. SetWatchFunctions(e, b, old)
    BY <1>2, <1>8, <2>1 DEF SetupListener
  <2>3. watcher' \in [Buses -> Conns \cup {Null}]
    BY <1>1, <2>2 DEF SetWatchFunctions, DbusTypeOK
  <2>4. alive' \in BOOLEAN
    BY <2>2 DEF SetWatchFunctions
  <2>5. PICK h \in {e, Null} :
          /\ handler' = [handler EXCEPT ![b] = h]
          /\ dc' = [c \in Conns |->
                     CASE c = e -> [dc[c] EXCEPT !.watch_list = IF h = Null /\ old = e THEN {} ELSE {b}]
                       [] c # e /\ c = old -> [dc[c] EXCEPT !.watch_list = @ \ {b}]
                       [] OTHER -> dc[c]]
    BY <2>2 DEF SetWatchFunctions
  <2>6. handler' \in [Buses -> Conns \cup {Null}]
    BY <1>1, <2>5 DEF DbusTypeOK
  <2>7. ASSUME NEW c \in Conns PROVE dc'[c] \in Impl /\ dc'[c].object_list = <<>>
    <3>1. dc[c] \in Impl /\ dc[c].object_list = <<>>
      BY <1>1 DEF Unlisted
    <3>2. dc[c].watch_list \in (SUBSET Buses) \cup {NoList}
      BY <3>1 DEF Impl
    <3>3. dc[c].watch_list \ {b} \in (SUBSET Buses) \cup {NoList}
      BY <1>3, <3>2, ConnsAssumption DEF NoList
    <3>4. \A list \in (SUBSET Buses) \cup {NoList} :
            /\ [dc[c] EXCEPT !.watch_list = list] \in Impl
            /\ [dc[c] EXCEPT !.watch_list = list].object_list = <<>>
      BY <3>1 DEF Impl
    <3>5. {b} \in (SUBSET Buses) \cup {NoList} /\ {} \in (SUBSET Buses) \cup {NoList}
      BY <1>3
    <3>6. CASE c = e
      BY <2>5, <3>4, <3>5, <3>6
    <3>7. CASE c # e /\ c = old
      BY <2>5, <3>3, <3>4, <3>7
    <3>8. CASE c # e /\ c # old
      BY <2>5, <3>1, <3>8
    <3> QED
      BY <3>6, <3>7, <3>8
  <2>8. dc' \in [Conns -> Impl] /\ Unlisted'
    <3>1. dc' = [c \in Conns |-> dc'[c]]
      BY <2>5
    <3> QED
      BY <2>7, <3>1 DEF Unlisted
  <2> QED
    BY <1>4, <1>5, <1>6, <2>3, <2>4, <2>6, <2>8, CallKeeps
<1> QED
  BY <1>7, <1>8

(* What changes neither the objects nor the filters.                       *)
LEMMA SettledOtherwise ==
  ASSUME DbusInv, UNCHANGED <<objectVars, libVars>>, Moves,
         socket' \in [Buses -> Seq(DOMAIN Mail)], queue' \in [Buses -> Seq(DOMAIN Mail)],
         timers' \in SUBSET Conns, dispatching' \in Conns \cup {Null}, alive' \in BOOLEAN,
         sent' \in 0..Len(Mail), calls' \in [Conns -> Nat], stalled' \in SUBSET Buses
  PROVE  Settled
<1>1. UNCHANGED <<dc, registered, made, filters, watcher, handler>>
  BY DEF objectVars, libVars
<1>2. DbusTypeOK'
  BY <1>1 DEF DbusInv, DbusTypeOK
<1> QED
  BY <1>1, <1>2 DEF Settled, DbusInv, Unlisted

(* The parts of the type.                                                  *)
LEMMA DbusParts ==
  ASSUME DbusInv
  PROVE  /\ socket \in [Buses -> Seq(DOMAIN Mail)] /\ queue \in [Buses -> Seq(DOMAIN Mail)]
         /\ timers \in SUBSET Conns /\ dispatching \in Conns \cup {Null} /\ alive \in BOOLEAN
         /\ sent \in 0..Len(Mail) /\ stalled \in SUBSET Buses /\ NoCalls \in [Conns -> Nat]
         /\ \A e \in Conns : Connected(e) => dc[e].conn \in Buses
         /\ \A b \in Buses : handler[b] # Null => handler[b] \in Conns
         /\ DbusTypeOK
BY NoCallsTyped DEF DbusInv, DbusTypeOK, Impl, Connected

(* A call that blocks, or a wait(), tells what no timer is for.            *)
LEMMA StalledTyped ==
  ASSUME DbusInv, NEW b \in Buses, Stalled(b)
  PROVE  stalled' \in SUBSET Buses
BY DEF Stalled, DbusInv, DbusTypeOK

(* What is read goes from the socket to the queue.                         *)
Read(b, q, s) == q = [queue EXCEPT ![b] = queue[b] \o socket[b]] /\ s = [socket EXCEPT ![b] = <<>>]

LEMMA ReadsKeep ==
  ASSUME DbusInv, NEW b \in Buses, NEW q, NEW s, Read(b, q, s)
  PROVE  /\ q \in [Buses -> Seq(DOMAIN Mail)] /\ s \in [Buses -> Seq(DOMAIN Mail)]
         /\ \A c \in Buses : q[c] \o s[c] = Pending(c)
<1> USE DEF Read
<1>1. queue \in [Buses -> Seq(DOMAIN Mail)] /\ socket \in [Buses -> Seq(DOMAIN Mail)]
  BY DbusParts
<1>2. queue[b] \o socket[b] \in Seq(DOMAIN Mail) /\ (queue[b] \o socket[b]) \o <<>> = queue[b] \o socket[b]
  <2>1. queue[b] \in Seq(DOMAIN Mail) /\ socket[b] \in Seq(DOMAIN Mail)
    BY <1>1
  <2> QED
    BY <2>1, QueueMoves
<1>3. q \in [Buses -> Seq(DOMAIN Mail)] /\ s \in [Buses -> Seq(DOMAIN Mail)]
  BY <1>1, <1>2
<1>4. ASSUME NEW c \in Buses PROVE q[c] \o s[c] = Pending(c)
  <2>1. CASE c = b
    <3>1. q[c] = queue[b] \o socket[b] /\ s[c] = <<>>
      BY <1>1, <2>1
    <3> QED
      BY <1>2, <2>1, <3>1 DEF Pending
  <2>2. CASE c # b
    <3>1. q[c] = queue[c] /\ s[c] = socket[c]
      BY <1>1, <2>2
    <3> QED
      BY <3>1 DEF Pending
  <2> QED
    BY <2>1, <2>2
<1> QED
  BY <1>3, <1>4

LEMMA BlockingKeeps == ASSUME DbusInv, NEW e \in Conns, BlockingCall(e) PROVE Settled
<1>1. PICK b : b = dc[e].conn
  OBVIOUS
<1>2. b \in Buses
  BY <1>1, DbusParts DEF BlockingCall
<1>3. /\ queue' = [queue EXCEPT ![b] = queue[b] \o socket[b]] /\ socket' = [socket EXCEPT ![b] = <<>>]
      /\ Stalled(b) /\ calls' = NoCalls
      /\ UNCHANGED <<objectVars, libVars, timers, dispatching, alive, sent>>
  BY <1>1 DEF BlockingCall
<1>4. /\ queue' \in [Buses -> Seq(DOMAIN Mail)] /\ socket' \in [Buses -> Seq(DOMAIN Mail)]
      /\ \A c \in Buses : queue'[c] \o socket'[c] = Pending(c)
  <2>1. PICK q, s : q = queue' /\ s = socket'
    OBVIOUS
  <2>2. Read(b, q, s)
    BY <1>3, <2>1 DEF Read
  <2>3. /\ q \in [Buses -> Seq(DOMAIN Mail)] /\ s \in [Buses -> Seq(DOMAIN Mail)]
        /\ \A c \in Buses : q[c] \o s[c] = Pending(c)
    BY ONLY DbusInv, <1>2, <2>2, ReadsKeep
  <2> QED
    BY <2>1, <2>3
<1>5. Moves
  BY <1>3, <1>4 DEF Moves, Waits, Pending
<1>6. stalled' \in SUBSET Buses
  BY <1>2, <1>3, StalledTyped
<1> QED
  BY <1>3, <1>4, <1>5, <1>6, DbusParts, SettledOtherwise

LEMMA ArriveKeeps == DbusInv /\ Arrive => Settled
<1> SUFFICES ASSUME DbusInv, Arrive PROVE Settled
  OBVIOUS
<1>1. PICK b : b = Mail[sent + 1].bus
  OBVIOUS
<1>2. sent \in 0..Len(Mail) /\ sent < Len(Mail) /\ sent' = sent + 1
  BY DbusParts DEF Arrive
<1>3. sent + 1 \in DOMAIN Mail /\ sent' \in 0..Len(Mail)
  BY <1>2, MailNumbers
<1>4. b \in Buses
  <2>1. PICK m : m = Mail[sent + 1]
    OBVIOUS
  <2>2. m \in [bus : Buses, path : Paths]
    <3>1. PICK S : S = [bus : Buses, path : Paths]
      OBVIOUS
    <3>2. Mail \in Seq(S)
      BY <3>1, ConnsAssumption
    <3>3. m \in S
      BY ONLY <1>3, <2>1, <3>2
    <3> QED
      BY <3>1, <3>3
  <2> QED
    BY <1>1, <2>1, <2>2
<1>5. /\ socket' = [socket EXCEPT ![b] = Append(socket[b], sent + 1)] /\ calls' = NoCalls
      /\ UNCHANGED <<objectVars, libVars, queue, timers, dispatching, alive, stalled>>
  BY <1>1, <1>2 DEF Arrive
<1>6. /\ queue[b] \in Seq(DOMAIN Mail) /\ socket[b] \in Seq(DOMAIN Mail)
      /\ socket \in [Buses -> Seq(DOMAIN Mail)]
  BY <1>4, DbusParts
<1>7. Append(socket[b], sent + 1) \in Seq(DOMAIN Mail)
  BY <1>3, <1>6
<1>8. socket' \in [Buses -> Seq(DOMAIN Mail)]
  BY <1>5, <1>6, <1>7
<1>9. socket'[b] = Append(socket[b], sent + 1) /\ \A c \in Buses \ {b} : socket'[c] = socket[c]
  BY <1>4, <1>5, <1>6
<1>10. Arrives(b)
  <2>1. queue[b] \o Append(socket[b], sent + 1) = Append(queue[b] \o socket[b], sent + 1)
    <3>1. PICK q, s, m : q = queue[b] /\ s = socket[b] /\ m = sent + 1
      OBVIOUS
    <3>2. q \in Seq(DOMAIN Mail) /\ s \in Seq(DOMAIN Mail) /\ m \in DOMAIN Mail
      BY <1>3, <1>6, <3>1
    <3>3. q \o Append(s, m) = Append(q \o s, m)
      BY ONLY <3>2, QueueGrows
    <3> QED
      BY <3>1, <3>3
  <2> QED
    BY <1>5, <1>9, <2>1 DEF Arrives, Pending
<1>11. \A c \in Buses \ {b} : Waits(c)
  BY <1>5, <1>9 DEF Waits, Pending
<1>12. Moves
  BY <1>2, <1>5, <1>10, <1>11 DEF Moves
<1> QED
  BY <1>3, <1>5, <1>8, <1>12, DbusParts, SettledOtherwise

(* A message is taken from what is in the queue and what was read.         *)
LEMMA DispatchKeeps ==
  ASSUME DbusInv, NEW b \in Buses, NEW q \in [Buses -> Seq(DOMAIN Mail)], Dispatch(b, q),
         socket' \in [Buses -> Seq(DOMAIN Mail)], \A c \in Buses : q[c] \o socket'[c] = Pending(c),
         timers' \in SUBSET Conns, dispatching' \in Conns \cup {Null}, stalled' \in SUBSET Buses,
         UNCHANGED <<objectVars, libVars, sent>>
  PROVE  Settled
<1>1. DbusTypeOK /\ sent' = sent /\ sent' \in 0..Len(Mail)
  BY DbusParts
<1>2. Moves /\ queue' \in [Buses -> Seq(DOMAIN Mail)] /\ calls' \in [Conns -> Nat] /\ alive' \in BOOLEAN
  BY <1>1, TakenMoves
<1> QED
  BY <1>1, <1>2, SettledOtherwise

LEMMA ReadWatchKeeps == ASSUME DbusInv, NEW b \in Buses, ReadWatch(b) PROVE Settled
<1>1. PICK h, c : h = handler[b] /\ c = dc[h].conn
  OBVIOUS
<1>2. h \in Conns /\ (c # Null => c \in Buses)
  BY <1>1, DbusParts DEF ReadWatch, Connected
<1>4. PICK q : q = IF b \in dc[h].watch_list THEN [queue EXCEPT ![b] = queue[b] \o socket[b]] ELSE queue
  OBVIOUS
<1>5. socket' = IF b \in dc[h].watch_list THEN [socket EXCEPT ![b] = <<>>] ELSE socket
  BY <1>1 DEF ReadWatch
<1>6. /\ q \in [Buses -> Seq(DOMAIN Mail)] /\ socket' \in [Buses -> Seq(DOMAIN Mail)]
      /\ \A d \in Buses : q[d] \o socket'[d] = Pending(d)
  <2>1. CASE b \in dc[h].watch_list
    <3>1. PICK s : s = socket'
      OBVIOUS
    <3>2. Read(b, q, s)
      BY <1>4, <1>5, <2>1, <3>1 DEF Read
    <3>3. /\ q \in [Buses -> Seq(DOMAIN Mail)] /\ s \in [Buses -> Seq(DOMAIN Mail)]
          /\ \A d \in Buses : q[d] \o s[d] = Pending(d)
      BY ONLY DbusInv, b \in Buses, <3>2, ReadsKeep
    <3> QED
      BY <3>1, <3>3
  <2>2. CASE b \notin dc[h].watch_list
    BY <1>4, <1>5, <2>2, DbusParts DEF Pending
  <2> QED
    BY <2>1, <2>2
<1>7. UNCHANGED <<objectVars, libVars, dispatching, sent>> /\ stalled' \in SUBSET Buses
  <2>1. stalled' = (stalled \ {b, c}) \cup {x \in {b} \ {c} : queue'[x] # <<>> /\ ~Timed(x)}
    BY <1>1 DEF ReadWatch
  <2> QED
    BY <2>1, DbusParts DEF ReadWatch
<1>8. \/ c # Null /\ q[c] # <<>> /\ Dispatch(c, q) /\ TimersAfter(h, c)
      \/ queue' = q /\ calls' = NoCalls /\ UNCHANGED timers /\ alive' \in BOOLEAN
  BY <1>1, <1>4 DEF ReadWatch
<1>9. CASE c # Null /\ Dispatch(c, q) /\ TimersAfter(h, c)
  <2>1. timers' \in SUBSET Conns
    BY <1>2, <1>9, DbusParts DEF TimersAfter
  <2> QED
    BY <1>2, <1>6, <1>7, <1>9, <2>1, DbusParts, DispatchKeeps
<1>10. CASE queue' = q /\ calls' = NoCalls /\ UNCHANGED timers /\ alive' \in BOOLEAN
  <2>1. Moves
    BY <1>6, <1>7, <1>10 DEF Moves, Waits, Pending
  <2> QED
    BY <1>6, <1>7, <1>10, <2>1, DbusParts, SettledOtherwise
<1> QED
  BY <1>8, <1>9, <1>10

LEMMA DispatchNextKeeps == DbusInv /\ DispatchNext => Settled
<1> SUFFICES ASSUME DbusInv, DispatchNext PROVE Settled
  OBVIOUS
<1>1. PICK b : b = dc[dispatching].conn
  OBVIOUS
<1>2. b \in Buses
  BY <1>1, DbusParts DEF DispatchNext
<1>3. Dispatch(b, queue) /\ UNCHANGED <<objectVars, libVars, socket, timers, dispatching, sent, stalled>>
  BY <1>1 DEF DispatchNext
<1>4. \A c \in Buses : queue[c] \o socket'[c] = Pending(c)
  BY <1>3 DEF Pending
<1> QED
  BY <1>2, <1>3, <1>4, DbusParts, DispatchKeeps

LEMMA WaitKeeps == ASSUME DbusInv, NEW e \in Conns, Wait(e) PROVE Settled
<1>1. PICK b : b = dc[e].conn
  OBVIOUS
<1>2. b \in Buses
  BY <1>1, DbusParts DEF Wait
<1>3. Stalled(b) /\ UNCHANGED <<objectVars, libVars, timers, dispatching, sent>>
  BY <1>1 DEF Wait
<1>4. stalled' \in SUBSET Buses
  BY <1>2, <1>3, StalledTyped
<1>5. CASE Dispatch(b, queue) /\ UNCHANGED socket
  <2>1. \A c \in Buses : queue[c] \o socket'[c] = Pending(c)
    BY <1>5 DEF Pending
  <2> QED
    BY <1>2, <1>3, <1>4, <1>5, <2>1, DbusParts, DispatchKeeps
<1>6. CASE queue[b] = <<>> /\ Dispatch(b, [queue EXCEPT ![b] = socket[b]]) /\ socket' = [socket EXCEPT ![b] = <<>>]
  <2>1. PICK q : q = [queue EXCEPT ![b] = queue[b] \o socket[b]]
    OBVIOUS
  <2>2. queue[b] \o socket[b] = socket[b]
    BY <1>2, <1>6, DbusTypes, DbusParts, QueueMoves
  <2>3. Dispatch(b, q)
    BY <1>6, <2>1, <2>2
  <2>4. /\ q \in [Buses -> Seq(DOMAIN Mail)] /\ socket' \in [Buses -> Seq(DOMAIN Mail)]
        /\ \A c \in Buses : q[c] \o socket'[c] = Pending(c)
    <3>1. PICK s : s = socket'
      OBVIOUS
    <3>2. Read(b, q, s)
      BY <1>6, <2>1, <3>1 DEF Read
    <3>3. /\ q \in [Buses -> Seq(DOMAIN Mail)] /\ s \in [Buses -> Seq(DOMAIN Mail)]
          /\ \A c \in Buses : q[c] \o s[c] = Pending(c)
      BY ONLY DbusInv, <1>2, <3>2, ReadsKeep
    <3> QED
      BY <3>1, <3>3
  <2> QED
    BY <1>2, <1>3, <1>4, <2>3, <2>4, DbusParts, DispatchKeeps
<1> QED
  BY <1>1, <1>5, <1>6 DEF Wait

(* A timer that runs, an end of it, and a handler without a watch_list.    *)
LEMMA QuietKeeps ==
  ASSUME DbusInv, \/ DispatchEnd \/ \E e \in Conns : Timeout(e)
                  \/ \E b \in Buses : ReadWatchBare(b)
  PROVE  Settled
<1>1. /\ UNCHANGED <<objectVars, libVars, socket, queue, sent>> /\ calls' = NoCalls
      /\ timers' \in SUBSET timers /\ dispatching' \in Conns \cup {Null}
      /\ alive' \in BOOLEAN /\ stalled' \in SUBSET Buses
  BY DbusParts DEF DispatchEnd, Timeout, ReadWatchBare
<1> QED
  BY <1>1, DbusParts, Unmoved, SettledOtherwise

LEMMA DbusSettles == DbusInv /\ DbusNext => Settled
BY ObjectKeeps, SetupKeeps, BlockingKeeps, WaitKeeps, ReadWatchKeeps, DispatchNextKeeps, QuietKeeps, ArriveKeeps
DEF DbusNext, Object, Loop

LEMMA DbusStepKeeps == DbusInv /\ [DbusNext]_dbusVars => DbusInv'
<1> SUFFICES ASSUME DbusInv, [DbusNext]_dbusVars PROVE DbusInv'
  OBVIOUS
<1>1. CASE DbusNext
  BY <1>1, DbusSettles, MovesKeepOrder DEF Settled, DbusInv
<1>2. CASE UNCHANGED dbusVars
  BY <1>2 DEF dbusVars, objectVars, libVars, DbusInv, DbusTypeOK, Unlisted, PendingOrdered, Pending
<1> QED
  BY <1>1, <1>2

(* What a step does to the objects, as ListenersAreCalled has it.          *)
CalledRight ==
  /\ (\A b \in Buses : ~Takes(b)) => calls' = NoCalls
  /\ \A b \in {c \in Buses : Takes(c)} : \A e \in Conns :
       /\ calls'[e] <= Cardinality(FiltersOf(e, b))
       /\ alive' /\ Expects(e, b, Head(Pending(b))) =>
            \/ calls'[e] = Cardinality(FiltersOf(e, b))
            \/ \E c \in Conns : Before(b, c, e) /\ calls'[c] > 0

LEMMA TakenCalls ==
  ASSUME DbusInv, NEW b \in Buses, Taken(b), NEW e \in Conns
  PROVE  /\ calls'[e] <= Cardinality(FiltersOf(e, b))
         /\ alive' /\ Expects(e, b, Head(Pending(b))) =>
              \/ calls'[e] = Cardinality(FiltersOf(e, b))
              \/ \E c \in Conns : Before(b, c, e) /\ calls'[c] > 0
<1>1. DbusTypeOK
  BY DEF DbusInv
<1>2. PICK m : m = Head(Pending(b))
  OBVIOUS
<1>3. PICK ghosts \in SUBSET Conns, k \in DOMAIN filters[b] \cup {0}, ends \in BOOLEAN : Given(b, m, ghosts, k, ends)
  BY <1>2 DEF Taken, GivenSomehow
<1>4. \A c \in Conns : calls'[c] = Cardinality(CallsOf(c, b, m, ghosts, k))
  BY <1>3 DEF Given
<1>5. calls'[e] <= Cardinality(FiltersOf(e, b))
  BY <1>1, <1>4, CallsCounted
<1>6. ASSUME alive', Expects(e, b, m)
      PROVE  \/ calls'[e] = Cardinality(FiltersOf(e, b))
             \/ \E c \in Conns : Before(b, c, e) /\ calls'[c] > 0
  <2>1. Wants(e, m)
    BY <1>6 DEF Wants, HaveRegistered, Expects, DbusInv, Unlisted
  <2>2. /\ filters[b] \in Seq(Conns) /\ Len(filters[b]) \in Nat /\ DOMAIN filters[b] = 1..Len(filters[b])
        /\ k \in 0..Len(filters[b])
    BY <1>1, FiltersCounted
  <2>3. CASE FiltersOf(e, b) \subseteq 1..k
    <3>1. CallsOf(e, b, m, ghosts, k) = FiltersOf(e, b)
      BY <2>1, <2>2, <2>3 DEF CallsOf, Called, FiltersOf
    <3> QED
      BY <1>4, <3>1
  <2>4. ASSUME NEW n \in FiltersOf(e, b), n \notin 1..k
        PROVE  \E c \in Conns : Before(b, c, e) /\ calls'[c] > 0
    <3>1. n \in 1..Len(filters[b]) /\ k < n /\ k < Len(filters[b])
      BY <2>2, <2>4 DEF FiltersOf
    <3>2. k > 0 /\ Called(b, m, ghosts, k)
      BY <1>3, <1>6, <3>1 DEF Given
    <3>3. k \in DOMAIN filters[b] /\ k \in 1..k
      BY <2>2, <3>2
    <3>4. PICK c \in Conns : c = filters[b][k]
      BY <2>2, <3>3
    <3>5. CallsOf(c, b, m, ghosts, k) # {}
      BY <3>2, <3>3, <3>4 DEF CallsOf
    <3>6. calls'[c] > 0
      BY <1>1, <1>4, <3>5, CallsCounted
    <3>7. Before(b, c, e)
      BY <2>4, <3>1, <3>3, <3>4 DEF Before, FiltersOf
    <3> QED
      BY <3>6, <3>7
  <2> QED
    BY <2>3, <2>4
<1> QED
  BY <1>2, <1>5, <1>6

LEMMA StepCalls == DbusInv /\ DbusNext => CalledRight
<1> SUFFICES ASSUME DbusInv, DbusNext PROVE CalledRight
  OBVIOUS
<1>1. Moves
  BY DbusSettles DEF Settled
<1>2. ASSUME NEW b \in Buses, Waits(b) \/ Arrives(b) PROVE ~Takes(b)
  <2>1. Pending(b) \in Seq(Nat) /\ sent + 1 \in Nat
    BY DbusTypes DEF DbusInv
  <2>2. Pending(b) # <<>> =>
          Append(Pending(b), sent + 1) # <<>> /\ Head(Append(Pending(b), sent + 1)) = Head(Pending(b))
    BY <2>1, QueueGrows
  <2> QED
    BY <1>2, <2>2 DEF Takes, Waits, Arrives
<1>3. ASSUME NEW b \in Buses, Taken(b) PROVE Takes(b)
  <2>1. Pending(b) \in Seq(Nat) /\ sent \in Nat /\ Ordered(Pending(b), sent)
    BY DbusTypes DEF DbusInv, PendingOrdered
  <2>2. Pending(b) # <<>> /\ Pending(b)' = Tail(Pending(b))
    BY <1>3 DEF Taken
  <2>3. Tail(Pending(b)) # <<>> => Head(Tail(Pending(b))) # Head(Pending(b))
    BY <2>1, <2>2, OrderedMoves
  <2> QED
    BY <2>2, <2>3 DEF Takes
<1>4. CASE calls' = NoCalls /\ \A b \in Buses : Waits(b) \/ Arrives(b)
  BY <1>2, <1>4 DEF CalledRight
<1>5. ASSUME NEW b \in Buses, Taken(b), \A c \in Buses \ {b} : Waits(c) PROVE CalledRight
  <2>1. \A c \in Buses : Takes(c) <=> c = b
    BY <1>2, <1>3, <1>5
  <2> QED
    BY <1>5, <2>1, TakenCalls DEF CalledRight
<1> QED
  BY <1>1, <1>4, <1>5 DEF Moves
-------------------------------------------------------------------------------
(* Windows: the colour.                                                    *)

Shown(value) == IF value = None THEN Gray ELSE value

(* The window that hears of the settings is open, unless orphaned says     *)
(* otherwise, and the colour is that of the setting it has; while no event *)
(* waits, it has the manager's.                                            *)
ColourInv ==
  running =>
    /\ xcli = None => background = Gray /\ ~event
    /\ xcli # None /\ ~orphaned =>
         /\ xcli \in windows /\ background = Shown(knows)
         /\ ~event => knows = setting

(* Windows: the icons.                                                     *)

(* What is kept for an icon is of the theme that is loaded, and a widget   *)
(* that is promised an icon has that icon's item and no other.             *)
PathsFollow ==
  \A k \in DOMAIN loader.items :
    loader.items[k].path = find_icon(loader.theme, loader.items[k].name, loader.items[k].context)

IsOf(item, icon) == item.name = icon[1] /\ item.context = icon[2]

IconFollows(g) ==
  promised[g] # None =>
    /\ inited
    /\ ItemsOf(loader.items, g) # {}
    /\ \A k \in ItemsOf(loader.items, g) : IsOf(loader.items[k], promised[g])
    /\ ~late => image[g] = IF promised[g] \in Has[loader.theme]
                             THEN <<loader.theme, promised[g][1], promised[g][2]>> ELSE None

IconsInv == running => (~late => PathsFollow) /\ \A g \in Widgets : IconFollows(g)

WindowInv == WindowTypeOK /\ ColourInv /\ IconsInv

(* The type of the icon loader, with one item for a name.                  *)
OnePerName(items) == \A j, k \in DOMAIN items : items[j].name = items[k].name => j = k

LoaderTypeOK ==
  /\ loader \in [theme : Themes \cup {None}, items : Seq(Item)]
  /\ OnePerName(loader.items) /\ (~inited => loader.items = <<>>)

(* The variables that have nothing to do with icons, and those that have.  *)
ClientTypeOK ==
  /\ windows \in SUBSET Wins /\ closed \in SUBSET Wins /\ knows \in Colors \cup {None}
  /\ xcli \in Wins \cup {None} /\ setting \in Colors \cup {None}
  /\ background \in Colors \cup {Gray} /\ event \in BOOLEAN /\ orphaned \in BOOLEAN

IconTypeOK ==
  /\ seen_theme \in [theme : Themes \cup {None}, freed : BOOLEAN]
  /\ LoaderTypeOK
  /\ image \in [Widgets -> Image \cup {None}]
  /\ promised \in [Widgets -> (Icons \X Contexts) \cup {None}]
  /\ living \in SUBSET Widgets /\ late \in BOOLEAN /\ running \in BOOLEAN

LEMMA WindowTypes ==
  /\ WindowTypeOK <=> ClientTypeOK /\ IconTypeOK
  /\ WindowTypeOK' <=> ClientTypeOK' /\ IconTypeOK'
BY DEF WindowTypeOK, ClientTypeOK, IconTypeOK, LoaderTypeOK, OnePerName

(* No window has heard of anything yet.                                    *)
LEMMA WindowInitially == WindowInit => WindowInv
<1> SUFFICES ASSUME WindowInit PROVE WindowInv
  OBVIOUS
<1> USE DEF WindowInit
<1>1. loader = [theme |-> None, items |-> <<>>] /\ <<>> \in Seq(Item)
  BY DEF NoLoader
<1>2. LoaderTypeOK
  BY <1>1 DEF LoaderTypeOK, OnePerName
<1>3. IconTypeOK /\ ClientTypeOK
  BY <1>2 DEF IconTypeOK, ClientTypeOK
<1>4. ColourInv /\ IconsInv
  BY <1>1 DEF ColourInv, IconsInv, PathsFollow, IconFollows
<1> QED
  BY <1>3, <1>4, WindowTypes DEF WindowInv

(* Opening the window that is to hear of them gives it all the settings;   *)
(* what is published later waits for it as an event.                       *)
LEMMA ColourKeeps == WindowTypeOK /\ ColourInv /\ WindowNext => ColourInv'
<1> SUFFICES ASSUME WindowTypeOK, ColourInv, WindowNext, running, running' PROVE ColourInv'
  BY DEF ColourInv, WindowNext, Windows, IconCalls, Settings, SetIcon, GetIcon, ReloadTheme, InitTheme, Repoll, DeleteWidget, Open,
         Close, Publish, XEvent
<1>1. CASE UNCHANGED <<windows, clientVars>>
  BY <1>1 DEF ColourInv, clientVars, Shown
<1>2. ASSUME NEW w \in Wins, NEW icons \in BOOLEAN, Open(w, icons)
      PROVE  ColourInv'
  <2>1. /\ xcli' = w /\ w # None /\ w \in windows' /\ knows' = setting
        /\ setting' = setting /\ event' = event /\ orphaned' = (orphaned \/ event)
        /\ background' = IF setting = None THEN background ELSE Shown(setting)
    BY <1>2, WindowAssumption DEF Open, xsettings_cb, Shown
  <2>2. ~orphaned' => ~orphaned /\ ~event
    BY <2>1
  <2>3. ~orphaned /\ ~event /\ setting = None => background = Gray
    BY DEF ColourInv, Shown
  <2> QED
    BY <2>1, <2>2, <2>3 DEF ColourInv, Shown
<1>3. ASSUME NEW w \in Wins, Close(w)
      PROVE  ColourInv'
  <2>1. /\ UNCHANGED <<xcli, setting, event, background>> /\ windows' = windows \ {w}
        /\ knows' = IF xcli = w THEN None ELSE knows
        /\ orphaned' = (orphaned \/ xcli = w)
    BY <1>3 DEF Close
  <2> QED
    BY <2>1 DEF ColourInv, Shown
<1>4. ASSUME NEW value \in Colors \cup {None}, Publish(value)
      PROVE  ColourInv'
  <2>1. UNCHANGED <<xcli, knows, windows, background, orphaned>> /\ event' = (xcli # None)
    BY <1>4 DEF Publish
  <2> QED
    BY <2>1 DEF ColourInv, Shown
<1>5. CASE XEvent
  <2>1. UNCHANGED <<xcli, windows, setting, orphaned>> /\ event' = FALSE /\ event
    BY <1>5 DEF XEvent
  <2>2. xcli # None
    BY <2>1 DEF ColourInv
  <2>3. CASE xcli \in windows
    <3>1. /\ knows' = setting
          /\ background' = IF knows = setting THEN background ELSE Shown(setting)
      BY <1>5, <2>3 DEF XEvent, xsettings_cb, Shown
    <3> QED
      BY <2>1, <2>2, <3>1 DEF ColourInv, Shown
  <2>4. CASE xcli \notin windows
    BY <2>1, <2>2, <2>4 DEF ColourInv
  <2> QED
    BY <2>3, <2>4
<1>6. ASSUME NEW g \in Widgets, DeleteWidget(g) \/ \E i \in Icons, context \in Contexts : SetIcon(g, i, context)
      PROVE  UNCHANGED <<windows, clientVars>>
  BY <1>6 DEF DeleteWidget, SetIcon
<1>7. ASSUME NEW i \in Icons, NEW context \in Contexts, NEW load \in BOOLEAN, GetIcon(i, context, load)
      PROVE  UNCHANGED <<windows, clientVars>>
  BY <1>7 DEF GetIcon
<1>8. ASSUME NEW theme \in Themes, ReloadTheme(theme) \/ InitTheme(theme)
      PROVE  UNCHANGED <<windows, clientVars>>
  BY <1>8 DEF ReloadTheme, InitTheme
<1>9. CASE Repoll
  BY <1>1, <1>9 DEF Repoll
<1> QED
  BY <1>1, <1>2, <1>3, <1>4, <1>5, <1>6, <1>7, <1>8, <1>9
  DEF WindowNext, Windows, IconCalls, Settings

(* Items that are added for a widget leave those that are there.           *)
Extends(items, old, theme, w) ==
  /\ items \in Seq(Item) /\ OnePerName(items)
  /\ \A k \in DOMAIN old : k \in DOMAIN items /\ items[k] = old[k]
  /\ \A k \in DOMAIN items \ DOMAIN old :
       /\ items[k].widget = w
       /\ items[k].path = find_icon(theme, items[k].name, items[k].context)

LEMMA ItemIsCreated ==
  ASSUME NEW theme \in Themes, NEW w \in Widgets \cup {None}, NEW i \in Icons, NEW context \in Contexts,
         NEW old, NEW items, Extends(items, old, theme, w)
  PROVE  Extends(get_or_create_item(items, i, context, theme, w), old, theme, w)
<1> DEFINE item == [name |-> i, context |-> context, path |-> find_icon(theme, i, context), widget |-> w]
<1>1. CASE find_item(items, i) # {}
  BY <1>1 DEF get_or_create_item
<1>2. CASE find_item(items, i) = {}
  <2>1. PICK more : more = Append(items, item)
    OBVIOUS
  <2>2. /\ item \in Item /\ item.widget = w /\ item.name = i
        /\ item.path = find_icon(theme, item.name, item.context)
    BY DEF Item, find_icon
  <2>3. items \in Seq(Item) /\ OnePerName(items)
    BY DEF Extends
  <2> HIDE DEF item
  <2>4. /\ more \in Seq(Item) /\ DOMAIN more = DOMAIN items \cup {Len(items) + 1}
        /\ \A k \in DOMAIN items : more[k] = items[k]
        /\ more[Len(items) + 1] = item
    BY <2>1, <2>2, <2>3
  <2>5. \A k \in DOMAIN items : items[k].name # i
    BY <1>2 DEF find_item
  <2>6. OnePerName(more)
    BY <2>2, <2>3, <2>4, <2>5 DEF OnePerName
  <2>7. Extends(more, old, theme, w)
    BY <2>2, <2>4, <2>6 DEF Extends
  <2> QED
    BY <1>2, <2>1, <2>7 DEF get_or_create_item, item
<1> QED
  BY <1>1, <1>2

(* So other widgets' icons stay.                                           *)
LEMMA OthersStay ==
  ASSUME IconTypeOK, IconsInv, running, NEW w \in Widgets \cup {None}, NEW items,
         Extends(items, loader.items, loader.theme, w),
         loader' = [loader EXCEPT !.items = items], late' = late,
         NEW g \in Widgets \ {w}, promised'[g] = promised[g], image'[g] = image[g]
  PROVE  IconFollows(g)'
<1>1. loader'.theme = loader.theme /\ loader'.items = items
  BY DEF IconTypeOK, LoaderTypeOK
<1>2. ItemsOf(items, g) = ItemsOf(loader.items, g) /\ \A k \in ItemsOf(items, g) : items[k] = loader.items[k]
  BY DEF ItemsOf, Extends
<1> QED
  BY <1>1, <1>2 DEF IconsInv, IconFollows, inited

(* And the loader is well-formed, with the paths of its theme.             *)
LEMMA PathsStay ==
  ASSUME IconTypeOK, inited, NEW w, NEW items, Extends(items, loader.items, loader.theme, w),
         loader' = [loader EXCEPT !.items = items]
  PROVE  LoaderTypeOK' /\ (PathsFollow => PathsFollow')
<1>1. loader'.theme = loader.theme /\ loader'.items = items
  BY DEF IconTypeOK, LoaderTypeOK
<1>2. LoaderTypeOK'
  BY <1>1 DEF IconTypeOK, LoaderTypeOK, Extends, inited
<1>3. PathsFollow => PathsFollow'
  BY <1>1 DEF PathsFollow, Extends
<1> QED
  BY <1>2, <1>3

LEMMA LoaderKept ==
  ASSUME IconTypeOK, inited, NEW w
  PROVE  loader.theme \in Themes /\ Extends(loader.items, loader.items, loader.theme, w)
BY DEF IconTypeOK, LoaderTypeOK, Extends, inited

(* What is loaded in the theme that is there.                              *)
LEMMA LoadedImage ==
  ASSUME NEW items \in Seq(Item), OnePerName(items), NEW i, NEW img \in Loaded(items, i)
  PROVE  \E k \in find_item(items, i) : items[k].path # None /\ img = <<items[k].path, i, items[k].context>>
BY DEF Loaded, ImageOf, find_item

LEMMA SetThemedKeeps ==
  ASSUME WindowInv, running, NEW g \in Widgets, NEW i \in Icons, NEW context \in Contexts, SetThemed(g, i, context)
  PROVE  IconsInv' /\ LoaderTypeOK' /\ promised' \in [Widgets -> (Icons \X Contexts) \cup {None}]
         /\ image' \in [Widgets -> Image \cup {None}]
<1>1. inited /\ IconTypeOK /\ IconsInv /\ UNCHANGED <<running, living, late>>
  BY WindowTypes DEF SetThemed, WindowInv
<1>2. PICK items :
        /\ items = get_or_create_item(loader.items, i, context, loader.theme, g)
        /\ loader' = [loader EXCEPT !.items =
             IF Loaded(items, i) # {} THEN items
             ELSE get_or_create_item(items, Fallback[i], context, loader.theme, g)]
  BY DEF SetThemed
<1>3. Extends(items, loader.items, loader.theme, g)
  BY <1>1, <1>2, LoaderKept, ItemIsCreated
<1>4. Fallback[i] \in Icons
  BY WindowAssumption
<1>5. PICK after : /\ after = IF Loaded(items, i) # {} THEN items
                              ELSE get_or_create_item(items, Fallback[i], context, loader.theme, g)
                   /\ Extends(after, loader.items, loader.theme, g)
  BY <1>1, <1>3, <1>4, LoaderKept, ItemIsCreated
<1>6. loader' = [loader EXCEPT !.items = after]
  BY <1>2, <1>5
<1>7. loader'.theme = loader.theme /\ loader'.items = after /\ loader.theme \in Themes
  BY <1>1, <1>6, LoaderKept DEF IconTypeOK, LoaderTypeOK
<1>8. LoaderTypeOK' /\ (PathsFollow => PathsFollow')
  BY <1>1, <1>5, <1>6, PathsStay
<1>9. ASSUME Follows(after, g, i, context)
      PROVE  /\ promised' = [promised EXCEPT ![g] = <<i, context>>]
             /\ \E k \in find_item(after, i) : /\ after[k].path # None
                                               /\ image' = [image EXCEPT ![g] = <<after[k].path, i, context>>]
  <2>1. /\ promised' = [promised EXCEPT ![g] = <<i, context>>]
        /\ image' = [image EXCEPT ![g] = CHOOSE img \in Loaded(after, i) : TRUE]
    BY <1>7, <1>9 DEF SetThemed
  <2>2. PICK img \in Loaded(after, i) : image' = [image EXCEPT ![g] = img]
    BY <1>9, <2>1 DEF Follows
  <2>3. PICK k \in find_item(after, i) : after[k].path # None /\ img = <<after[k].path, i, after[k].context>>
    BY <1>5, LoadedImage DEF Extends
  <2>4. after[k].context = context
    BY <1>9, <2>3 DEF Follows
  <2> QED
    BY <2>1, <2>2, <2>3, <2>4
<1>10. ASSUME ~Follows(after, g, i, context)
       PROVE  promised' = [promised EXCEPT ![g] = None] /\ image' = [image EXCEPT ![g] = None]
  BY <1>7, <1>10 DEF SetThemed
<1>11. ASSUME NEW h \in Widgets \ {g} PROVE IconFollows(h)'
  <2>1. promised'[h] = promised[h] /\ image'[h] = image[h]
    BY <1>1, <1>9, <1>10 DEF IconTypeOK
  <2> QED
    BY <1>1, <1>5, <1>6, <2>1, OthersStay
<1>12. IconFollows(g)'
  <2>1. CASE Follows(after, g, i, context)
    <3>1. PICK k \in find_item(after, i) : /\ after[k].path # None
                                           /\ image' = [image EXCEPT ![g] = <<after[k].path, i, context>>]
      BY <1>9, <2>1
    <3>2. promised'[g] = <<i, context>> /\ image'[g] = <<after[k].path, i, context>>
      BY <1>1, <1>9, <2>1, <3>1 DEF IconTypeOK
    <3>3. ItemsOf(after, g) = find_item(after, i) /\ \A n \in find_item(after, i) : after[n].context = context
      BY <2>1 DEF Follows
    <3>4. \A n \in ItemsOf(after, g) : IsOf(after[n], <<i, context>>)
      BY <3>3 DEF IsOf, find_item
    <3>5. ASSUME ~late PROVE <<i, context>> \in Has[loader.theme] /\ after[k].path = loader.theme
      <4>1. k \in DOMAIN after /\ after[k].name = i /\ after[k].context = context
        BY <3>1, <3>3 DEF find_item
      <4>2. after[k].path = find_icon(loader.theme, i, context)
        BY <1>1, <1>7, <1>8, <3>5, <4>1 DEF IconsInv, PathsFollow
      <4> QED
        BY <3>1, <4>2 DEF find_icon
    <3>6. (late' => late) /\ inited'
      BY <1>1, <1>7 DEF inited
    <3>7. ItemsOf(after, g) # {}
      BY <3>1, <3>3
    <3>8. ~late' => image'[g] = <<loader.theme, i, context>> /\ promised'[g] \in Has[loader.theme]
      BY <1>1, <3>2, <3>5
    <3>9. promised'[g][1] = i /\ promised'[g][2] = context
      BY <3>2
    <3> QED
      BY <1>7, <3>2, <3>4, <3>6, <3>7, <3>8, <3>9 DEF IconFollows
  <2>2. CASE ~Follows(after, g, i, context)
    BY <1>1, <1>10, <2>2 DEF IconFollows, IconTypeOK
  <2> QED
    BY <2>1, <2>2
<1>13. IconsInv'
  BY <1>1, <1>8, <1>11, <1>12 DEF IconsInv
<1>14. promised' \in [Widgets -> (Icons \X Contexts) \cup {None}] /\ image' \in [Widgets -> Image \cup {None}]
  <2>1. CASE Follows(after, g, i, context)
    <3>1. PICK k \in find_item(after, i) : /\ after[k].path # None
                                           /\ image' = [image EXCEPT ![g] = <<after[k].path, i, context>>]
      BY <1>9, <2>1
    <3>2. k \in DOMAIN after /\ after \in Seq(Item)
      BY <1>5, <3>1 DEF find_item, Extends
    <3>3. after[k] \in Item
      BY <3>2
    <3>4. <<after[k].path, i, context>> \in Image /\ <<i, context>> \in Icons \X Contexts
      BY <3>1, <3>3 DEF Item, Image
    <3> QED
      BY <1>1, <1>9, <2>1, <3>1, <3>4 DEF IconTypeOK
  <2>2. CASE ~Follows(after, g, i, context)
    BY <1>1, <1>10, <2>2 DEF IconTypeOK
  <2> QED
    BY <2>1, <2>2
<1> QED
  BY <1>8, <1>13, <1>14

LEMMA SetIconKeeps ==
  ASSUME WindowInv, NEW g \in Widgets, NEW i \in Icons, NEW context \in Contexts, SetIcon(g, i, context)
  PROVE  IconTypeOK' /\ IconsInv'
<1>1. running /\ IconTypeOK /\ IconsInv /\ UNCHANGED <<seen_theme>>
  BY WindowTypes DEF SetIcon, WindowInv
<1>2. CASE NoInstance
  BY <1>1, <1>2 DEF NoInstance, loaderVars, IconTypeOK, LoaderTypeOK, IconsInv, inited
<1>3. CASE SetFile(g)
  <2>1. /\ loader' = loader /\ promised' = [promised EXCEPT ![g] = None]
        /\ image' = [image EXCEPT ![g] = None] /\ UNCHANGED <<running, living, late>>
    BY <1>3 DEF SetFile
  <2>2. ASSUME NEW h \in Widgets PROVE IconFollows(h)'
    BY <1>1, <2>1 DEF IconsInv, IconFollows, ItemsOf, IconTypeOK, inited
  <2>3. IconsInv'
    BY <1>1, <2>1, <2>2 DEF IconsInv, PathsFollow
  <2> QED
    BY <1>1, <2>1, <2>3 DEF IconTypeOK, LoaderTypeOK, inited
<1>4. CASE SetThemed(g, i, context)
  <2>1. UNCHANGED <<running, living, late>>
    BY <1>4 DEF SetThemed
  <2> QED
    BY <1>1, <1>4, <2>1, SetThemedKeeps DEF IconTypeOK
<1> QED
  BY <1>2, <1>3, <1>4 DEF SetIcon

LEMMA GetIconKeeps ==
  ASSUME WindowInv, NEW i \in Icons, NEW context \in Contexts, NEW load \in BOOLEAN, GetIcon(i, context, load)
  PROVE  IconTypeOK' /\ IconsInv'
<1>1. running /\ IconTypeOK /\ IconsInv /\ UNCHANGED <<seen_theme>>
  BY WindowTypes DEF GetIcon, WindowInv
<1>2. CASE NoInstance
  BY <1>1, <1>2 DEF NoInstance, loaderVars, IconTypeOK, LoaderTypeOK, IconsInv, inited
<1>3. CASE GetItem(i, context, load)
  <2>1. inited /\ Fallback[i] \in Icons /\ UNCHANGED <<image, promised, living, late, running>>
    BY <1>3, WindowAssumption DEF GetItem
  <2>2. PICK after : /\ Extends(after, loader.items, loader.theme, None)
                     /\ loader' = [loader EXCEPT !.items = after]
    <3>1. PICK items, other :
            /\ items = get_or_create_item(loader.items, i, context, loader.theme, None)
            /\ other = get_or_create_item(items, Fallback[i], context, loader.theme, None)
            /\ \/ loader' = [loader EXCEPT !.items = items]
               \/ loader' = [loader EXCEPT !.items = other]
      BY <1>3 DEF GetItem
    <3>2. Extends(items, loader.items, loader.theme, None)
      BY <1>1, <2>1, <3>1, LoaderKept, ItemIsCreated
    <3>3. Extends(other, loader.items, loader.theme, None)
      BY <1>1, <2>1, <3>1, <3>2, LoaderKept, ItemIsCreated
    <3> QED
      BY <3>1, <3>2, <3>3
  <2>3. LoaderTypeOK' /\ (PathsFollow => PathsFollow')
    BY <1>1, <2>1, <2>2, PathsStay
  <2>4. ASSUME NEW g \in Widgets PROVE IconFollows(g)'
    <3>1. promised'[g] = promised[g] /\ image'[g] = image[g] /\ g # None
      BY <2>1, WindowAssumption
    <3> QED
      BY <1>1, <2>1, <2>2, <3>1, OthersStay
  <2> QED
    BY <1>1, <2>1, <2>3, <2>4 DEF IconTypeOK, IconsInv
<1> QED
  BY <1>2, <1>3 DEF GetIcon

(* A theme that is loaded gives every widget the image of its item.        *)
LEMMA ReloadKeeps ==
  ASSUME WindowInv, running, NEW theme \in Themes, Reloaded(theme), UNCHANGED <<promised, living>>
  PROVE  IconsInv' /\ LoaderTypeOK' /\ image' \in [Widgets -> Image \cup {None}]
         /\ running' \in BOOLEAN /\ late' \in BOOLEAN
<1>0. IconTypeOK /\ IconsInv
  BY WindowTypes DEF WindowInv
<1>1. PICK items, shown :
        /\ items = Renewed(theme)
        /\ loader' = [theme |-> theme, items |-> items] /\ late' = FALSE
        /\ image' = [g \in Widgets |-> ImageShown(items, g)]
        /\ running' \in IF \E k \in shown : loader.items[k].widget \notin living THEN BOOLEAN ELSE {TRUE}
  BY DEF Reloaded
<1>2. theme # None /\ inited' /\ loader'.theme = theme /\ loader'.items = items
  BY <1>1, WindowAssumption DEF inited
<1>3. Len(loader.items) \in Nat /\ DOMAIN loader.items = 1..Len(loader.items)
  BY <1>0 DEF IconTypeOK, LoaderTypeOK
<1>4. /\ DOMAIN items = DOMAIN loader.items
      /\ \A k \in DOMAIN items :
           /\ items[k] \in Item
           /\ items[k].name = loader.items[k].name /\ items[k].context = loader.items[k].context
           /\ items[k].widget = loader.items[k].widget
           /\ items[k].path = find_icon(theme, items[k].name, items[k].context)
  <2>1. DOMAIN items = DOMAIN loader.items
    BY <1>1 DEF Renewed
  <2>2. ASSUME NEW k \in DOMAIN loader.items
        PROVE  /\ items[k] \in Item
               /\ items[k].name = loader.items[k].name /\ items[k].context = loader.items[k].context
               /\ items[k].widget = loader.items[k].widget
               /\ items[k].path = find_icon(theme, items[k].name, items[k].context)
    <3>1. PICK old : old = loader.items[k] /\ old \in Item
      BY <1>0, <1>3 DEF IconTypeOK, LoaderTypeOK
    <3>2. PICK path \in Themes \cup {None} : path = find_icon(theme, old.name, old.context)
      BY DEF find_icon
    <3>3. items[k] = [old EXCEPT !.path = path]
      BY <1>1, <3>1, <3>2 DEF Renewed
    <3>4. /\ items[k] \in Item /\ items[k].name = old.name /\ items[k].context = old.context
          /\ items[k].widget = old.widget /\ items[k].path = path
      BY <3>1, <3>3 DEF Item
    <3> QED
      BY <3>1, <3>2, <3>4
  <2> QED
    BY <2>1, <2>2
<1>5. LoaderTypeOK'
  <2>1. items \in [1..Len(loader.items) -> Item]
    BY <1>1, <1>3, <1>4 DEF Renewed
  <2>2. items \in Seq(Item)
    BY <1>3, <2>1
  <2>3. OnePerName(items)
    BY <1>0, <1>4 DEF IconTypeOK, LoaderTypeOK, OnePerName
  <2>4. loader' \in [theme : Themes \cup {None}, items : Seq(Item)]
    BY <1>1, <2>2
  <2> QED
    BY <1>2, <2>3, <2>4 DEF LoaderTypeOK
<1>6. PathsFollow'
  BY <1>2, <1>4 DEF PathsFollow
<1>7. ASSUME NEW g \in Widgets PROVE ItemsOf(items, g) = ItemsOf(loader.items, g)
  BY <1>4 DEF ItemsOf
<1>8. ASSUME NEW g \in Widgets, ItemsOf(items, g) # {}
      PROVE  Max(ItemsOf(items, g)) \in ItemsOf(items, g)
  <2>1. ItemsOf(items, g) \in SUBSET (1..Len(loader.items))
    BY <1>3, <1>4 DEF ItemsOf
  <2> QED
    BY <1>3, <1>8, <2>1, MaxOf
<1>9. ASSUME NEW g \in Widgets PROVE IconFollows(g)'
  <2> SUFFICES ASSUME promised[g] # None PROVE IconFollows(g)'
    BY DEF IconFollows
  <2>1. /\ ItemsOf(loader.items, g) # {}
        /\ \A k \in ItemsOf(loader.items, g) : IsOf(loader.items[k], promised[g])
    BY <1>0 DEF IconsInv, IconFollows
  <2>2. PICK k \in ItemsOf(items, g) : image'[g] = ImageOf(items[k])
    BY <1>1, <1>7, <1>8, <2>1 DEF ImageShown
  <2>3. PICK i, context : promised[g] = <<i, context>>
    BY <1>0 DEF IconTypeOK
  <2>4. promised[g][1] = i /\ promised[g][2] = context
    BY <2>3
  <2>5. /\ k \in DOMAIN items /\ items[k].name = i /\ items[k].context = context
        /\ items[k].path = find_icon(theme, i, context)
    BY <1>4, <1>7, <2>1, <2>2, <2>4 DEF ItemsOf, IsOf
  <2>6. image'[g] = IF promised[g] \in Has[theme] THEN <<theme, i, context>> ELSE None
    BY <1>2, <2>2, <2>3, <2>5 DEF ImageOf, find_icon
  <2>7. \A j \in ItemsOf(items, g) : IsOf(items[j], promised[g])
    BY <1>4, <1>7, <2>1 DEF ItemsOf, IsOf
  <2> QED
    BY <1>2, <1>7, <2>1, <2>4, <2>6, <2>7 DEF IconFollows
<1>10. ASSUME NEW g \in Widgets PROVE image'[g] \in Image \cup {None}
  <2>1. CASE promised[g] = None \/ ItemsOf(items, g) = {}
    BY <1>0, <1>1, <2>1 DEF IconTypeOK, ImageShown
  <2>2. CASE ~(promised[g] = None \/ ItemsOf(items, g) = {})
    <3>1. PICK k \in ItemsOf(items, g) : image'[g] = ImageOf(items[k])
      BY <1>1, <1>8, <2>2 DEF ImageShown
    <3>2. items[k] \in Item
      BY <1>4 DEF ItemsOf
    <3> QED
      BY <3>1, <3>2 DEF ImageOf, Image, Item
  <2> QED
    BY <2>1, <2>2
<1>11. image' \in [Widgets -> Image \cup {None}]
  BY <1>1, <1>10
<1> QED
  BY <1>1, <1>5, <1>6, <1>9, <1>11 DEF IconsInv

(* An item whose image is not there is dropped with the promise; what is   *)
(* kept stays in its order.                                                *)
LEMMA NamesKept ==
  ASSUME NEW s \in Seq(Item), OnePerName(s), NEW places \in SUBSET DOMAIN s
  PROVE  OnePerName(AtPlaces(s, places))
<1>1. PICK pos \in [1..Cardinality(places) -> places] :
        /\ \A n \in 1..Cardinality(places) : AtPlaces(s, places)[n] = s[pos[n]]
        /\ \A m, n \in 1..Cardinality(places) : m < n => pos[m] < pos[n]
  BY SMTT(20), PlacesInOrder
<1>2. PICK kept, size : kept = AtPlaces(s, places) /\ size = Cardinality(places)
  OBVIOUS
<1>3. DOMAIN kept = 1..size /\ size \in Nat
  BY <1>2, PlacesInOrder
<1>4. \A n \in 1..size : kept[n] = s[pos[n]] /\ pos[n] \in DOMAIN s
  BY <1>1, <1>2
<1>5. ASSUME NEW m \in 1..size, NEW n \in 1..size, kept[m].name = kept[n].name PROVE m = n
  <2>1. pos[m] = pos[n]
    BY <1>4, <1>5 DEF OnePerName
  <2>2. pos[m] \in Nat /\ pos[n] \in Nat
    BY <1>4
  <2> QED
    BY <1>1, <1>2, <1>3, <2>1, <2>2
<1> QED
  BY <1>2, <1>3, <1>5 DEF OnePerName

Left(others) ==
  {k \in DOMAIN loader.items :
     loader.items[k].path # None /\ (loader.items[k].widget = None => k \in others)}

LEMMA RepollKeeps ==
  ASSUME WindowInv, Repoll
  PROVE  IconTypeOK' /\ IconsInv'
<1>1. /\ running /\ inited /\ IconTypeOK /\ IconsInv /\ UNCHANGED <<seen_theme, living, late, running>>
      /\ None \notin Widgets
  BY WindowTypes, WindowAssumption DEF Repoll, WindowInv
<1>1a. PICK others \in SUBSET ItemsOf(loader.items, None) :
         LET kept == {k \in DOMAIN loader.items :
                        loader.items[k].path # None /\ (loader.items[k].widget = None => k \in others)}
         IN
         /\ loader' = [loader EXCEPT !.items = AtPlaces(@, kept)]
         /\ promised' = [g \in Widgets |->
                          IF \E k \in kept : loader.items[k].widget = g THEN promised[g] ELSE None]
  BY DEF Repoll
<1>2. PICK kept, items :
        /\ kept \in SUBSET DOMAIN loader.items
        /\ items = AtPlaces(loader.items, kept)
        /\ loader' = [loader EXCEPT !.items = items]
        /\ promised' = [g \in Widgets |->
                          IF \E k \in kept : loader.items[k].widget = g THEN promised[g] ELSE None]
  <2>1. PICK kept : kept = Left(others)
    OBVIOUS
  <2>2. PICK items : items = AtPlaces(loader.items, kept)
    OBVIOUS
  <2>3. /\ loader' = [loader EXCEPT !.items = items]
        /\ promised' = [g \in Widgets |->
                          IF \E k \in kept : loader.items[k].widget = g THEN promised[g] ELSE None]
    BY <1>1a, <2>1, <2>2 DEF Left
  <2>4. kept \in SUBSET DOMAIN loader.items
    BY <2>1 DEF Left
  <2> QED
    BY <2>2, <2>3, <2>4
<1>3. image' = [g \in Widgets |-> IF promised'[g] = None THEN None ELSE image[g]]
  BY DEF Repoll
<1>4. loader'.theme = loader.theme /\ loader'.items = items /\ loader.items \in Seq(Item)
  BY <1>1, <1>2 DEF IconTypeOK, LoaderTypeOK
<1>5. /\ items \in Seq(Item) /\ OnePerName(items)
      /\ \A m \in DOMAIN items : \E k \in kept : items[m] = loader.items[k]
      /\ \A k \in kept : \E m \in DOMAIN items : items[m] = loader.items[k]
  <2>1. OnePerName(loader.items)
    BY <1>1 DEF IconTypeOK, LoaderTypeOK
  <2>2. PICK s : s = loader.items
    OBVIOUS
  <2>3. s \in Seq(Item) /\ OnePerName(s) /\ kept \in SUBSET DOMAIN s /\ items = AtPlaces(s, kept)
    BY <1>2, <1>4, <2>1, <2>2
  <2>4. OnePerName(items)
    BY ONLY <2>3, NamesKept
  <2>5. /\ items \in Seq(Item)
        /\ \A m \in DOMAIN items : \E k \in kept : items[m] = s[k]
        /\ \A k \in kept : \E m \in DOMAIN items : items[m] = s[k]
    BY ONLY ZenonT(30), <2>3, PlacesKept
  <2> QED
    BY <2>2, <2>4, <2>5
<1>6. \A k \in kept : k \in DOMAIN loader.items
  BY <1>2
<1>8. LoaderTypeOK'
  <2>1. loader' \in [theme : Themes \cup {None}, items : Seq(Item)]
    BY <1>1, <1>2, <1>5 DEF IconTypeOK, LoaderTypeOK
  <2> QED
    BY <1>1, <1>4, <1>5, <2>1 DEF LoaderTypeOK, inited
<1>9. PathsFollow => PathsFollow'
  BY <1>4, <1>5, <1>6 DEF PathsFollow
<1>10. ASSUME NEW g \in Widgets PROVE IconFollows(g)'
  <2> SUFFICES ASSUME promised'[g] # None PROVE IconFollows(g)'
    BY DEF IconFollows
  <2>1. promised'[g] = promised[g] /\ image'[g] = image[g]
    BY <1>2, <1>3
  <2>2. PICK k \in kept : loader.items[k].widget = g
    BY <1>2
  <2>3. IconFollows(g)
    BY <1>1 DEF IconsInv
  <2>4. ItemsOf(items, g) # {}
    <3>1. PICK m \in DOMAIN items : items[m] = loader.items[k]
      BY <1>5
    <3> QED
      BY <2>2, <3>1 DEF ItemsOf
  <2>5. \A m \in ItemsOf(items, g) : IsOf(items[m], promised[g])
    <3> SUFFICES ASSUME NEW m \in ItemsOf(items, g) PROVE IsOf(items[m], promised[g])
      OBVIOUS
    <3>1. PICK j \in kept : items[m] = loader.items[j] /\ items[m].widget = g
      BY <1>5 DEF ItemsOf
    <3>2. j \in ItemsOf(loader.items, g)
      BY <1>6, <3>1 DEF ItemsOf
    <3> QED
      BY <2>1, <2>3, <3>1, <3>2 DEF IconFollows
  <2> QED
    BY <1>1, <1>4, <2>1, <2>3, <2>4, <2>5 DEF IconFollows, inited
<1>11. image' \in [Widgets -> Image \cup {None}] /\ promised' \in [Widgets -> (Icons \X Contexts) \cup {None}]
  <2>1. \A g \in Widgets : image[g] \in Image \cup {None} /\ promised[g] \in (Icons \X Contexts) \cup {None}
    BY <1>1 DEF IconTypeOK
  <2> QED
    BY <1>2, <1>3, <2>1
<1> QED
  BY <1>1, <1>8, <1>9, <1>10, <1>11 DEF IconsInv, IconTypeOK

(* What does nothing to the icons.                                         *)
LEMMA IconsStay == WindowInv /\ running /\ UNCHANGED loaderVars => IconsInv' /\ LoaderTypeOK'
BY DEF WindowInv, WindowTypeOK, LoaderTypeOK, OnePerName, loaderVars, IconsInv, PathsFollow, IconFollows,
       ItemsOf, inited

LEMMA DeleteKeeps ==
  ASSUME WindowInv, NEW g \in Widgets, DeleteWidget(g)
  PROVE  IconTypeOK' /\ IconsInv'
<1>1. /\ running /\ IconTypeOK /\ IconsInv /\ UNCHANGED <<seen_theme, loader, late, running>>
      /\ promised' = [promised EXCEPT ![g] = None] /\ image' = [image EXCEPT ![g] = None]
      /\ living' = living \ {g}
  BY WindowTypes DEF DeleteWidget, WindowInv
<1>2. ASSUME NEW h \in Widgets PROVE IconFollows(h)'
  BY <1>1 DEF IconsInv, IconFollows, ItemsOf, IconTypeOK, inited
<1>3. IconsInv'
  BY <1>1, <1>2 DEF IconsInv, PathsFollow
<1> QED
  BY <1>1, <1>3 DEF IconTypeOK, LoaderTypeOK, inited

(* A loader without items keeps no promises.                               *)
LEMMA EmptyKeeps ==
  ASSUME loader'.items = <<>>, \A g \in Widgets : promised'[g] = None
  PROVE  IconsInv'
BY DEF IconsInv, PathsFollow, IconFollows

LEMMA NoPromises ==
  ASSUME WindowInv, running, ~inited
  PROVE  \A g \in Widgets : promised[g] = None
BY DEF WindowInv, IconsInv, IconFollows

(* init() leaves the items and what they show; where that is of another    *)
(* theme, it is late.                                                      *)
LEMMA InitKeeps ==
  ASSUME WindowInv, running, NEW theme \in Themes, Inited(theme), UNCHANGED <<image, promised>>
  PROVE  IconsInv' /\ LoaderTypeOK' /\ late' \in BOOLEAN
<1>1. /\ IconTypeOK /\ IconsInv /\ loader'.theme = theme /\ loader'.items = loader.items
      /\ late' = (inited /\ (late \/ theme # loader.theme)) /\ theme # None
  BY WindowTypes, WindowAssumption DEF Inited, WindowInv, IconTypeOK, LoaderTypeOK
<1>2. LoaderTypeOK'
  <2>1. loader' \in [theme : Themes \cup {None}, items : Seq(Item)]
    BY <1>1 DEF Inited, IconTypeOK, LoaderTypeOK
  <2> QED
    BY <1>1, <2>1 DEF IconTypeOK, LoaderTypeOK, inited
<1>3. CASE ~inited
  <2>1. loader.items = <<>>
    BY <1>1, <1>3 DEF IconTypeOK, LoaderTypeOK
  <2> QED
    BY <1>1, <1>2, <1>3, <2>1, NoPromises, EmptyKeeps
<1>4. CASE inited
  <2>1. ~late' => ~late /\ theme = loader.theme
    BY <1>1, <1>4
  <2>2. ~late' => PathsFollow'
    BY <1>1, <2>1 DEF IconsInv, PathsFollow
  <2>3. ASSUME NEW g \in Widgets PROVE IconFollows(g)'
    <3>1. IconFollows(g)
      BY <1>1 DEF IconsInv
    <3>2. inited'
      BY <1>1 DEF inited
    <3> QED
      BY <1>1, <2>1, <3>1, <3>2 DEF IconFollows
  <2> QED
    BY <1>1, <1>2, <2>2, <2>3 DEF IconsInv
<1> QED
  BY <1>3, <1>4

LEMMA LoadOnceKeeps ==
  ASSUME WindowInv, running, LoadOnce, UNCHANGED <<promised, living>>
  PROVE  IconTypeOK' /\ IconsInv'
<1>0. Default \in Themes /\ IconTypeOK /\ IconsInv
  BY WindowTypes, WindowAssumption DEF WindowInv
<1>1. CASE UNCHANGED <<seen_theme, loader, image, late, running>>
  BY <1>0, <1>1, IconsStay DEF loaderVars, IconTypeOK
<1>2. CASE seen_theme' = [theme |-> Default, freed |-> FALSE] /\ Reloaded(Default)
  BY <1>0, <1>2, ReloadKeeps DEF IconTypeOK
<1>3. CASE /\ seen_theme' = [theme |-> Default, freed |-> FALSE]
           /\ Inited(Default) /\ UNCHANGED <<image, running>>
  BY <1>0, <1>3, InitKeeps DEF IconTypeOK
<1> QED
  BY <1>1, <1>2, <1>3 DEF LoadOnce

LEMMA OpenKeeps ==
  ASSUME WindowInv, NEW w \in Wins, NEW icons \in BOOLEAN, Open(w, icons)
  PROVE  WindowTypeOK' /\ IconsInv'
<1>0. running /\ ClientTypeOK /\ IconTypeOK /\ UNCHANGED <<promised, living>>
  BY WindowTypes DEF Open, WindowInv
<1>1. ClientTypeOK'
  <2>1. /\ windows' = windows \cup {w} /\ closed' = closed /\ xcli' = w /\ knows' = setting
        /\ setting' = setting /\ event' = event /\ orphaned' = (orphaned \/ event)
        /\ background' = IF setting = None THEN background ELSE setting
    BY DEF Open, xsettings_cb
  <2> QED
    BY <1>0, <2>1 DEF ClientTypeOK
<1>2. CASE icons
  <2>1. LoadOnce
    BY <1>2 DEF Open
  <2> QED
    BY <1>0, <1>1, <2>1, LoadOnceKeeps, WindowTypes
<1>3. CASE ~icons
  <2>1. UNCHANGED loaderVars /\ UNCHANGED <<seen_theme, running>>
    BY <1>3 DEF Open, loaderVars
  <2>2. IconTypeOK' /\ IconsInv'
    BY <1>0, <2>1, IconsStay DEF IconTypeOK, loaderVars
  <2> QED
    BY <1>1, <2>2, WindowTypes
<1> QED
  BY <1>2, <1>3

LEMMA CloseKeeps ==
  ASSUME WindowInv, NEW w \in Wins, Close(w)
  PROVE  WindowTypeOK' /\ IconsInv'
<1>0. running /\ ClientTypeOK /\ IconTypeOK
  BY WindowTypes DEF Close, WindowInv
<1>1. ClientTypeOK'
  <2>1. /\ windows' = windows \ {w} /\ closed' = closed \cup {w}
        /\ knows' = (IF xcli = w THEN None ELSE knows) /\ orphaned' = (orphaned \/ xcli = w)
        /\ UNCHANGED <<xcli, setting, event, background>>
    BY DEF Close
  <2> QED
    BY <1>0, <2>1 DEF ClientTypeOK
<1>2. IconTypeOK'
  <2>1. LoaderTypeOK'
    BY DEF Close, NoLoader, LoaderTypeOK, OnePerName, inited
  <2>2. /\ image' \in [Widgets -> Image \cup {None}]
        /\ promised' \in [Widgets -> (Icons \X Contexts) \cup {None}]
    BY DEF Close
  <2>3. seen_theme' \in [theme : Themes \cup {None}, freed : BOOLEAN]
    <3>1. seen_theme' = [seen_theme EXCEPT !.freed = @ \/ seen_theme.theme # None]
      BY DEF Close
    <3>2. (seen_theme.freed \/ seen_theme.theme # None) \in BOOLEAN
      OBVIOUS
    <3> QED
      BY <1>0, <3>1, <3>2 DEF IconTypeOK
  <2>4. living' \in SUBSET Widgets /\ running' \in BOOLEAN /\ late' \in BOOLEAN
    BY <1>0 DEF Close, IconTypeOK
  <2> QED
    BY <2>1, <2>2, <2>3, <2>4 DEF IconTypeOK
<1>3. loader'.items = <<>> /\ \A g \in Widgets : promised'[g] = None
  BY DEF Close, NoLoader
<1> QED
  BY <1>1, <1>2, <1>3, EmptyKeeps, WindowTypes

(* The calls of the icon loader do nothing to the client.                  *)
LEMMA IconCallsKeep ==
  ASSUME WindowInv, IconCalls
  PROVE  WindowTypeOK' /\ IconsInv'
<1>0. ClientTypeOK /\ IconTypeOK
  BY WindowTypes DEF WindowInv
<1>1. UNCHANGED <<windows, closed, clientVars>>
  BY DEF IconCalls, DeleteWidget, SetIcon, GetIcon, ReloadTheme, InitTheme, Repoll
<1>2. ClientTypeOK'
  BY <1>0, <1>1 DEF ClientTypeOK, clientVars
<1>3. ASSUME NEW theme \in Themes, ReloadTheme(theme) PROVE IconTypeOK' /\ IconsInv'
  <2>1. running /\ UNCHANGED <<seen_theme>>
    BY <1>3 DEF ReloadTheme
  <2>2. CASE NoInstance
    BY <1>0, <2>1, <2>2 DEF NoInstance, loaderVars, IconTypeOK, LoaderTypeOK, IconsInv, inited
  <2>3. CASE Reloaded(theme) /\ UNCHANGED <<promised, living>>
    BY <1>0, <2>1, <2>3, ReloadKeeps DEF IconTypeOK
  <2> QED
    BY <1>3, <2>2, <2>3 DEF ReloadTheme
<1>4. ASSUME NEW theme \in Themes, InitTheme(theme) PROVE IconTypeOK' /\ IconsInv'
  <2>1. running /\ Inited(theme) /\ UNCHANGED <<seen_theme, image, promised, living, running>>
    BY <1>4 DEF InitTheme
  <2> QED
    BY <1>0, <2>1, InitKeeps DEF IconTypeOK
<1> QED
  BY <1>2, <1>3, <1>4, DeleteKeeps, SetIconKeeps, GetIconKeeps, RepollKeeps, WindowTypes DEF IconCalls

LEMMA WindowStepKeeps == WindowInv /\ [WindowNext]_windowVars => WindowInv'
<1> SUFFICES ASSUME WindowInv, [WindowNext]_windowVars PROVE WindowInv'
  OBVIOUS
<1>0. ClientTypeOK /\ IconTypeOK
  BY WindowTypes DEF WindowInv
<1>1. CASE UNCHANGED windowVars
  BY <1>1 DEF windowVars, WindowInv, WindowTypeOK, ColourInv, IconsInv, PathsFollow, IconFollows,
              ItemsOf, inited, Shown
<1>2. CASE WindowNext
  <2>0. ColourInv'
    BY <1>2, ColourKeeps DEF WindowInv
  <2>1. ASSUME NEW value \in Colors \cup {None}, Publish(value) PROVE WindowTypeOK' /\ IconsInv'
    <3>1. ClientTypeOK'
      BY <1>0, <2>1 DEF Publish, ClientTypeOK
    <3>2. running /\ UNCHANGED loaderVars /\ UNCHANGED <<seen_theme, running>>
      BY <2>1 DEF Publish
    <3>3. IconTypeOK' /\ IconsInv'
      BY <1>0, <3>2, IconsStay DEF IconTypeOK, loaderVars
    <3> QED
      BY <3>1, <3>3, WindowTypes
  <2>2. ASSUME XEvent PROVE WindowTypeOK' /\ IconsInv'
    <3>1. ClientTypeOK'
      BY <1>0, <2>2 DEF XEvent, ClientTypeOK, xsettings_cb
    <3>2. running /\ UNCHANGED loaderVars /\ UNCHANGED <<seen_theme>> /\ running' \in BOOLEAN
      BY <2>2 DEF XEvent
    <3>3. IconTypeOK' /\ IconsInv'
      BY <1>0, <3>2, IconsStay DEF IconTypeOK, loaderVars
    <3> QED
      BY <3>1, <3>3, WindowTypes
  <2>3. WindowTypeOK' /\ IconsInv'
    BY <1>2, <2>1, <2>2, OpenKeeps, CloseKeeps, IconCallsKeep DEF WindowNext, Windows, Settings
  <2> QED
    BY <2>0, <2>3 DEF WindowInv
<1> QED
  BY <1>1, <1>2

LEMMA WindowInvImplies == WindowInv => DisplayFollows
<1> SUFFICES ASSUME WindowInv, running PROVE IconsFollow /\ BackgroundFollows
  BY DEF DisplayFollows, IconsFollow, BackgroundFollows
<1>1. IconsFollow
  BY DEF WindowInv, IconsInv, IconFollows, IconsFollow
<1>2. BackgroundFollows
  BY DEF WindowInv, ColourInv, Shown, BackgroundFollows
<1> QED
  BY <1>1, <1>2

-------------------------------------------------------------------------------
(* The program.                                                            *)
FltkInv == part \in {"watch", "dbus", "icons", "settings"} /\ DirInv /\ DbusInv /\ WindowInv

LEMMA NoDirKept == NoDir => DirInv
<1> SUFFICES ASSUME NoDir PROVE DirInv
  OBVIOUS
<1> USE DirAssumption DEF NoDir
<1>1. 0 \in 0..MaxEntries /\ 0 \in 0..MaxChanges /\ <<>> \in Seq(Entry) /\ <<>> \in Seq(Event)
  OBVIOUS
<1>2. DirTypeOK
  BY <1>1 DEF DirTypeOK
<1>3. TypedNow
  BY <1>2 DEF TypedNow, EventsNumbered, Numbered
<1>4. Faithful
  BY DEF Faithful, EntriesWatched, WaitingDue, BuffDue, LoopStands
<1> QED
  BY <1>3, <1>4 DEF DirInv

LEMMA NoDbusKept == NoDbus => DbusInv
<1> SUFFICES ASSUME NoDbus PROVE DbusInv
  OBVIOUS
<1> USE DEF NoDbus
<1>1. NoImpl \in Impl /\ NoImpl.object_list = <<>>
  <2>1. <<>> \in Seq(Paths) /\ NoList \in (SUBSET Buses) \cup {NoList} /\ Null \in Buses \cup {Null}
    OBVIOUS
  <2> QED
    BY <2>1 DEF NoImpl, Impl
<1>2. /\ dc \in [Conns -> Impl] /\ sent \in 0..Len(Mail) /\ calls \in [Conns -> Nat]
      /\ socket \in [Buses -> Seq(DOMAIN Mail)] /\ queue \in [Buses -> Seq(DOMAIN Mail)]
      /\ filters \in [Buses -> Seq(Conns)]
  BY <1>1, MailNumbers, NoCallsTyped
<1>3. DbusTypeOK
  BY <1>2 DEF DbusTypeOK
<1>4. \A b \in Buses : Pending(b) = <<>>
  BY DEF Pending
<1>5. Unlisted /\ PendingOrdered
  BY <1>1, <1>4 DEF Unlisted, PendingOrdered, Ordered
<1> QED
  BY <1>3, <1>5 DEF DbusInv

LEMMA FltkInitially == FltkInit => FltkInv
BY DirInitially, NoDirKept, DbusInitially, NoDbusKept, WindowInitially DEF FltkInit, FltkInv

LEMMA FltkSteps ==
  [FltkNext]_fltkVars =>
    /\ [DirNext]_dirVars /\ [DbusNext]_dbusVars /\ [WindowNext]_windowVars /\ UNCHANGED part
BY DEF FltkNext, fltkVars, WatchStep, DbusStep, WindowStep, WindowNext

LEMMA FltkStepKeeps == FltkInv /\ [FltkNext]_fltkVars => FltkInv'
BY FltkSteps, DirStepKeeps, DbusStepKeeps, WindowStepKeeps DEF FltkInv

(* The invariant that the four theorems about the program rest on.         *)
THEOREM FltkAlways == FltkSpec => []FltkInv
BY FltkInitially, FltkStepKeeps, PTL DEF FltkSpec

(* Every variable of the notifiers, the connections and the windows has    *)
(* its type, in every callback and between them, and the icon loader has   *)
(* one item for a name and none when it is not there (IconLoader.cpp).     *)
THEOREM FltkTypeCorrect == FltkSpec => []FltkTypeOK
<1>1. FltkInv => FltkTypeOK
  BY DEF FltkInv, FltkTypeOK, DirInv, TypedNow, DbusInv, WindowInv
<1> QED
  BY <1>1, FltkAlways, PTL

(* watch_callback() tells of a directory's changes those that were asked   *)
(* for, each once and in order, whatever the callback adds and removes     *)
(* while it is told (DirWatchInotify.cpp, DirWatchFam.cpp).                *)
THEOREM ReportsAlwaysDue == FltkSpec => ReportsAreDue
<1>1. FltkInv /\ [FltkNext]_fltkVars =>
        [~mixed' => \A p \in reported' \ reported :
           /\ p \in due /\ p[1] \in Regs
           /\ \A q \in reported : q[1] = p[1] => q[2] < p[2]]_dirVars
  BY FltkSteps, DirStepKeeps DEF FltkInv, Reports
<1> QED
  BY <1>1, FltkAlways, PTL DEF FltkSpec, ReportsAreDue

(* Whoever reads and dispatches a message of a bus, and however objects    *)
(* were connected, set up, left and destroyed before, the filters call     *)
(* each object once for each listener it set up there, if it expects the   *)
(* message, unless one of these comes behind one that was called or the    *)
(* program ends; nobody is called more often, and nobody when no message   *)
(* is taken (EdbusConnection.cpp: edbus_signal_filter).                    *)
THEOREM ListenersAlwaysCalled == FltkSpec => ListenersAreCalled
<1>1. FltkInv /\ [FltkNext]_fltkVars => [CalledRight]_dbusVars
  BY FltkSteps, StepCalls DEF FltkInv
<1> QED
  BY <1>1, FltkAlways, PTL DEF FltkSpec, ListenersAreCalled, CalledRight

(* What is drawn follows the theme and the settings, however windows are   *)
(* opened and closed, themes loaded and reloaded, and icons and widgets    *)
(* come and go between them: an icon that the loader keeps with a widget   *)
(* is that of the theme there is, but for a theme that init() has loaded   *)
(* under it, and the colour is the one that the manager has                *)
(* (IconLoader.cpp, Window.cpp).  Icons and settings may change in any     *)
(* order here, which those of FltkSpec do not.                             *)
THEOREM DisplayAlwaysFollows == WindowSpec => []DisplayFollows
<1>1. WindowSpec => []WindowInv
  BY WindowInitially, WindowStepKeeps, PTL DEF WindowSpec
<1> QED
  BY <1>1, WindowInvImplies, PTL
===============================================================================
