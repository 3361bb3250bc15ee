------------------------------ MODULE EdbusProofs ------------------------------
(***************************************************************************)
(* What holds of the containers of the D-Bus library for any objects, any  *)
(* data and types, any heap that has a cell for each object, and any       *)
(* program: implicit sharing is sound, whatever the writers write; dicts   *)
(* stay well-formed and are maps; and arrays stay of one type.             *)
(***************************************************************************)
EXTENDS Edbus, DataTheorems

-------------------------------------------------------------------------------
(* EdbusContainer.                                                         *)

(* The inductive invariant.                                                *)
HeapInv == HeapTypeOK /\ CountsExact

-----------------------------------------------------------------------------
(* The holders of a cell are finitely many, and none exactly if their      *)
(* number is 0.                                                            *)
LEMMA HoldersFinite ==
  ASSUME NEW at, NEW c
  PROVE  /\ IsFiniteSet(Holders(at, c))
         /\ Cardinality(Holders(at, c)) \in Nat
         /\ Cardinality(Holders(at, c)) = 0 <=> Holders(at, c) = {}
<1>1. Holders(at, c) \in SUBSET Handles
  BY DEF Holders
<1>2. IsFiniteSet(Holders(at, c))
  BY <1>1, FS_Subset, HeapAssumption
<1> QED
  BY <1>2, FS_CardinalityType, FS_EmptySet

(* One object is made to point to another cell, or to none.                *)
Moves(h, x) ==
  /\ impl \in [Handles -> Cells \cup {None}]
  /\ impl' = [impl EXCEPT ![h] = x]

(* How the holders of a cell change then.                                  *)
LEMMA HoldersMove ==
  ASSUME NEW h \in Handles, NEW x, NEW c \in Cells, Moves(h, x)
  PROVE  /\ x # impl[h] /\ x = c =>
              Cardinality(Holders(impl', c)) = Cardinality(Holders(impl, c)) + 1
         /\ x # impl[h] /\ impl[h] = c =>
              Cardinality(Holders(impl', c)) = Cardinality(Holders(impl, c)) - 1
         /\ x # c /\ impl[h] # c =>
              Cardinality(Holders(impl', c)) = Cardinality(Holders(impl, c))
<1>1. x = c => Holders(impl', c) = Holders(impl, c) \cup {h}
  BY DEF Holders, Moves
<1>2. x # c => Holders(impl', c) = Holders(impl, c) \ {h}
  BY DEF Holders, Moves
<1>3. h \in Holders(impl, c) <=> impl[h] = c
  BY DEF Holders
<1>4. IsFiniteSet(Holders(impl, c))
  BY HoldersFinite
<1>5. /\ Cardinality(Holders(impl, c) \cup {h}) =
            IF h \in Holders(impl, c) THEN Cardinality(Holders(impl, c)) ELSE Cardinality(Holders(impl, c)) + 1
      /\ Cardinality(Holders(impl, c) \ {h}) =
            IF h \in Holders(impl, c) THEN Cardinality(Holders(impl, c)) - 1 ELSE Cardinality(Holders(impl, c))
  BY <1>4, FS_AddElement, FS_RemoveElement
<1> QED
  BY <1>1, <1>2, <1>3, <1>5

(* Said with the counts alone.                                             *)
LEMMA CountsAsNumbers ==
  CountsExact <=> /\ \A c \in Cells : ref[c] = Cardinality(Holders(impl, c))
                  /\ \A c \in Cells : lst[c] = Freed <=> ref[c] = 0
BY HoldersFinite DEF CountsExact

(* The same, of the next state.                                            *)
LEMMA CountsAsNumbersNext ==
  CountsExact' <=> /\ \A c \in Cells : ref'[c] = Cardinality(Holders(impl', c))
                   /\ \A c \in Cells : lst'[c] = Freed <=> ref'[c] = 0
BY HoldersFinite DEF CountsExact

(* An object that is alive is counted.                                     *)
LEMMA AliveCounted ==
  ASSUME HeapInv, NEW h \in Handles, Alive(h)
  PROVE  /\ impl[h] \in Cells
         /\ ref[impl[h]] \in Nat \ {0}
         /\ lst[impl[h]] \in Seq(Items)
<1>1. impl[h] \in Cells /\ ref[impl[h]] \in Nat /\ lst[impl[h]] \in Seq(Items) \cup {Freed}
  BY DEF HeapInv, HeapTypeOK, Alive
<1>2. h \in Holders(impl, impl[h])
  BY DEF Holders
<1>3. ref[impl[h]] # 0 /\ lst[impl[h]] # Freed
  BY <1>1, <1>2, HoldersFinite DEF HeapInv, CountsExact
<1> QED
  BY <1>1, <1>3
-----------------------------------------------------------------------------
(* Each operation keeps the invariant.                                     *)
LEMMA CreateKeeps ==
  ASSUME HeapInv, NEW h \in Handles, Create(h)
  PROVE  HeapInv'
<1>1. PICK c \in Free : /\ impl' = [impl EXCEPT ![h] = c]
                        /\ ref' = [ref EXCEPT ![c] = 1]
                        /\ lst' = [lst EXCEPT ![c] = <<>>]
  BY DEF Create
<1>2. c \in Cells /\ lst[c] = Freed /\ ref[c] = 0
  BY CountsAsNumbers DEF Free, HeapInv
<1>3. HeapTypeOK'
  BY <1>1, <1>2, EmptySeq DEF HeapInv, HeapTypeOK
<1>4. impl[h] = None /\ None \notin Cells
  BY HeapAssumption DEF Create, Alive
<1>5. ASSUME NEW d \in Cells
      PROVE  ref'[d] = Cardinality(Holders(impl', d)) /\ (lst'[d] = Freed <=> ref'[d] = 0)
  <2>1. ref[d] = Cardinality(Holders(impl, d)) /\ (lst[d] = Freed <=> ref[d] = 0)
    BY CountsAsNumbers DEF HeapInv
  <2>2. /\ d = c => Cardinality(Holders(impl', d)) = Cardinality(Holders(impl, d)) + 1
        /\ d # c => Cardinality(Holders(impl', d)) = Cardinality(Holders(impl, d))
    <3>1. Moves(h, c)
      BY <1>1 DEF Moves, HeapInv, HeapTypeOK
    <3> QED
      BY <3>1, <1>2, <1>4, HoldersMove
  <2>3. <<>> # Freed
    BY HeapAssumption, EmptySeq
  <2> QED
    BY <1>1, <1>2, <2>1, <2>2, <2>3 DEF HeapInv, HeapTypeOK
<1> QED
  BY <1>3, <1>5, CountsAsNumbersNext DEF HeapInv

LEMMA CopyKeeps ==
  ASSUME HeapInv, NEW h \in Handles, NEW other \in Handles, Copy(h, other)
  PROVE  HeapInv'
<1> DEFINE c == impl[other]
<1>1. c \in Cells /\ ref[c] \in Nat \ {0}
  BY AliveCounted DEF Copy
<1>2. impl[h] = None /\ None \notin Cells
  BY HeapAssumption DEF Copy, Alive
<1>3. HeapTypeOK'
  BY <1>1 DEF Copy, HeapInv, HeapTypeOK
<1>4. ASSUME NEW d \in Cells
      PROVE  ref'[d] = Cardinality(Holders(impl', d)) /\ (lst'[d] = Freed <=> ref'[d] = 0)
  <2>1. ref[d] = Cardinality(Holders(impl, d)) /\ (lst[d] = Freed <=> ref[d] = 0)
    BY CountsAsNumbers DEF HeapInv
  <2>2. /\ d = c => Cardinality(Holders(impl', d)) = Cardinality(Holders(impl, d)) + 1
        /\ d # c => Cardinality(Holders(impl', d)) = Cardinality(Holders(impl, d))
    <3>1. Moves(h, c)
      BY DEF Moves, HeapInv, HeapTypeOK, Copy
    <3> QED
      BY <3>1, <1>1, <1>2, HoldersMove
  <2>3. /\ d = c => ref'[d] = ref[d] + 1
        /\ d # c => ref'[d] = ref[d]
        /\ lst'[d] = lst[d]
    BY <1>1 DEF HeapInv, HeapTypeOK, Copy
  <2> QED
    BY <1>1, <2>1, <2>2, <2>3
<1> QED
  BY <1>3, <1>4, CountsAsNumbersNext DEF HeapInv

LEMMA DestroyKeeps ==
  ASSUME HeapInv, NEW h \in Handles, Destroy(h)
  PROVE  HeapInv'
<1> DEFINE c == impl[h]
<1>1. c \in Cells /\ ref[c] \in Nat \ {0} /\ lst[c] # Freed
  BY AliveCounted, HeapAssumption DEF Destroy
<1>2. c # None /\ None \notin Cells
  BY HeapAssumption DEF Destroy, Alive
<1>3. /\ ref' = [ref EXCEPT ![c] = ref[c] - 1]
      /\ lst' = IF ref[c] - 1 = 0 THEN [lst EXCEPT ![c] = Freed] ELSE lst
  BY <1>1 DEF Destroy, Disposed, HeapInv, HeapTypeOK
<1>4. HeapTypeOK'
  <2>1. impl' = [impl EXCEPT ![h] = None]
    BY DEF Destroy
  <2>2. ref[c] - 1 \in Nat
    BY <1>1
  <2> HIDE DEF c
  <2> QED
    BY <1>1, <1>3, <2>1, <2>2 DEF HeapInv, HeapTypeOK
<1>5. ASSUME NEW d \in Cells
      PROVE  ref'[d] = Cardinality(Holders(impl', d)) /\ (lst'[d] = Freed <=> ref'[d] = 0)
  <2>1. ref[d] = Cardinality(Holders(impl, d)) /\ (lst[d] = Freed <=> ref[d] = 0)
    BY CountsAsNumbers DEF HeapInv
  <2>2. /\ d = c => Cardinality(Holders(impl', d)) = Cardinality(Holders(impl, d)) - 1
        /\ d # c => Cardinality(Holders(impl', d)) = Cardinality(Holders(impl, d))
    <3>1. Moves(h, None)
      BY DEF Moves, HeapInv, HeapTypeOK, Destroy
    <3> QED
      BY <3>1, <1>1, <1>2, HoldersMove
  <2> QED
    BY <1>1, <1>3, <2>1, <2>2 DEF HeapInv, HeapTypeOK
<1> QED
  BY <1>4, <1>5, CountsAsNumbersNext DEF HeapInv

(* Of a cell assigned to itself the count ends where it began, and never   *)
(* reaches 0 in between.                                                   *)
LEMMA AssignKeeps ==
  ASSUME HeapInv, NEW h \in Handles, NEW other \in Handles, Assign(h, other)
  PROVE  HeapInv'
<1> DEFINE old == impl[h]
           new == impl[other]
<1>1. /\ old \in Cells /\ ref[old] \in Nat \ {0} /\ lst[old] # Freed
      /\ new \in Cells /\ ref[new] \in Nat \ {0} /\ lst[new] # Freed
  BY AliveCounted, HeapAssumption DEF Assign
<1>2. impl' = [impl EXCEPT ![h] = new]
  BY DEF Assign
<1>3. ref \in [Cells -> Nat] /\ lst \in [Cells -> Seq(Items) \cup {Freed}]
  BY DEF HeapInv, HeapTypeOK
<1>4. CASE old = new
  <2>1. ref' = ref
    BY <1>1, <1>3, <1>4 DEF Assign
  <2>2. lst' = lst
    BY <1>1, <2>1 DEF Assign, Disposed
  <2>3. impl' = impl
    BY <1>2, <1>4 DEF HeapInv, HeapTypeOK
  <2> QED
    BY <2>1, <2>2, <2>3 DEF HeapInv, HeapTypeOK, CountsExact, Holders
<1>5. CASE old # new
  <2>1. \A d \in Cells : ref'[d] = IF d = new THEN ref[d] + 1
                                   ELSE IF d = old THEN ref[d] - 1 ELSE ref[d]
    BY <1>1, <1>3, <1>5 DEF Assign
  <2>2. lst' = IF ref[old] - 1 = 0 THEN [lst EXCEPT ![old] = Freed] ELSE lst
    BY <1>1, <1>5, <2>1 DEF Assign, Disposed
  <2>3. ref' \in [Cells -> Nat]
    <3>1. DOMAIN ref' = Cells /\ ref' = [d \in Cells |-> ref'[d]]
      BY <1>1, <1>3 DEF Assign
    <3>2. \A d \in Cells : ref'[d] \in Nat
      BY <1>1, <1>3, <2>1
    <3> QED
      BY <3>1, <3>2
  <2>4. HeapTypeOK'
    BY <1>1, <1>2, <2>2, <2>3 DEF HeapInv, HeapTypeOK
  <2>5. ASSUME NEW d \in Cells
        PROVE  ref'[d] = Cardinality(Holders(impl', d)) /\ (lst'[d] = Freed <=> ref'[d] = 0)
    <3>1. ref[d] = Cardinality(Holders(impl, d)) /\ (lst[d] = Freed <=> ref[d] = 0)
      BY CountsAsNumbers DEF HeapInv
    <3>2. /\ d = new => Cardinality(Holders(impl', d)) = Cardinality(Holders(impl, d)) + 1
          /\ d = old => Cardinality(Holders(impl', d)) = Cardinality(Holders(impl, d)) - 1
          /\ d # new /\ d # old => Cardinality(Holders(impl', d)) = Cardinality(Holders(impl, d))
      <4>1. Moves(h, new)
        BY <1>2 DEF Moves, HeapInv, HeapTypeOK
      <4> QED
        BY <4>1, <1>5, HoldersMove
    <3> QED
      BY <1>1, <1>3, <1>5, <2>1, <2>2, <3>1, <3>2
  <2> QED
    BY <2>4, <2>5, CountsAsNumbersNext DEF HeapInv
<1> QED
  BY <1>4, <1>5

LEMMA WriteKeeps ==
  ASSUME HeapInv, NEW h \in Handles, NEW new \in Seq(Items), Write(h, new)
  PROVE  HeapInv'
<1> DEFINE old == impl[h]
<1>1. old \in Cells /\ ref[old] \in Nat \ {0} /\ lst[old] # Freed
  BY AliveCounted, HeapAssumption DEF Write
<1>2. new # Freed
  BY HeapAssumption
<1>3. CASE WriteOwn(h, new)
  BY <1>1, <1>2, <1>3 DEF WriteOwn, HeapInv, HeapTypeOK, CountsExact, Holders
<1>4. CASE WriteCopy(h, new)
  <2>1. PICK c \in Free : /\ ref' = [ref EXCEPT ![old] = @ - 1, ![c] = 1]
                          /\ impl' = [impl EXCEPT ![h] = c]
                          /\ lst' = [lst EXCEPT ![c] = new]
    BY <1>4 DEF WriteCopy
  <2>2. c \in Cells /\ lst[c] = Freed /\ ref[c] = 0 /\ c # old
    BY <1>1, CountsAsNumbers DEF Free, HeapInv
  <2>3. ref[old] - 1 \in Nat \ {0}
    BY <1>1, <1>4 DEF WriteCopy
  <2>4. HeapTypeOK'
    BY <1>1, <2>1, <2>2, <2>3 DEF HeapInv, HeapTypeOK
  <2>5. ASSUME NEW d \in Cells
        PROVE  ref'[d] = Cardinality(Holders(impl', d)) /\ (lst'[d] = Freed <=> ref'[d] = 0)
    <3>1. ref[d] = Cardinality(Holders(impl, d)) /\ (lst[d] = Freed <=> ref[d] = 0)
      BY CountsAsNumbers DEF HeapInv
    <3>2. /\ d = c => Cardinality(Holders(impl', d)) = Cardinality(Holders(impl, d)) + 1
          /\ d = old => Cardinality(Holders(impl', d)) = Cardinality(Holders(impl, d)) - 1
          /\ d # c /\ d # old => Cardinality(Holders(impl', d)) = Cardinality(Holders(impl, d))
      <4>1. Moves(h, c)
        BY <2>1 DEF Moves, HeapInv, HeapTypeOK
      <4> QED
        BY <4>1, <2>2, HoldersMove
    <3>3. /\ d = c => ref'[d] = 1 /\ lst'[d] = new
          /\ d = old => ref'[d] = ref[d] - 1 /\ lst'[d] = lst[d]
          /\ d # c /\ d # old => ref'[d] = ref[d] /\ lst'[d] = lst[d]
      BY <2>1, <2>2, <1>1 DEF HeapInv, HeapTypeOK
    <3> QED
      BY <1>1, <1>2, <2>2, <2>3, <3>1, <3>2, <3>3
  <2> QED
    BY <2>4, <2>5, CountsAsNumbersNext DEF HeapInv
<1> QED
  BY <1>3, <1>4 DEF Write

LEMMA HeapInvInit == HeapInit => HeapInv
<1> SUFFICES ASSUME HeapInit
             PROVE  HeapInv
  OBVIOUS
<1>1. HeapTypeOK
  BY DEF HeapInit, HeapTypeOK
<1>2. \A c \in Cells : Holders(impl, c) = {}
  BY HeapAssumption DEF HeapInit, Holders
<1>3. CountsExact
  BY <1>2, FS_EmptySet DEF HeapInit, CountsExact
<1> QED
  BY <1>1, <1>3 DEF HeapInv

LEMMA HeapInvStep == HeapInv /\ [HeapNext]_heap => HeapInv'
<1> SUFFICES ASSUME HeapInv, [HeapNext]_heap
             PROVE  HeapInv'
  OBVIOUS
<1>1. CASE Inherited
  BY <1>1, CreateKeeps, CopyKeeps, DestroyKeeps, AssignKeeps DEF Inherited
<1>2. CASE \E h \in Handles : \E new \in Seq(Items) : Write(h, new)
  BY <1>2, WriteKeeps
<1>3. CASE UNCHANGED heap
  BY <1>3 DEF heap, HeapInv, HeapTypeOK, CountsExact, Holders
<1> QED
  BY <1>1, <1>2, <1>3 DEF HeapNext

(* No cell is freed twice, used after it was freed, or forgotten           *)
(* (EdbusContainer.h:75-158).                                              *)
THEOREM CountsAreExact == HeapSpec => []CountsExact
<1>1. HeapInv => CountsExact
  BY DEF HeapInv
<1> QED
  BY <1>1, HeapInvInit, HeapInvStep, PTL DEF HeapSpec
-----------------------------------------------------------------------------
(* Seen from the program.                                                  *)
LEMMA AliveCountedNext ==
  ASSUME HeapInv', NEW h \in Handles, impl'[h] # None
  PROVE  impl'[h] \in Cells /\ lst'[impl'[h]] \in Seq(Items)
<1>1. impl'[h] \in Cells /\ lst'[impl'[h]] \in Seq(Items) \cup {Freed}
  BY DEF HeapInv, HeapTypeOK
<1>2. h \in Holders(impl', impl'[h])
  BY DEF Holders
<1>3. lst'[impl'[h]] # Freed
  BY <1>1, <1>2 DEF HeapInv, CountsExact
<1> QED
  BY <1>1, <1>3

(* Whoever counts 1 shares with nobody.                                    *)
LEMMA SoleHolder ==
  ASSUME HeapInv, NEW h \in Handles, NEW g \in Handles,
         Alive(h), impl[g] = impl[h], ref[impl[h]] = 1
  PROVE  g = h
<1> DEFINE S == Holders(impl, impl[h])
<1>1. impl[h] \in Cells
  BY AliveCounted
<1>2. IsFiniteSet(S) /\ Cardinality(S) = 1
  BY <1>1, HoldersFinite DEF HeapInv, CountsExact
<1>3. \E x : S = {x}
  BY <1>2, FS_Singleton
<1>4. h \in S /\ g \in S
  BY DEF Holders
<1> QED
  BY <1>3, <1>4

LEMMA SeenAlive ==
  ASSUME HeapInv, NEW h \in Handles
  PROVE  /\ Alive(h) <=> Values!Alive(h)
         /\ Alive(h) => Seen[h] = lst[impl[h]]
         /\ ~Alive(h) => Seen[h] = None
BY AliveCounted, HeapAssumption DEF Seen, Content, Values!Alive

(* A step that leaves alone what the other objects point to changes what   *)
(* is seen of one.                                                         *)
LEMMA SeenChange ==
  ASSUME HeapInv, NEW h \in Handles, NEW x,
         \A g \in Handles \ {h} : /\ impl'[g] = impl[g]
                                  /\ impl[g] # None => lst'[impl[g]] = lst[impl[g]],
         x = IF impl'[h] # None THEN lst'[impl'[h]] ELSE None
  PROVE  Seen' = [Seen EXCEPT ![h] = x]
BY DEF Seen, Alive, Content

LEMMA SeenInit == HeapInit => Values!Init
BY DEF HeapInit, Values!Init, Seen, Alive

LEMMA SeenCreate ==
  ASSUME HeapInv, NEW h \in Handles, Create(h)
  PROVE  Values!Create(h)
<1>1. PICK c \in Free : /\ impl' = [impl EXCEPT ![h] = c]
                        /\ lst' = [lst EXCEPT ![c] = <<>>]
  BY DEF Create
<1>2. c \in Cells /\ c # None /\ lst[c] = Freed
  BY HeapAssumption DEF Free
<1>3. \A g \in Handles \ {h} : /\ impl'[g] = impl[g]
                               /\ impl[g] # None => lst'[impl[g]] = lst[impl[g]]
  BY <1>1, <1>2, AliveCounted, HeapAssumption DEF HeapInv, HeapTypeOK, Alive
<1>4. impl'[h] = c /\ lst'[c] = <<>>
  BY <1>1, <1>2 DEF HeapInv, HeapTypeOK
<1>5. Seen' = [Seen EXCEPT ![h] = <<>>]
  BY <1>2, <1>3, <1>4, SeenChange
<1> QED
  BY <1>5, SeenAlive DEF Create, Values!Create

LEMMA SeenCopy ==
  ASSUME HeapInv, NEW h \in Handles, NEW other \in Handles, Copy(h, other)
  PROVE  Values!Copy(h, other)
<1>1. impl' = [impl EXCEPT ![h] = impl[other]] /\ lst' = lst /\ impl[other] # None
  BY DEF Copy, Alive
<1>2. \A g \in Handles \ {h} : /\ impl'[g] = impl[g]
                               /\ impl[g] # None => lst'[impl[g]] = lst[impl[g]]
  BY <1>1 DEF HeapInv, HeapTypeOK
<1>3. impl'[h] = impl[other]
  BY <1>1 DEF HeapInv, HeapTypeOK
<1>4. Seen' = [Seen EXCEPT ![h] = Seen[other]]
  BY <1>1, <1>2, <1>3, SeenChange, SeenAlive DEF Alive
<1> QED
  BY <1>4, SeenAlive DEF Copy, Values!Copy

(* What a drop of the last reference frees no other object points to.      *)
LEMMA DisposedKeeps ==
  ASSUME HeapInv, HeapInv', NEW h \in Handles, Alive(h),
         lst' = Disposed(impl[h], ref'),
         NEW g \in Handles, impl'[g] = impl[g], impl[g] # None
  PROVE  lst'[impl[g]] = lst[impl[g]]
<1>1. impl[g] \in Cells /\ lst'[impl[g]] # Freed
  BY AliveCountedNext, HeapAssumption
<1> QED
  BY <1>1 DEF Disposed, HeapInv, HeapTypeOK

LEMMA SeenDestroy ==
  ASSUME HeapInv, HeapInv', NEW h \in Handles, Destroy(h)
  PROVE  Values!Destroy(h)
<1>1. \A g \in Handles \ {h} : /\ impl'[g] = impl[g]
                               /\ impl[g] # None => lst'[impl[g]] = lst[impl[g]]
  BY DisposedKeeps DEF Destroy, HeapInv, HeapTypeOK
<1>2. impl'[h] = None
  BY DEF Destroy, HeapInv, HeapTypeOK
<1>3. Seen' = [Seen EXCEPT ![h] = None]
  BY <1>1, <1>2, SeenChange
<1> QED
  BY <1>3, SeenAlive DEF Destroy, Values!Destroy

LEMMA SeenAssign ==
  ASSUME HeapInv, HeapInv', NEW h \in Handles, NEW other \in Handles, Assign(h, other)
  PROVE  Values!Assign(h, other)
<1>1. /\ impl' = [impl EXCEPT ![h] = impl[other]]
      /\ lst' = Disposed(impl[h], ref')
      /\ Alive(h) /\ Alive(other) /\ impl[other] # None
  BY DEF Assign, Alive
<1>2. \A g \in Handles \ {h} : /\ impl'[g] = impl[g]
                               /\ impl[g] # None => lst'[impl[g]] = lst[impl[g]]
  BY <1>1, DisposedKeeps DEF HeapInv, HeapTypeOK
<1>3. impl'[h] = impl[other] /\ impl'[other] = impl[other]
  BY <1>1 DEF HeapInv, HeapTypeOK
<1>4. lst'[impl'[h]] = lst[impl[other]]
  BY <1>1, <1>3, DisposedKeeps
<1>5. Seen' = [Seen EXCEPT ![h] = Seen[other]]
  BY <1>1, <1>2, <1>3, <1>4, SeenChange, SeenAlive
<1> QED
  BY <1>1, <1>5, SeenAlive DEF Values!Assign

LEMMA SeenWrite ==
  ASSUME HeapInv, NEW h \in Handles, NEW new \in Seq(Items), Write(h, new)
  PROVE  Values!Change(h) /\ Seen' = [Seen EXCEPT ![h] = new]
<1>1. Alive(h) /\ impl[h] \in Cells /\ impl[h] # None
  BY AliveCounted DEF Write, Alive
<1>2. Seen' = [Seen EXCEPT ![h] = new]
  <2>1. CASE WriteOwn(h, new)
    <3>1. impl' = impl /\ lst' = [lst EXCEPT ![impl[h]] = new] /\ ref[impl[h]] = 1
      BY <2>1 DEF WriteOwn
    <3>2. \A g \in Handles \ {h} : impl[g] # impl[h]
      BY <3>1, <1>1, SoleHolder
    <3>3. \A g \in Handles \ {h} : /\ impl'[g] = impl[g]
                                   /\ impl[g] # None => lst'[impl[g]] = lst[impl[g]]
      BY <3>1, <3>2 DEF HeapInv, HeapTypeOK
    <3>4. impl'[h] # None /\ lst'[impl'[h]] = new
      BY <3>1, <1>1 DEF HeapInv, HeapTypeOK
    <3> QED
      BY <3>3, <3>4, SeenChange
  <2>2. CASE WriteCopy(h, new)
    <3>1. PICK c \in Free : impl' = [impl EXCEPT ![h] = c] /\ lst' = [lst EXCEPT ![c] = new]
      BY <2>2 DEF WriteCopy
    <3>2. c \in Cells /\ c # None /\ lst[c] = Freed
      BY HeapAssumption DEF Free
    <3>3. \A g \in Handles \ {h} : /\ impl'[g] = impl[g]
                                   /\ impl[g] # None => lst'[impl[g]] = lst[impl[g]]
      BY <3>1, <3>2, AliveCounted, HeapAssumption DEF HeapInv, HeapTypeOK, Alive
    <3>4. impl'[h] = c /\ lst'[c] = new
      BY <3>1, <3>2 DEF HeapInv, HeapTypeOK
    <3> QED
      BY <3>2, <3>3, <3>4, SeenChange
  <2> QED
    BY <2>1, <2>2 DEF Write
<1>3. Seen'[h] = new
  BY <1>2 DEF Seen
<1> QED
  BY <1>1, <1>2, <1>3, SeenAlive DEF Values!Change

LEMMA SeenStep == HeapInv /\ HeapInv' /\ [HeapNext]_heap => [Values!Next]_Seen
<1> SUFFICES ASSUME HeapInv, HeapInv', [HeapNext]_heap
             PROVE  Values!Next \/ Seen' = Seen
  OBVIOUS
<1>1. CASE Inherited
  BY <1>1, SeenCreate, SeenCopy, SeenDestroy, SeenAssign DEF Inherited, Values!Next
<1>2. CASE \E h \in Handles : \E new \in Seq(Items) : Write(h, new)
  BY <1>2, SeenWrite DEF Values!Next
<1>3. CASE UNCHANGED heap
  BY <1>3 DEF heap, Seen, Alive, Content
<1> QED
  BY <1>1, <1>2, <1>3 DEF HeapNext

(* unhook() hides the sharing: the containers implement containers that    *)
(* each have their own content, whatever their writers write.              *)
THEOREM SharingIsInvisible == HeapSpec => SharingInvisible
BY HeapInvInit, HeapInvStep, SeenInit, SeenStep, PTL DEF HeapSpec, SharingInvisible, Values!Spec
-------------------------------------------------------------------------------
(* EdbusDict.                                                              *)

(* A cell holds a well-formed list of entries, whoever points to it.       *)
Good(l) == l \in Seq(Entry) /\ WellFormed(l)

DictInv == HeapInv /\ \A c \in Cells : lst[c] # Freed => Good(lst[c])

-----------------------------------------------------------------------------
LEMMA GoodIsContent == ASSUME NEW l, Good(l) PROVE l \in Seq(Items)
BY SeqMonotonic, ItemsAssumption DEF Good

LEMMA EmptyGood == Good(<<>>)
<1>1. <<>> \in Seq(Entry) /\ DOMAIN <<>> = {}
  BY EmptySeq
<1> QED
  BY <1>1 DEF Good, WellFormed

(* What operator== can answer: a comparable value is found where it is,    *)
(* and not taken for another.                                              *)
LEMMA Comparisons ==
  ASSUME NEW s \in Seq(Data), NEW k \in Data, NEW places \in CanBeFound(s, k)
  PROVE  /\ places \in SUBSET DOMAIN s
         /\ \A i \in DOMAIN s : Comparable(s[i]) \/ Comparable(k) => (i \in places <=> s[i] = k)
<1>1. PICK more \in SUBSET {i \in DOMAIN s : MayBeEqual(s[i], k)} : places = Found(s, k) \cup more
  BY DEF CanBeFound
<1>2. places \in SUBSET DOMAIN s
  BY <1>1 DEF Found
<1>3. ASSUME NEW i \in DOMAIN s, Comparable(s[i]) \/ Comparable(k)
      PROVE  i \in places <=> s[i] = k
  <2>1. i \in places => IsEqual(s[i], k) \/ MayBeEqual(s[i], k)
    BY <1>1 DEF Found
  <2>2. IsEqual(s[i], k) => i \in places
    BY <1>1 DEF Found
  <2> DEFINE x == s[i]
  <2> HIDE DEF x
  <2>3. (Comparable(x) \/ Comparable(k)) /\ (IsEqual(x, k) \/ MayBeEqual(x, k)) => x = k
    BY DEF Comparable, IsEqual, MayBeEqual, Basic
  <2>4. Comparable(k) => IsEqual(k, k)
    BY DEF Comparable, IsEqual
  <2>5. i \in places => x = k
    BY <1>3, <2>1, <2>3 DEF x
  <2>6. x = k => i \in places
    BY <1>3, <2>2, <2>4 DEF x
  <2> QED
    BY <2>5, <2>6 DEF x
<1> QED
  BY <1>2, <1>3

LEMMA FirstOfPlaces ==
  ASSUME NEW places \in SUBSET Nat, places # {}
  PROVE  First(places) \in places
<1>1. PICK j \in places : TRUE
  OBVIOUS
<1>2. \E i \in places : \A n \in places : i <= n
  BY <1>1, Smallest
<1> QED
  BY <1>2 DEF First

(* Of keys: what is found first is the only entry with the key if it can   *)
(* be compared, and otherwise an entry whose key cannot.                   *)
LEMMA KeysFound ==
  ASSUME NEW l, Good(l), NEW k \in Data, NEW places \in CanBeFound(KeysOf(l), k)
  PROVE  /\ places = {} => \A j \in DOMAIN l : Comparable(l[j].key) \/ Comparable(k) => l[j].key # k
         /\ places # {} =>
              /\ First(places) \in DOMAIN l
              /\ Comparable(k) => l[First(places)].key = k
              /\ \A j \in DOMAIN l :
                   Comparable(l[j].key) => (l[j].key = k <=> j = First(places))
<1>1. DOMAIN l = 1..Len(l) /\ Len(l) \in Nat
  BY LenProperties DEF Good
<1>2. \A i \in DOMAIN l : l[i] \in Entry
  BY ElementOfSeq DEF Good
<1>3. KeysOf(l) \in Seq(Data) /\ DOMAIN KeysOf(l) = DOMAIN l /\ \A i \in DOMAIN l : KeysOf(l)[i] = l[i].key
  <2>1. KeysOf(l) \in [1..Len(l) -> Data]
    BY <1>1, <1>2 DEF KeysOf, Entry
  <2> QED
    BY <1>1, <2>1, SeqDef DEF KeysOf
<1> DEFINE s == KeysOf(l)
<1> HIDE DEF s
<1>4. /\ places \in SUBSET DOMAIN s
      /\ \A i \in DOMAIN s : Comparable(s[i]) \/ Comparable(k) => (i \in places <=> s[i] = k)
  BY <1>3, Comparisons DEF s
<1>5. /\ places \in SUBSET DOMAIN l
      /\ \A i \in DOMAIN l : Comparable(l[i].key) \/ Comparable(k) => (i \in places <=> l[i].key = k)
  BY <1>3, <1>4 DEF s
<1>6. ASSUME places # {}
      PROVE  /\ First(places) \in DOMAIN l
             /\ Comparable(k) => l[First(places)].key = k
             /\ \A j \in DOMAIN l :
                  Comparable(l[j].key) => (l[j].key = k <=> j = First(places))
  <2>1. First(places) \in places
    BY <1>1, <1>5, <1>6, FirstOfPlaces
  <2> DEFINE p == First(places)
  <2>2. p \in places /\ p \in DOMAIN l /\ (Comparable(k) => l[p].key = k)
    BY <1>5, <2>1
  <2> HIDE DEF p
  <2>3. ASSUME NEW j \in DOMAIN l, Comparable(l[j].key)
        PROVE  l[j].key = k <=> j = p
    <3>1. j = p => l[j].key = k
      BY <1>5, <2>2, <2>3
    <3>2. l[j].key = k => l[p].key = l[j].key
      BY <2>2, <2>3
    <3>3. l[p].key = l[j].key => j = p
      BY <2>2, <2>3 DEF Good, WellFormed
    <3> QED
      BY <3>1, <3>2, <3>3
  <2> QED
    BY <2>2, <2>3 DEF p
<1>7. places = {} => \A j \in DOMAIN l : Comparable(l[j].key) \/ Comparable(k) => l[j].key # k
  BY <1>5
<1> QED
  BY <1>6, <1>7

(* The entries whose keys can be compared.                                 *)
Entries(l) == {e \in {l[i] : i \in DOMAIN l} : Comparable(e.key)}

(* append() keeps the keys unique and all types one, and puts the entry in *)
(* the place of one with its key.                                          *)
LEMMA AppendedGood ==
  ASSUME NEW l, Good(l), NEW k \in Data, NEW v \in Data, Accepts(l, k, v),
         NEW places \in CanBeFound(KeysOf(l), k)
  PROVE  /\ Good(Appended(l, places, k, v))
         /\ Comparable(k) => Entries(Appended(l, places, k, v)) =
              {e \in Entries(l) : e.key # k} \cup {[key |-> k, value |-> v]}
         /\ ~Comparable(k) => Entries(Appended(l, places, k, v)) = Entries(l)
         /\ \A i \in DOMAIN l : TypeOf[l[i].key] = TypeOf[k] /\ TypeOf[l[i].value] = TypeOf[v]
<1> DEFINE new == Appended(l, places, k, v)
<1>1. l \in Seq(Entry) /\ DOMAIN l = 1..Len(l) /\ Len(l) \in Nat
  BY LenProperties DEF Good
<1>2. \A i \in DOMAIN l : l[i] \in Entry
  BY <1>1, ElementOfSeq
<1>3. \A i \in DOMAIN l : TypeOf[l[i].key] = TypeOf[k] /\ TypeOf[l[i].value] = TypeOf[v]
  <2> SUFFICES ASSUME NEW i \in DOMAIN l
               PROVE  TypeOf[l[i].key] = TypeOf[k] /\ TypeOf[l[i].value] = TypeOf[v]
    OBVIOUS
  <2>1. l # <<>> /\ 1 \in DOMAIN l
    BY <1>1, EmptySeq
  <2> QED
    BY <2>1 DEF Accepts, Good, WellFormed
<1>4. CASE places # {}
  <2> DEFINE p == First(places)
             e == [l[p] EXCEPT !.value = v]
  <2>1. /\ p \in DOMAIN l /\ (Comparable(k) => l[p].key = k)
        /\ \A j \in DOMAIN l : Comparable(l[j].key) => (l[j].key = k <=> j = p)
    BY <1>4, KeysFound
  <2>2. e \in Entry /\ e.key = l[p].key /\ e.value = v
    BY <1>2, <2>1 DEF Entry
  <2>3. new = [l EXCEPT ![p] = e]
    BY <1>4 DEF Appended
  <2> HIDE DEF p, e, new
  <2>4. new \in Seq(Entry) /\ Len(new) = Len(l)
    BY <1>1, <2>1, <2>2, <2>3, ExceptSeq
  <2>5. DOMAIN new = DOMAIN l
    BY <1>1, <2>4, LenProperties
  <2>6. \A j \in DOMAIN l : /\ new[j].key = l[j].key
                            /\ j = p => new[j].value = v
                            /\ j # p => new[j].value = l[j].value
    BY <1>1, <2>1, <2>2, <2>3
  <2>7. \A j \in DOMAIN l : TypeOf[new[j].key] = TypeOf[k] /\ TypeOf[new[j].value] = TypeOf[v]
    BY <1>3, <2>6
  <2>8. WellFormed(new)
    BY <2>5, <2>6, <2>7 DEF Good, WellFormed, Accepts
  <2>9. \A j \in DOMAIN l : new[j] = IF j = p THEN e ELSE l[j]
    BY <1>1, <2>1, <2>3
  <2>10. Comparable(k) => Entries(new) = {x \in Entries(l) : x.key # k} \cup {e}
    <3> SUFFICES ASSUME Comparable(k)
                 PROVE  Entries(new) = {x \in Entries(l) : x.key # k} \cup {e}
      OBVIOUS
    <3>1. \A j \in DOMAIN l : Comparable(l[j].key) => (l[j].key # k <=> j # p)
      BY <2>1
    <3>2. e.key = k /\ new[p] = e
      BY <2>1, <2>2, <2>9
    <3> QED
      BY <2>1, <2>5, <2>9, <3>1, <3>2 DEF Entries
  <2>11. ~Comparable(k) => Entries(new) = Entries(l)
    <3> SUFFICES ASSUME ~Comparable(k)
                 PROVE  Entries(new) = Entries(l)
      OBVIOUS
    <3>1. ~Comparable(l[p].key) /\ ~Comparable(e.key)
      BY <2>1, <2>2
    <3> QED
      BY <2>1, <2>5, <2>9, <3>1 DEF Entries
  <2>12. Comparable(k) => e = [key |-> k, value |-> v]
    BY <2>1, <2>2 DEF Entry
  <2> QED
    BY <1>3, <2>4, <2>8, <2>10, <2>11, <2>12 DEF Good, new
<1>5. CASE places = {}
  <2> DEFINE e == [key |-> k, value |-> v]
  <2>1. e \in Entry /\ e.key = k /\ e.value = v
    BY DEF Entry
  <2>2. new = Append(l, e)
    BY <1>5 DEF Appended
  <2> HIDE DEF e, new
  <2>3. /\ new \in Seq(Entry) /\ Len(new) = Len(l) + 1
        /\ \A j \in 1..Len(l) : new[j] = l[j]
        /\ new[Len(l) + 1] = e
    BY <1>1, <2>1, <2>2, AppendProperties
  <2>4. DOMAIN new = 1..(Len(l) + 1)
    BY <2>3, LenProperties
  <2>5. \A j \in DOMAIN l : Comparable(l[j].key) \/ Comparable(k) => l[j].key # k
    BY <1>5, KeysFound
  <2>6. \A j \in DOMAIN new : \/ j \in DOMAIN l /\ new[j] = l[j]
                              \/ j = Len(l) + 1 /\ new[j].key = k /\ new[j].value = v
    BY <1>1, <2>1, <2>3, <2>4
  <2>7. \A j \in DOMAIN new : TypeOf[new[j].key] = TypeOf[k] /\ TypeOf[new[j].value] = TypeOf[v]
    BY <1>3, <2>6
  <2>8. \A i, j \in DOMAIN new : Comparable(new[i].key) /\ new[i].key = new[j].key => i = j
    BY <2>5, <2>6 DEF Good, WellFormed
  <2>9. WellFormed(new)
    BY <2>7, <2>8 DEF WellFormed, Accepts
  <2>10. Len(l) + 1 \in DOMAIN new /\ DOMAIN l \subseteq DOMAIN new
    BY <1>1, <2>4
  <2>11. \A j \in DOMAIN new : (j \in DOMAIN l /\ new[j] = l[j]) \/ new[j] = e
    BY <1>1, <2>3, <2>4
  <2>12. \A j \in DOMAIN l : new[j] = l[j]
    BY <1>1, <2>3
  <2>13. Comparable(k) => Entries(new) = {x \in Entries(l) : x.key # k} \cup {e}
    BY <2>1, <2>3, <2>5, <2>10, <2>11, <2>12 DEF Entries
  <2>14. ~Comparable(k) => Entries(new) = Entries(l)
    BY <2>1, <2>10, <2>11, <2>12 DEF Entries
  <2> QED
    BY <1>3, <2>3, <2>9, <2>13, <2>14 DEF Good, new, e
<1> QED
  BY <1>4, <1>5

(* remove() takes the entry with the key out and no other.                 *)
LEMMA RemovedGood ==
  ASSUME NEW l, Good(l), NEW k \in Data, NEW places \in CanBeFound(KeysOf(l), k)
  PROVE  Good(Removed(l, places)) /\ Entries(Removed(l, places)) = {e \in Entries(l) : e.key # k}
<1>1. CASE places = {}
  <2>1. \A j \in DOMAIN l : Comparable(l[j].key) => l[j].key # k
    BY <1>1, KeysFound
  <2> QED
    BY <1>1, <2>1 DEF Removed, Entries
<1>2. CASE places # {}
  <2> DEFINE p == First(places)
             front == SubSeq(l, 1, p - 1)
             back == SubSeq(l, p + 1, Len(l))
             new == front \o back
  <2>1. l \in Seq(Entry) /\ DOMAIN l = 1..Len(l) /\ Len(l) \in Nat
    BY LenProperties DEF Good
  <2>2. p \in 1..Len(l)
    BY <1>2, <2>1, KeysFound
  <2>3. Removed(l, places) = new
    BY <1>2 DEF Removed, Without
  <2> HIDE DEF p
  <2>4. \A i \in 1..Len(l) : l[i] \in Entry
    BY <2>1, ElementOfSeq
  <2>5. /\ front \in Seq(Entry) /\ Len(front) = p - 1
        /\ \A i \in 1..(p - 1) : front[i] = l[i]
    <3>1. 1 \in Int /\ p - 1 \in Int /\ p - 1 >= 0
      BY <2>2
    <3>2. \A i \in 1..(p - 1) : l[i] \in Entry
      BY <2>1, <2>2, <2>4
    <3>3. /\ front \in Seq(Entry)
          /\ Len(front) = IF 1 <= p - 1 THEN (p - 1) - 1 + 1 ELSE 0
          /\ \A i \in 1..((p - 1) - 1 + 1) : front[i] = l[1 + i - 1]
      BY <3>1, <3>2, SubSeqProperties
    <3> HIDE DEF front
    <3> QED
      BY <3>1, <3>3
  <2>6. /\ back \in Seq(Entry) /\ Len(back) = Len(l) - p
        /\ \A i \in 1..(Len(l) - p) : back[i] = l[p + i]
    <3>1. p + 1 \in Int /\ Len(l) \in Int /\ p <= Len(l) /\ p \in Nat
      BY <2>1, <2>2
    <3>2. \A i \in (p + 1)..Len(l) : l[i] \in Entry
      BY <2>1, <2>2, <2>4
    <3>3. /\ back \in Seq(Entry)
          /\ Len(back) = IF p + 1 <= Len(l) THEN Len(l) - (p + 1) + 1 ELSE 0
          /\ \A i \in 1..(Len(l) - (p + 1) + 1) : back[i] = l[(p + 1) + i - 1]
      BY <3>1, <3>2, SubSeqProperties
    <3> HIDE DEF back
    <3>4. Len(l) - (p + 1) + 1 = Len(l) - p
      BY <3>1
    <3>5. Len(back) = Len(l) - p
      <4>1. p + 1 <= Len(l) <=> p # Len(l)
        BY <3>1, <2>2
      <4>2. p = Len(l) => Len(l) - p = 0
        BY <3>1
      <4> QED
        BY <3>3, <3>4, <4>1, <4>2
    <3>6. ASSUME NEW i \in 1..(Len(l) - p)
          PROVE  back[i] = l[p + i]
      <4>1. (p + 1) + i - 1 = p + i
        BY <3>1
      <4> QED
        BY <3>3, <3>4, <4>1
    <3> QED
      BY <3>3, <3>5, <3>6
  <2> HIDE DEF front, back
  <2>7. /\ new \in Seq(Entry) /\ Len(new) = Len(l) - 1
        /\ \A i \in 1..(Len(l) - 1) :
             new[i] = IF i <= p - 1 THEN front[i] ELSE back[i - (p - 1)]
    <3>1. (p - 1) + (Len(l) - p) = Len(l) - 1
      BY <2>1, <2>2
    <3>2. /\ new \in Seq(Entry) /\ Len(new) = Len(front) + Len(back)
          /\ \A i \in 1..(Len(front) + Len(back)) :
               new[i] = IF i <= Len(front) THEN front[i] ELSE back[i - Len(front)]
      BY <2>5, <2>6, ConcatProperties
    <3> QED
      BY <2>5, <2>6, <3>1, <3>2
  <2> HIDE DEF new
  <2>8. DOMAIN new = 1..(Len(l) - 1)
    BY <2>7, LenProperties
  <2> DEFINE from(i) == IF i <= p - 1 THEN i ELSE i + 1
  <2>9. \A i \in DOMAIN new : from(i) \in DOMAIN l /\ new[i] = l[from(i)]
    <3> SUFFICES ASSUME NEW i \in DOMAIN new
                 PROVE  from(i) \in DOMAIN l /\ new[i] = l[from(i)]
      OBVIOUS
    <3>1. CASE i <= p - 1
      <4>1. i \in 1..(p - 1) /\ new[i] = front[i]
        BY <2>2, <2>7, <2>8, <3>1
      <4> QED
        BY <2>1, <2>2, <2>5, <3>1, <4>1
    <3>2. CASE ~(i <= p - 1)
      <4> DEFINE j == i - (p - 1)
      <4>1. new[i] = back[j]
        BY <2>7, <2>8, <3>2
      <4>2. j \in 1..(Len(l) - p) /\ p + j = i + 1 /\ i + 1 \in 1..Len(l)
        BY <2>1, <2>2, <2>8, <3>2
      <4>3. back[j] = l[i + 1]
        BY <2>6, <4>2
      <4> QED
        BY <2>1, <3>2, <4>1, <4>2, <4>3
    <3> QED
      BY <3>1, <3>2
  <2>10. \A i, j \in DOMAIN new : from(i) = from(j) => i = j
    BY <2>1, <2>2, <2>8
  <2>11. \A i \in DOMAIN new : from(i) # p
    BY <2>2, <2>8
  <2>12. \A j \in DOMAIN l \ {p} : \E i \in DOMAIN new : from(i) = j
    <3> SUFFICES ASSUME NEW j \in DOMAIN l \ {p}
                 PROVE  \E i \in DOMAIN new : from(i) = j
      OBVIOUS
    <3>1. CASE j < p
      <4>1. j \in DOMAIN new /\ from(j) = j
        BY <2>1, <2>2, <2>8, <3>1
      <4> QED
        BY <4>1
    <3>2. CASE j > p
      <4>1. j - 1 \in DOMAIN new /\ from(j - 1) = j
        BY <2>1, <2>2, <2>8, <3>2
      <4> QED
        BY <4>1
    <3> QED
      BY <2>1, <2>2, <3>1, <3>2
  <2> HIDE DEF from
  <2>13. WellFormed(new)
    BY <2>9, <2>10 DEF Good, WellFormed
  <2>14. Entries(new) = {e \in Entries(l) : e.key # k}
    <3>1. \A j \in DOMAIN l : Comparable(l[j].key) => (l[j].key # k <=> j # p)
      BY <1>2, KeysFound DEF p
    <3> QED
      BY <2>9, <2>11, <2>12, <3>1 DEF Entries
  <2> QED
    BY <2>3, <2>7, <2>13, <2>14 DEF Good
<1> QED
  BY <1>1, <1>2
-----------------------------------------------------------------------------
(* What a step may leave in a cell: nothing, what was there, the empty     *)
(* list, or what was written.                                              *)
LEMMA InheritedContents ==
  ASSUME HeapInv, Inherited
  PROVE  \A c \in Cells : lst'[c] \in {Freed, <<>>, lst[c]}
<1>1. ASSUME NEW h \in Handles, Create(h)
      PROVE  \A c \in Cells : lst'[c] \in {Freed, <<>>, lst[c]}
  BY <1>1 DEF Create, HeapInv, HeapTypeOK
<1>2. ASSUME NEW h \in Handles, lst' = Disposed(impl[h], ref') \/ UNCHANGED lst
      PROVE  \A c \in Cells : lst'[c] \in {Freed, <<>>, lst[c]}
  BY <1>2 DEF Disposed, HeapInv, HeapTypeOK
<1> QED
  BY <1>1, <1>2 DEF Inherited, Copy, Destroy, Assign

LEMMA WriteContents ==
  ASSUME HeapInv, NEW h \in Handles, NEW new, Write(h, new)
  PROVE  \A c \in Cells : lst'[c] \in {new, lst[c]}
BY DEF Write, WriteOwn, WriteCopy, HeapInv, HeapTypeOK

(* A step of a dict is one of a container, and writes a good list.         *)
LEMMA DictStep ==
  ASSUME DictInv, Next
  PROVE  \/ Inherited
         \/ \E h \in Handles : \E new : Good(new) /\ Write(h, new)
         \/ UNCHANGED heap
<1>1. ASSUME NEW h \in Handles, Alive(h)
      PROVE  Good(Content(h))
  BY <1>1, AliveCounted, HeapAssumption DEF DictInv, Content
<1>2. ASSUME NEW h \in Handles, Clear(h)
      PROVE  \E new : Good(new) /\ Write(h, new)
  BY <1>2, EmptyGood DEF Clear
<1>3. ASSUME NEW h \in Handles, NEW k \in Data, Remove(h, k)
      PROVE  \E new : Good(new) /\ Write(h, new)
  <2>1. PICK places \in CanBeFound(KeysOf(Content(h)), k) : Write(h, Removed(Content(h), places))
    BY <1>3 DEF Remove
  <2> QED
    BY <1>1, <1>3, <2>1, RemovedGood DEF Remove
<1>4. ASSUME NEW h \in Handles, NEW k \in Data, NEW v \in Data, AppendEntry(h, k, v)
      PROVE  \E new : Good(new) /\ Write(h, new)
  <2>1. PICK places \in CanBeFound(KeysOf(Content(h)), k) :
          Write(h, Appended(Content(h), places, k, v))
    BY <1>4 DEF AppendEntry
  <2> QED
    BY <1>1, <1>4, <2>1, AppendedGood DEF AppendEntry
<1> QED
  BY <1>2, <1>3, <1>4 DEF Next, RejectEntry

LEMMA DictInvInit == Init => DictInv
BY HeapInvInit DEF Init, HeapInit, DictInv

LEMMA DictInvStep == DictInv /\ [Next]_heap => DictInv' /\ [HeapNext]_heap
<1> SUFFICES ASSUME DictInv, [Next]_heap
             PROVE  DictInv' /\ [HeapNext]_heap
  OBVIOUS
<1>1. \/ Inherited
      \/ \E h \in Handles : \E new : Good(new) /\ Write(h, new)
      \/ UNCHANGED heap
  BY DictStep
<1>2. [HeapNext]_heap
  BY <1>1, GoodIsContent DEF HeapNext
<1>3. HeapInv'
  BY <1>2, HeapInvStep DEF DictInv
<1>4. \A c \in Cells : lst'[c] # Freed => Good(lst'[c])
  <2>1. CASE Inherited
    BY <2>1, InheritedContents, EmptyGood DEF DictInv
  <2>2. CASE \E h \in Handles : \E new : Good(new) /\ Write(h, new)
    BY <2>2, WriteContents DEF DictInv
  <2>3. CASE UNCHANGED heap
    BY <2>3 DEF heap, DictInv
  <2> QED
    BY <1>1, <2>1, <2>2, <2>3
<1> QED
  BY <1>2, <1>3, <1>4 DEF DictInv

LEMMA DictInvImplies == DictInv => DictsWellFormed
BY AliveCounted, HeapAssumption DEF DictInv, DictsWellFormed, Content, Good

(* A dict's writers unhook: a dict is a container, so that all that is     *)
(* proved of containers holds of dicts (EdbusDict.cpp:24-86).              *)
THEOREM DictIsAContainer == Spec => HeapSpec
<1>1. Init => HeapInit
  BY DEF Init
<1> QED
  BY <1>1, DictInvInit, DictInvStep, PTL DEF Spec, HeapSpec

(* Keys that can be compared are unique, and all keys and all values of    *)
(* one type, in every dict at any time, however they are copied, assigned  *)
(* and shared, and whatever operator== answers of other keys (EdbusDict.   *)
(* cpp:24-86, EdbusData.cpp:293-357).                                      *)
THEOREM DictsAreWellFormed == Spec => []DictsWellFormed
BY DictInvInit, DictInvStep, DictInvImplies, PTL DEF Spec

-----------------------------------------------------------------------------
(* Lists.                                                                  *)
OneType(l) == \A n, k \in DOMAIN l : TypeOf[l[n]] = TypeOf[l[k]]

(* What a list without some of its elements still is.                      *)
LEMMA PartOfOneType ==
  ASSUME NEW l \in Seq(Data), NEW new \in Seq(Data),
         \A n \in DOMAIN new : \E k \in DOMAIN l : new[n] = l[k]
  PROVE  OneType(l) => OneType(new)
BY DEF OneType

LEMMA ListRemoved ==
  ASSUME NEW l \in Seq(Data), NEW places \in SUBSET DOMAIN l
  PROVE  /\ List!Removed(l, places) \in Seq(Data)
         /\ \A n \in DOMAIN List!Removed(l, places) :
              \E k \in DOMAIN l : List!Removed(l, places)[n] = l[k]
<1>0. CASE places = {}
  BY <1>0 DEF List!Removed
<1> SUFFICES ASSUME places # {}
             PROVE  /\ List!Removed(l, places) \in Seq(Data)
                    /\ \A n \in DOMAIN List!Removed(l, places) :
                         \E k \in DOMAIN l : List!Removed(l, places)[n] = l[k]
  BY <1>0
<1>1. Len(l) \in Nat /\ DOMAIN l = 1..Len(l)
  OBVIOUS
<1> DEFINE p == First(places)
           front == SubSeq(l, 1, p - 1)
           back == SubSeq(l, p + 1, Len(l))
<1>2. p \in places
  BY <1>1, FirstOfPlaces
<1>3. p \in 1..(Len(l) + 1)
  BY <1>1, <1>2
<1>4. List!Removed(l, places) = front \o back
  BY DEF List!Removed, List!Without, List!First, First
<1> HIDE DEF p
<1>5. /\ front \in Seq(Data)
      /\ \A n \in DOMAIN front : \E k \in DOMAIN l : front[n] = l[k]
  BY <1>1, <1>3
<1>6. /\ back \in Seq(Data)
      /\ \A n \in DOMAIN back : \E k \in DOMAIN l : back[n] = l[k]
  BY <1>1, <1>3
<1> HIDE DEF front, back
<1> DEFINE new == front \o back
<1>7. /\ new \in Seq(Data) /\ Len(new) = Len(front) + Len(back)
      /\ Len(front) \in Nat /\ Len(back) \in Nat
      /\ \A n \in 1..Len(front) : new[n] = front[n]
      /\ \A n \in 1..Len(back) : new[Len(front) + n] = back[n]
  BY <1>5, <1>6, Places
<1> HIDE DEF new
<1>8. ASSUME NEW n \in DOMAIN new
      PROVE  \E k \in DOMAIN l : new[n] = l[k]
  <2>1. CASE n <= Len(front)
    BY <1>5, <1>7, <2>1
  <2>2. CASE n > Len(front)
    <3>1. n - Len(front) \in 1..Len(back) /\ Len(front) + (n - Len(front)) = n
      BY <1>7, <2>2
    <3>2. new[n] = back[n - Len(front)]
      BY <1>7, <3>1
    <3> QED
      BY <1>6, <3>1, <3>2
  <2> QED
    BY <1>7, <2>1, <2>2
<1> QED
  BY <1>4, <1>7, <1>8 DEF new

(* The inductive invariant of a program with dicts or lists.               *)
ListInv ==
  /\ \A c \in Cells : lst[c] # Freed => lst[c] \in Seq(Data)
  /\ \A h \in Handles : Alive(h) /\ array_mode[h] => OneType(Seen[h])

EdbusInv ==
  /\ kind \in {"dict", "list"} /\ array_mode \in [Handles -> BOOLEAN]
  /\ HeapInv
  /\ kind = "dict" => DictInv
  /\ kind = "list" => ListInv

(* A step of a list is one of a container that gives, copies or keeps the  *)
(* object's mode, and writes what the mode allows.                         *)
ListStep ==
  \/ \E h \in Handles, a \in BOOLEAN : Create(h) /\ array_mode' = [array_mode EXCEPT ![h] = a]
  \/ \E h \in Handles, g \in Handles :
       /\ Copy(h, g) \/ Assign(h, g)
       /\ array_mode' = [array_mode EXCEPT ![h] = array_mode[g]]
  \/ \E h \in Handles : Destroy(h) /\ array_mode' = [array_mode EXCEPT ![h] = FALSE]
  \/ \E h \in Handles : \E new \in Seq(Data) :
       /\ Write(h, new) /\ (array_mode[h] => OneType(new))
       /\ UNCHANGED array_mode
  \/ UNCHANGED <<heap, array_mode>>

LEMMA ListSteps ==
  ASSUME EdbusInv, kind = "list", List!Next
  PROVE  ListStep
<1>1. /\ \A h : List!Alive(h) <=> Alive(h)
      /\ \A h : List!Content(h) = Content(h)
      /\ \A h, new : List!Write(h, new) <=> Write(h, new)
  BY DEF List!Alive, Alive, List!Content, Content, List!Write, Write,
         List!WriteOwn, WriteOwn, List!WriteCopy, WriteCopy, List!Free, Free
<1>2. \A h : /\ List!Create(h) <=> Create(h)
             /\ List!Destroy(h) <=> Destroy(h)
             /\ \A g : List!Copy(h, g) <=> Copy(h, g)
             /\ \A g : List!Assign(h, g) <=> Assign(h, g)
  BY DEF List!Create, Create, List!Destroy, Destroy, List!Copy, Copy, List!Assign, Assign,
         List!Alive, Alive, List!Free, Free, List!Disposed, Disposed
<1>3. ASSUME NEW h \in Handles, Alive(h)
      PROVE  /\ Content(h) \in Seq(Data)
             /\ array_mode[h] => OneType(Content(h))
  BY <1>3, AliveCounted, SeenAlive, HeapAssumption DEF EdbusInv, ListInv, Content
<1>4. ASSUME NEW h \in Handles, NEW new \in Seq(Data), Write(h, new), UNCHANGED array_mode,
             array_mode[h] => OneType(new)
      PROVE  ListStep
  BY <1>4 DEF ListStep
<1>5. ASSUME NEW h \in Handles, List!Clear(h)
      PROVE  ListStep
  <2>1. Write(h, <<>>) /\ UNCHANGED array_mode
    BY <1>1, <1>5 DEF List!Clear
  <2>2. <<>> \in Seq(Data) /\ OneType(<<>>)
    BY DEF OneType
  <2> QED
    BY <1>4, <2>1, <2>2
<1>6. ASSUME NEW h \in Handles, NEW v \in Data, List!AppendData(h, v)
      PROVE  ListStep
  <2> DEFINE l == Content(h)
             new == Append(l, v)
  <2>1. /\ Alive(h) /\ Write(h, new) /\ UNCHANGED array_mode
        /\ array_mode[h] /\ l # <<>> => TypeOf[v] = TypeOf[l[1]]
    BY <1>1, <1>6 DEF List!AppendData, List!Accepts
  <2>2. l \in Seq(Data) /\ (array_mode[h] => OneType(l))
    BY <1>3, <2>1
  <2> HIDE DEF l
  <2>3. new \in Seq(Data)
    BY <2>2
  <2>4. ASSUME array_mode[h]
        PROVE  OneType(new)
    <3>1. \A n \in DOMAIN l : TypeOf[l[n]] = TypeOf[v]
      <4> SUFFICES ASSUME NEW n \in DOMAIN l
                   PROVE  TypeOf[l[n]] = TypeOf[v]
        OBVIOUS
      <4>1. l # <<>> /\ 1 \in DOMAIN l
        BY <2>2
      <4> QED
        BY <2>1, <2>2, <2>4, <4>1 DEF OneType
    <3>2. \A n \in DOMAIN new : (n \in DOMAIN l /\ new[n] = l[n]) \/ new[n] = v
      BY <2>2
    <3> HIDE DEF new
    <3> QED
      BY <3>1, <3>2 DEF OneType
  <2> QED
    BY <1>4, <2>1, <2>3, <2>4
<1>7. ASSUME NEW h \in Handles, NEW v \in Data, List!Remove(h, v)
      PROVE  ListStep
  <2>0. PICK places \in List!CanBeFound(Content(h), v) :
          List!Write(h, List!Removed(Content(h), places))
    BY <1>1, <1>7 DEF List!Remove
  <2> DEFINE new == List!Removed(Content(h), places)
  <2>1. Alive(h) /\ Write(h, new) /\ UNCHANGED array_mode
    BY <1>1, <1>7, <2>0 DEF List!Remove
  <2>3. places \in SUBSET DOMAIN Content(h)
    BY <2>0 DEF List!CanBeFound, List!Found
  <2>2. new \in Seq(Data) /\ (array_mode[h] => OneType(new))
    BY <1>3, <2>1, <2>3, ListRemoved, PartOfOneType
  <2> QED
    BY <1>4, <2>1, <2>2
<1>8. ASSUME NEW h \in Handles, NEW v \in Data, List!RemoveAll(h, v)
      PROVE  ListStep
  <2> DEFINE l == Content(h)
  <2>4. PICK erased \in List!CanBeFound(l, v) :
          List!Write(h, List!AtPlaces(l, DOMAIN l \ erased))
    BY <1>1, <1>8 DEF List!RemoveAll
  <2> DEFINE places == DOMAIN l \ erased
             new == AtPlaces(l, places)
  <2>0. List!AtPlaces(l, places) = AtPlaces(l, places)
    BY DEF List!AtPlaces, AtPlaces, List!Cardinality, Cardinality
  <2>1. Alive(h) /\ Write(h, new) /\ UNCHANGED array_mode
    <3>1. List!Content(h) = l /\ List!Alive(h) /\ UNCHANGED array_mode
      BY <1>1, <1>8 DEF List!RemoveAll
    <3>2. List!Write(h, List!AtPlaces(l, places))
      BY <2>4
    <3> QED
      BY <1>1, <2>0, <3>1, <3>2
  <2>2. l \in Seq(Data) /\ (array_mode[h] => OneType(l)) /\ places \in SUBSET DOMAIN l
    BY <1>3, <2>1
  <2> HIDE DEF l, places
  <2>3. new \in Seq(Data) /\ \A n \in DOMAIN new : \E k \in DOMAIN l : new[n] = l[k]
    BY <2>2, PlacesKept
  <2> QED
    BY <1>4, <2>1, <2>2, <2>3, PartOfOneType
<1>9. ASSUME NEW h \in Handles, NEW v \in Data, List!RejectData(h, v)
      PROVE  ListStep
  BY <1>9 DEF List!RejectData, List!listVars, List!heap, heap, ListStep
<1>10. ASSUME NEW h \in Handles,
              \/ \E a \in BOOLEAN : List!CreateMode(h, a)
              \/ \E other \in Handles : List!CopyMode(h, other)
              \/ List!DestroyMode(h)
       PROVE  ListStep
  BY <1>2, <1>10 DEF List!CreateMode, List!CopyMode, List!DestroyMode, ListStep
<1> QED
  BY <1>5, <1>6, <1>7, <1>8, <1>9, <1>10 DEF List!Next

(* What a step shows to the program, whatever its class.                   *)
LEMMA ListInvKept ==
  ASSUME EdbusInv, kind = "list", ListStep
  PROVE  [HeapNext]_heap /\ array_mode' \in [Handles -> BOOLEAN] /\ ListInv'
<1>0. HeapInv /\ ListInv /\ array_mode \in [Handles -> BOOLEAN] /\ None \notin Seq(Items)
  BY HeapAssumption DEF EdbusInv
<1>1. \A new \in Seq(Data) : new \in Seq(Items)
  BY ProgramAssumption, SeqMonotonic
<1>2. [HeapNext]_heap
  BY <1>1 DEF ListStep, HeapNext, Inherited
<1>3. HeapInv'
  BY <1>0, <1>2, HeapInvStep
<1>4. <<>> \in Seq(Data) /\ OneType(<<>>)
  BY DEF OneType
<1>5. ASSUME NEW h \in Handles, Alive(h)
      PROVE  Seen[h] # None /\ (array_mode[h] => OneType(Seen[h]))
  BY <1>0, <1>5, AliveCounted, SeenAlive DEF ListInv
<1>6. \A h \in Handles : Alive(h)' <=> Seen'[h] # None
  BY <1>0, <1>3, AliveCountedNext DEF Seen, Alive, Content
<1>7. \A h \in Handles : Values!Alive(h) <=> Alive(h)
  BY <1>0, SeenAlive
<1>8. \A c \in Cells : lst'[c] # Freed => lst'[c] \in Seq(Data)
  <2>1. CASE Inherited
    BY <1>0, <1>4, <2>1, InheritedContents DEF ListInv
  <2>2. CASE \E h \in Handles : \E new \in Seq(Data) : Write(h, new)
    BY <1>0, <2>2, WriteContents DEF ListInv
  <2>3. CASE UNCHANGED heap
    BY <1>0, <2>3 DEF ListInv, heap
  <2> QED
    BY <2>1, <2>2, <2>3 DEF ListStep, Inherited
<1>9. ASSUME NEW h \in Handles, NEW new, NEW a \in BOOLEAN,
             Seen' = [Seen EXCEPT ![h] = new],
             array_mode' = [array_mode EXCEPT ![h] = a],
             new = None \/ (a => OneType(new))
      PROVE  /\ array_mode' \in [Handles -> BOOLEAN]
             /\ \A g \in Handles : Alive(g)' /\ array_mode'[g] => OneType(Seen'[g])
  <2>1. Seen \in [Handles -> {Seen[g] : g \in Handles}]
    BY DEF Seen
  <2>2. \A g \in Handles : Seen'[g] = IF g = h THEN new ELSE Seen[g]
    BY <1>9, <2>1
  <2>3. \A g \in Handles : array_mode'[g] = IF g = h THEN a ELSE array_mode[g]
    BY <1>0, <1>9
  <2>4. \A g \in Handles \ {h} : Alive(g)' => Alive(g)
    BY <1>0, <1>6, <2>2, SeenAlive
  <2>5. array_mode' \in [Handles -> BOOLEAN]
    BY <1>0, <1>9
  <2>6. ASSUME NEW g \in Handles, Alive(g)', array_mode'[g]
        PROVE  OneType(Seen'[g])
    BY <1>5, <1>6, <1>9, <2>2, <2>3, <2>4, <2>6
  <2> QED
    BY <2>5, <2>6
<1> DEFINE ModesKept == /\ array_mode' \in [Handles -> BOOLEAN]
                        /\ \A g \in Handles : Alive(g)' /\ array_mode'[g] => OneType(Seen'[g])
<1>10. ModesKept
  <2>1. ASSUME NEW h \in Handles, NEW a \in BOOLEAN, Create(h),
               array_mode' = [array_mode EXCEPT ![h] = a]
        PROVE  ModesKept
    BY <1>0, <1>4, <1>9, <2>1, SeenCreate DEF Values!Create
  <2>2. ASSUME NEW h \in Handles, NEW g \in Handles, Copy(h, g) \/ Assign(h, g),
               array_mode' = [array_mode EXCEPT ![h] = array_mode[g]]
        PROVE  ModesKept
    <3>1. Seen' = [Seen EXCEPT ![h] = Seen[g]] /\ Alive(g)
      BY <1>0, <1>3, <2>2, SeenCopy, SeenAssign DEF Values!Copy, Values!Assign, Copy, Assign
    <3> QED
      BY <1>0, <1>5, <1>9, <2>2, <3>1
  <2>3. ASSUME NEW h \in Handles, Destroy(h), array_mode' = [array_mode EXCEPT ![h] = FALSE]
        PROVE  ModesKept
    BY <1>0, <1>3, <1>9, <2>3, SeenDestroy DEF Values!Destroy
  <2>4. ASSUME NEW h \in Handles, NEW new \in Seq(Data), Write(h, new),
               array_mode[h] => OneType(new), UNCHANGED array_mode
        PROVE  ModesKept
    <3>1. Seen' = [Seen EXCEPT ![h] = new]
      BY <1>0, <1>1, <2>4, SeenWrite
    <3>2. array_mode' = [array_mode EXCEPT ![h] = array_mode[h]] /\ array_mode[h] \in BOOLEAN
      BY <1>0, <2>4
    <3> QED
      BY <1>9, <2>4, <3>1, <3>2
  <2>5. CASE UNCHANGED <<heap, array_mode>>
    BY <1>0, <2>5 DEF ListInv, Seen, Alive, Content, heap
  <2> QED
    BY <2>1, <2>2, <2>3, <2>4, <2>5 DEF ListStep
<1> QED
  BY <1>2, <1>8, <1>10 DEF ListInv
-----------------------------------------------------------------------------
(* Dicts as maps.                                                          *)

(* The map of a list says what its entries say.                            *)
LEMMA MapOfEntries ==
  ASSUME NEW l, Good(l)
  PROVE  /\ MapOf(l) \in [KeysIn(l) -> Data] /\ KeysIn(l) \in SUBSET Data
         /\ KeysIn(l) = {e.key : e \in Entries(l)}
         /\ \A e \in Entries(l) : MapOf(l)[e.key] = e.value
<1>1. \A i \in DOMAIN l : l[i] \in Entry
  BY ElementOfSeq DEF Good
<1>2. KeysIn(l) = {e.key : e \in Entries(l)} /\ KeysIn(l) \in SUBSET Data
  BY <1>1 DEF KeysIn, Entries, Entry
<1>3. ASSUME NEW i \in DOMAIN l, Comparable(l[i].key)
      PROVE  l[i].key \in KeysIn(l) /\ Find(l, l[i].key) = l[i].value
  <2> DEFINE k == l[i].key
             places == Found(KeysOf(l), k)
  <2>1. k \in KeysIn(l)
    BY <1>3 DEF KeysIn
  <2>2. places \in CanBeFound(KeysOf(l), k)
    <3> DEFINE open == {n \in DOMAIN KeysOf(l) : MayBeEqual(KeysOf(l)[n], k)}
    <3>1. {} \in SUBSET open /\ places = places \cup {}
      OBVIOUS
    <3>2. CanBeFound(KeysOf(l), k) = {places \cup more : more \in SUBSET open}
      BY DEF CanBeFound
    <3> HIDE DEF open, places
    <3> QED
      BY <3>1, <3>2
  <2>3. k \in Data
    BY <1>1 DEF Entry
  <2>4. Find(l, k) = l[First(places)].value
    BY DEF Find
  <2>5. i = First(places)
    <3> HIDE DEF places
    <3> QED
      BY <1>3, <2>2, <2>3, KeysFound
  <2> HIDE DEF places
  <2> QED
    BY <2>1, <2>4, <2>5
<1>4. \A k \in KeysIn(l) : Find(l, k) \in Data
  BY <1>1, <1>3 DEF KeysIn, Entry
<1>5. \A e \in Entries(l) : MapOf(l)[e.key] = e.value
  BY <1>3 DEF Entries, MapOf
<1> QED
  BY <1>2, <1>4, <1>5 DEF MapOf

LEMMA MapOfEmpty == MapOf(<<>>) = <<>>
<1>1. DOMAIN <<>> = {} /\ KeysIn(<<>>) = {}
  BY DEF KeysIn
<1> QED
  BY <1>1 DEF MapOf

(* Lists that differ in keys that cannot be compared show one map.         *)
LEMMA MapOfSame ==
  ASSUME NEW l, NEW new, Good(l), Good(new), Entries(new) = Entries(l)
  PROVE  MapOf(new) = MapOf(l)
<1>1. KeysIn(new) = KeysIn(l)
  BY MapOfEntries
<1>2. \A k \in KeysIn(l) : MapOf(new)[k] = MapOf(l)[k]
  <2> SUFFICES ASSUME NEW k \in KeysIn(l)
               PROVE  MapOf(new)[k] = MapOf(l)[k]
    OBVIOUS
  <2>1. PICK e \in Entries(l) : e.key = k
    BY MapOfEntries
  <2> QED
    BY <2>1, MapOfEntries
<1>3. MapOf(new) \in [KeysIn(l) -> Data] /\ MapOf(l) \in [KeysIn(l) -> Data]
  BY <1>1, MapOfEntries
<1> QED
  BY <1>2, <1>3

With(map, k, v) == [other \in DOMAIN map \cup {k} |-> IF other = k THEN v ELSE map[other]]

LEMMA MapOfAppended ==
  ASSUME NEW l, NEW new, Good(l), Good(new), NEW k \in Data, NEW v \in Data,
         Entries(new) = {e \in Entries(l) : e.key # k} \cup {[key |-> k, value |-> v]}
  PROVE  MapOf(new) = With(MapOf(l), k, v)
<1>1. KeysIn(new) = KeysIn(l) \cup {k}
  <2>1. /\ KeysIn(new) = {e.key : e \in Entries(new)}
        /\ KeysIn(l) = {e.key : e \in Entries(l)}
    BY MapOfEntries
  <2> DEFINE e0 == [key |-> k, value |-> v]
  <2>2. e0.key = k
    OBVIOUS
  <2>3. Entries(new) = {e \in Entries(l) : e.key # k} \cup {e0}
    OBVIOUS
  <2> HIDE DEF e0
  <2> QED
    BY <2>1, <2>2, <2>3
<1>2. \A other \in KeysIn(new) : MapOf(new)[other] = IF other = k THEN v ELSE MapOf(l)[other]
  <2> SUFFICES ASSUME NEW other \in KeysIn(new)
               PROVE  MapOf(new)[other] = IF other = k THEN v ELSE MapOf(l)[other]
    OBVIOUS
  <2>1. PICK e \in Entries(new) : e.key = other /\ MapOf(new)[other] = e.value
    BY MapOfEntries
  <2>2. \/ e \in Entries(l) /\ e.key # k
        \/ e.key = k /\ e.value = v
    OBVIOUS
  <2> QED
    BY <2>1, <2>2, MapOfEntries
<1>3. MapOf(new) \in [KeysIn(new) -> Data]
  BY MapOfEntries
<1>4. MapOf(new) = [other \in KeysIn(l) \cup {k} |-> IF other = k THEN v ELSE MapOf(l)[other]]
  BY <1>1, <1>2, <1>3
<1>5. DOMAIN MapOf(l) = KeysIn(l)
  BY DEF MapOf
<1> QED
  BY <1>4, <1>5 DEF With

LEMMA MapOfRemoved ==
  ASSUME NEW l, NEW new, Good(l), Good(new), NEW k,
         Entries(new) = {e \in Entries(l) : e.key # k}
  PROVE  MapOf(new) = [other \in KeysIn(l) \ {k} |-> MapOf(l)[other]]
<1>1. KeysIn(new) = KeysIn(l) \ {k}
  BY MapOfEntries
<1>2. \A other \in KeysIn(new) : MapOf(new)[other] = MapOf(l)[other]
  <2> SUFFICES ASSUME NEW other \in KeysIn(new)
               PROVE  MapOf(new)[other] = MapOf(l)[other]
    OBVIOUS
  <2>1. PICK e \in Entries(new) : e.key = other /\ MapOf(new)[other] = e.value
    BY MapOfEntries
  <2> QED
    BY <2>1, MapOfEntries
<1>3. MapOf(new) \in [KeysIn(new) -> Data]
  BY MapOfEntries
<1> QED
  BY <1>1, <1>2, <1>3

(* The maps that the dicts are.                                            *)
Dict == [h \in Handles |-> IF kind = "dict" /\ Alive(h) THEN MapOf(Content(h)) ELSE None]

LEMMA DictsSeen ==
  ASSUME EdbusInv, kind = "dict", NEW h \in Handles
  PROVE  /\ Alive(h) => Seen[h] # None /\ Good(Seen[h]) /\ Dict[h] = MapOf(Seen[h]) /\ Dict[h] # None
         /\ Alive(h) => Seen[h] = Content(h)
         /\ ~Alive(h) => Seen[h] = None /\ Dict[h] = None
<1>1. HeapInv /\ DictInv
  BY DEF EdbusInv
<1>2. ASSUME Alive(h)
      PROVE  Seen[h] = Content(h) /\ Good(Seen[h]) /\ Seen[h] # None
  BY <1>1, <1>2, AliveCounted, SeenAlive, HeapAssumption DEF DictInv, Content
<1>3. ASSUME Alive(h)
      PROVE  MapOf(Seen[h]) # None
  <2>1. PICK K \in SUBSET Data : MapOf(Seen[h]) \in [K -> Data]
    BY <1>2, <1>3, MapOfEntries
  <2> QED
    BY <2>1, ProgramAssumption
<1> QED
  BY <1>1, <1>2, <1>3, SeenAlive DEF Dict

(* An object that changes alone changes its map alone.                     *)
LEMMA DictFollows ==
  ASSUME EdbusInv, EdbusInv', kind = "dict", kind' = "dict", NEW h \in Handles, NEW new,
         Seen' = [Seen EXCEPT ![h] = new], new = None \/ Good(new)
  PROVE  Dict' = [Dict EXCEPT ![h] = IF new = None THEN None ELSE MapOf(new)]
<1>1. \A g \in Handles : Seen'[g] = IF g = h THEN new ELSE Seen[g]
  BY DEF Seen
<1>2. \A g \in Handles : Dict[g] = IF Seen[g] = None THEN None ELSE MapOf(Seen[g])
  BY DictsSeen
<1>3. ASSUME NEW g \in Handles
      PROVE  Dict'[g] = IF Seen'[g] = None THEN None ELSE MapOf(Seen'[g])
  <2>1. HeapInv' /\ DictInv'
    BY DEF EdbusInv
  <2>2. CASE Alive(g)'
    <3>1. Seen'[g] = Content(g)' /\ Seen'[g] # None
      BY <2>1, <2>2, AliveCountedNext, HeapAssumption DEF Seen, Alive, Content
    <3> QED
      BY <2>2, <3>1 DEF Dict
  <2>3. CASE ~Alive(g)'
    BY <2>3 DEF Seen, Dict
  <2> QED
    BY <2>2, <2>3
<1>4. DOMAIN Dict = Handles /\ DOMAIN Dict' = Handles
  BY DEF Dict
<1>5. \A g \in Handles : Dict'[g] = [Dict EXCEPT ![h] = IF new = None THEN None ELSE MapOf(new)][g]
  BY <1>1, <1>2, <1>3, <1>4
<1>6. Dict' = [g \in Handles |-> Dict'[g]]
  BY DEF Dict
<1>7. Dict = [g \in Handles |-> Dict[g]]
  BY DEF Dict
<1> QED
  BY <1>5, <1>6, <1>7

(* The maps' operations, of these maps.                                    *)
LEMMA MapsOperations ==
  ASSUME NEW h
  PROVE  /\ Maps!Create(h) <=> Dict[h] = None /\ Dict' = [Dict EXCEPT ![h] = <<>>]
         /\ Maps!Destroy(h) <=> Dict[h] # None /\ Dict' = [Dict EXCEPT ![h] = None]
         /\ Maps!Clear(h) <=> Dict[h] # None /\ Dict' = [Dict EXCEPT ![h] = <<>>]
         /\ \A g : Maps!Copy(h, g) <=>
              /\ Dict[h] = None /\ Dict[g] # None
              /\ Dict' = [Dict EXCEPT ![h] = Dict[g]]
         /\ \A g : Maps!Assign(h, g) <=>
              /\ Dict[h] # None /\ Dict[g] # None
              /\ Dict' = [Dict EXCEPT ![h] = Dict[g]]
         /\ \A k : Maps!Remove(h, k) <=>
              /\ Dict[h] # None
              /\ Dict' = [Dict EXCEPT ![h] = [other \in DOMAIN @ \ {k} |-> @[other]]]
         /\ \A k, v : Maps!Put(h, k, v) <=>
              /\ Dict[h] # None
              /\ TypeOf[k] \in Basic
              /\ \A other \in DOMAIN Dict[h] :
                   TypeOf[other] = TypeOf[k] /\ TypeOf[Dict[h][other]] = TypeOf[v]
              /\ Dict' = [Dict EXCEPT ![h] = With(@, k, v)]
         /\ Maps!Unchanged <=> Dict' = Dict
BY DEF With, Dict, Maps!Unchanged, Maps!Alive, Maps!Create, Maps!Destroy, Maps!Clear, Maps!Copy, Maps!Assign,
       Maps!Remove, Maps!Put, Maps!Fits

LEMMA EdbusInvInit == EdbusInit => EdbusInv /\ HeapInit
<1> SUFFICES ASSUME EdbusInit
             PROVE  EdbusInv /\ HeapInit
  OBVIOUS
<1>1. HeapInit /\ Init /\ kind \in {"dict", "list"} /\ array_mode = [h \in Handles |-> FALSE]
  BY DEF EdbusInit, List!Init, List!HeapInit, HeapInit, Init
<1>2. ListInv
  BY <1>1 DEF ListInv, HeapInit, Alive
<1> QED
  BY <1>1, <1>2, HeapInvInit, DictInvInit DEF EdbusInv

LEMMA EdbusInvStep == EdbusInv /\ [EdbusNext]_edbusVars => EdbusInv' /\ [HeapNext]_heap /\ kind' = kind
<1> SUFFICES ASSUME EdbusInv, [EdbusNext]_edbusVars
             PROVE  EdbusInv' /\ [HeapNext]_heap /\ kind' = kind
  OBVIOUS
<1>1. CASE DictNext
  <2>1. DictInv /\ kind = "dict" /\ Next /\ UNCHANGED <<kind, array_mode>>
    BY <1>1 DEF DictNext, EdbusInv
  <2>2. DictInv' /\ [HeapNext]_heap
    BY <2>1, DictInvStep
  <2> QED
    BY <2>1, <2>2 DEF EdbusInv, DictInv
<1>2. CASE ListNext
  <2>1. kind = "list" /\ List!Next /\ kind' = kind /\ HeapInv
    BY <1>2 DEF ListNext, EdbusInv
  <2>2. [HeapNext]_heap /\ array_mode' \in [Handles -> BOOLEAN] /\ ListInv'
    BY <2>1, ListSteps, ListInvKept
  <2>3. HeapInv'
    BY <2>1, <2>2, HeapInvStep
  <2> QED
    BY <2>1, <2>2, <2>3 DEF EdbusInv
<1>3. CASE UNCHANGED edbusVars
  <2>1. UNCHANGED heap /\ kind' = kind /\ array_mode' = array_mode
    BY <1>3 DEF edbusVars
  <2>2. HeapInv' /\ (DictInv => DictInv')
    BY <2>1, HeapInvStep DEF EdbusInv, DictInv, heap
  <2>3. ListInv => ListInv'
    BY <2>1 DEF ListInv, heap, Alive, Seen, Content
  <2> QED
    BY <2>1, <2>2, <2>3 DEF EdbusInv
<1> QED
  BY <1>1, <1>2, <1>3 DEF EdbusNext

LEMMA DictOperations ==
  ASSUME EdbusInv, EdbusInv', kind = "dict", kind' = "dict", NEW h \in Handles
  PROVE  InheritedIsOfMaps(h) /\ EntriesAreOfMaps(h)
<1>0. HeapInv /\ HeapInv' /\ None \notin Seq(Items)
  BY HeapAssumption DEF EdbusInv
<1>1. Good(<<>>) /\ <<>> # None /\ MapOf(<<>>) = <<>>
  BY <1>0, EmptyGood, GoodIsContent, MapOfEmpty
<1>2. Create(h) => Maps!Create(h)
  BY <1>0, <1>1, SeenCreate, SeenAlive, DictFollows, DictsSeen, MapsOperations DEF Values!Create
<1>3. Destroy(h) => Maps!Destroy(h)
  BY <1>0, SeenDestroy, SeenAlive, DictFollows, DictsSeen, MapsOperations DEF Values!Destroy
<1>4. ASSUME NEW g \in Handles, Copy(h, g)
      PROVE  Maps!Copy(h, g)
  <2>1. ~Alive(h) /\ Alive(g) /\ Seen' = [Seen EXCEPT ![h] = Seen[g]]
    BY <1>0, <1>4, SeenCopy DEF Values!Copy, Copy
  <2>2. /\ Seen[g] # None /\ Good(Seen[g]) /\ Dict[g] = MapOf(Seen[g]) /\ Dict[g] # None
        /\ Alive(h) <=> Dict[h] # None
    BY <2>1, DictsSeen
  <2>3. Dict' = [Dict EXCEPT ![h] = MapOf(Seen[g])]
    BY <2>1, <2>2, DictFollows
  <2> QED
    BY <2>1, <2>2, <2>3, MapsOperations
<1>5. ASSUME NEW g \in Handles, Assign(h, g)
      PROVE  Maps!Assign(h, g)
  <2>1. Alive(h) /\ Alive(g) /\ Seen' = [Seen EXCEPT ![h] = Seen[g]]
    BY <1>0, <1>5, SeenAssign DEF Values!Assign, Assign
  <2>2. /\ Seen[g] # None /\ Good(Seen[g]) /\ Dict[g] = MapOf(Seen[g]) /\ Dict[g] # None
        /\ Alive(h) <=> Dict[h] # None
    BY <2>1, DictsSeen
  <2>3. Dict' = [Dict EXCEPT ![h] = MapOf(Seen[g])]
    BY <2>1, <2>2, DictFollows
  <2> QED
    BY <2>1, <2>2, <2>3, MapsOperations
<1>6. ASSUME NEW new, Good(new), Write(h, new)
      PROVE  Dict' = [Dict EXCEPT ![h] = MapOf(new)]
  <2>1. new \in Seq(Items) /\ new # None
    BY <1>0, <1>6, GoodIsContent
  <2> QED
    BY <1>0, <1>6, <2>1, SeenWrite, DictFollows
<1>7. Clear(h) => Maps!Clear(h)
  BY <1>1, <1>6, DictsSeen, MapsOperations DEF Clear
(* A list in which no comparable key is touched shows what it showed.      *)
<1>10. ASSUME Alive(h), NEW new, Good(new), Write(h, new), Entries(new) = Entries(Content(h))
       PROVE  Maps!Unchanged
  <2>1. Good(Content(h)) /\ Dict[h] = MapOf(Content(h))
    BY <1>10, DictsSeen
  <2>2. MapOf(new) = Dict[h]
    BY <1>10, <2>1, MapOfSame
  <2>3. Dict' = [Dict EXCEPT ![h] = Dict[h]]
    BY <1>6, <1>10, <2>2
  <2>4. Dict = [g \in Handles |-> Dict[g]]
    BY DEF Dict
  <2>5. Dict' = Dict
    BY <2>3, <2>4
  <2> QED
    BY <2>5, MapsOperations
<1>8. ASSUME NEW k \in Data, Remove(h, k)
      PROVE  IF Comparable(k) THEN Maps!Remove(h, k) ELSE Maps!Unchanged
  <2> DEFINE l == Content(h)
  <2>1. PICK places \in CanBeFound(KeysOf(l), k) : Write(h, Removed(l, places))
    BY <1>8 DEF Remove
  <2>2. Alive(h) /\ Good(l) /\ Dict[h] = MapOf(l) /\ Dict[h] # None
    BY <1>8, DictsSeen DEF Remove
  <2> DEFINE new == Removed(l, places)
  <2>3. Good(new) /\ Entries(new) = {e \in Entries(l) : e.key # k}
    BY <2>1, <2>2, RemovedGood
  <2> HIDE DEF new, l
  <2>4. Write(h, new) /\ Dict' = [Dict EXCEPT ![h] = MapOf(new)]
    BY <1>6, <2>1, <2>3 DEF new
  <2>5. CASE Comparable(k)
    <3>1. MapOf(new) = [other \in KeysIn(l) \ {k} |-> MapOf(l)[other]]
      BY <2>2, <2>3, MapOfRemoved
    <3>2. DOMAIN Dict[h] = KeysIn(l)
      BY <2>2 DEF MapOf
    <3>3. MapOf(new) = [other \in DOMAIN Dict[h] \ {k} |-> Dict[h][other]]
      BY <2>2, <3>1, <3>2
    <3>4. Maps!Remove(h, k)
      BY <2>2, <2>4, <3>3, MapsOperations
    <3> QED
      BY <2>5, <3>4
  <2>6. CASE ~Comparable(k)
    <3>1. Entries(new) = Entries(l)
      BY <2>3, <2>6 DEF Entries
    <3>2. Maps!Unchanged
      BY <1>10, <2>2, <2>3, <2>4, <3>1 DEF l
    <3> QED
      BY <2>6, <3>2
  <2> QED
    BY <2>5, <2>6
<1>9. ASSUME NEW k \in Data, NEW v \in Data, AppendEntry(h, k, v)
      PROVE  IF Comparable(k) THEN Maps!Put(h, k, v) ELSE Maps!Unchanged
  <2> DEFINE l == Content(h)
  <2>1. PICK places \in CanBeFound(KeysOf(l), k) : Write(h, Appended(l, places, k, v))
    BY <1>9 DEF AppendEntry
  <2>2. Alive(h) /\ Accepts(l, k, v) /\ Good(l) /\ Dict[h] = MapOf(l) /\ Dict[h] # None
    BY <1>9, DictsSeen DEF AppendEntry
  <2> DEFINE new == Appended(l, places, k, v)
  <2>3. /\ Good(new)
        /\ Comparable(k) =>
             Entries(new) = {e \in Entries(l) : e.key # k} \cup {[key |-> k, value |-> v]}
        /\ ~Comparable(k) => Entries(new) = Entries(l)
        /\ \A i \in DOMAIN l : TypeOf[l[i].key] = TypeOf[k] /\ TypeOf[l[i].value] = TypeOf[v]
    BY <2>1, <2>2, AppendedGood
  <2> HIDE DEF new, l
  <2>4. Write(h, new) /\ Dict' = [Dict EXCEPT ![h] = MapOf(new)]
    BY <1>6, <2>1, <2>3 DEF new
  <2>5. CASE Comparable(k)
    <3>1. MapOf(new) = With(Dict[h], k, v)
      BY <2>2, <2>3, <2>5, MapOfAppended
    <3>2. DOMAIN Dict[h] = KeysIn(l)
      BY <2>2 DEF MapOf
    <3>3. \A e \in Entries(l) : TypeOf[e.key] = TypeOf[k] /\ TypeOf[e.value] = TypeOf[v]
      BY <2>3 DEF Entries
    <3>4. \A other \in DOMAIN Dict[h] :
            TypeOf[other] = TypeOf[k] /\ TypeOf[Dict[h][other]] = TypeOf[v]
      BY <2>2, <3>2, <3>3, MapOfEntries
    <3>5. TypeOf[k] \in Basic
      BY <2>2 DEF Accepts
    <3> QED
      BY <2>2, <2>4, <2>5, <3>1, <3>4, <3>5, MapsOperations
  <2>6. CASE ~Comparable(k)
    <3>1. Maps!Unchanged
      BY <1>10, <2>2, <2>3, <2>4, <2>6 DEF l
    <3> QED
      BY <2>6, <3>1
  <2> QED
    BY <2>5, <2>6
<1> QED
  BY <1>2, <1>3, <1>4, <1>5, <1>7, <1>8, <1>9 DEF InheritedIsOfMaps, EntriesAreOfMaps

LEMMA EdbusInvImplies == EdbusInv => TypeOK /\ DictsStayWellFormed /\ ArraysStayOneType
<1> SUFFICES ASSUME EdbusInv
             PROVE  TypeOK /\ DictsStayWellFormed /\ ArraysStayOneType
  OBVIOUS
<1>1. ASSUME NEW h \in Handles, Alive(h)
      PROVE  impl[h] \in Cells /\ lst[impl[h]] # Freed /\ Content(h) = Seen[h]
  BY <1>1, AliveCounted, SeenAlive, HeapAssumption DEF EdbusInv, Content
<1>2. \A h \in Handles : Alive(h) => Content(h) \in Seq(IF kind = "dict" THEN Entry ELSE Data)
  BY <1>1 DEF EdbusInv, DictInv, ListInv, Good, Content
<1>3. TypeOK
  BY <1>2 DEF TypeOK, EdbusInv, HeapInv
<1>4. DictsStayWellFormed
  BY DictInvImplies DEF DictsStayWellFormed, EdbusInv
<1>5. ArraysStayOneType
  BY <1>1 DEF ArraysStayOneType, List!ArraysAreOneType, List!Alive, Alive, List!Content, Content,
              EdbusInv, ListInv, OneType
<1> QED
  BY <1>3, <1>4, <1>5

LEMMA EdbusAlways == EdbusSpec => []EdbusInv
BY EdbusInvInit, EdbusInvStep, PTL DEF EdbusSpec

(* Every variable keeps its type, and dicts hold entries and lists data,   *)
(* of a program that does what it likes with either (EdbusDict.cpp,        *)
(* EdbusList.cpp).                                                         *)
THEOREM ProgramsTypeCorrect == EdbusSpec => []TypeOK
BY EdbusAlways, EdbusInvImplies, PTL

(* The same program's dicts stay well-formed: types are one, and what can  *)
(* be compared, which NaNs and object paths cannot, is unique (EdbusDict.  *)
(* cpp:24-86).                                                             *)
THEOREM ProgramsDictsAreWellFormed == EdbusSpec => []DictsStayWellFormed
BY EdbusAlways, EdbusInvImplies, PTL

(* Its arrays stay of one type, whoever shares their cells and however     *)
(* arrays and structs are assigned to each other (EdbusList.cpp:27-39).    *)
THEOREM ArraysAlwaysOneType == EdbusSpec => []ArraysStayOneType
BY EdbusAlways, EdbusInvImplies, PTL

(* The writers of dicts and of lists unhook: both are containers, so that  *)
(* what is proved of containers holds of them, the counts and that sharing *)
(* is invisible.                                                           *)
THEOREM ProgramsAreContainers == EdbusSpec => HeapSpec
BY EdbusInvInit, EdbusInvStep, EdbusAlways, PTL DEF EdbusSpec, HeapSpec

(* The references are counted exactly (EdbusContainer.h:88-157).           *)
THEOREM ProgramsCountExactly == EdbusSpec => []CountsExact
BY ProgramsAreContainers, CountsAreExact, PTL

(* Sharing is invisible (EdbusContainer.h:88-114).                         *)
THEOREM ProgramsShareInvisibly == EdbusSpec => SharingInvisible
BY ProgramsAreContainers, SharingIsInvisible, PTL

(* Dicts are maps of the keys that can be compared: each operation on such *)
(* a key does to the map that a dict shows what the header promises, one   *)
(* on a NaN or an object path does nothing to it, and none does anything   *)
(* to another object's (EdbusDict.cpp:24-97, EdbusData.cpp:293-357).       *)
THEOREM DictsAlwaysMaps == EdbusSpec => DictsAreMaps
<1>1. EdbusInit => Maps!Init
  BY EdbusInvInit DEF HeapInit, Maps!Init, Alive
<1>2. EdbusInv /\ EdbusInv' /\ [EdbusNext]_edbusVars =>
        [kind = "dict" => \A h \in Handles : InheritedIsOfMaps(h) /\ EntriesAreOfMaps(h)]_edbusVars
  BY EdbusInvStep, DictOperations
<1> QED
  BY <1>1, <1>2, EdbusAlways, PTL DEF EdbusSpec, DictsAreMaps
=============================================================================
