---------------------------- MODULE EdbusContainer ----------------------------
(***************************************************************************)
(* The implicit sharing of EdbusContainer.h.  A container object (handle)  *)
(* points to a cell, an EdbusContainerImpl with a reference count and a    *)
(* list; copies point to the same cell until one of them is written to.    *)
(***************************************************************************)
EXTENDS Naturals, Sequences, FiniteSets

CONSTANTS
  Handles,  \* the container objects of a program
  Cells,    \* the heap
  Items,    \* what a container holds: EdbusDictEntry or EdbusData
  Data,     \* values of EdbusData
  TypeOf,   \* their EdbusDataType
  NaNs,     \* the doubles among them that are not equal to themselves
  MaxLen,   \* bound on the length of a list
  None,     \* of an object that is not constructed
  Freed     \* the content of a cell that is not allocated

ASSUME HeapAssumption ==
  /\ IsFiniteSet(Handles)
  /\ None \notin Cells /\ None \notin Seq(Items) /\ Freed \notin Seq(Items)

VARIABLES
  impl,  \* the cell a handle points to
  ref,   \* the reference count of a cell
  lst    \* the list in a cell

heap == <<impl, ref, lst>>

Alive(h)   == impl[h] # None
Content(h) == lst[impl[h]]
Free       == {c \in Cells : lst[c] = Freed}

HeapInit ==
  /\ impl = [h \in Handles |-> None]
  /\ ref = [c \in Cells |-> 0]
  /\ lst = [c \in Cells |-> Freed]

(* dispose(), after a reference has been dropped.                          *)
Disposed(c, count) == IF count[c] = 0 THEN [lst EXCEPT ![c] = Freed] ELSE lst

Create(h) ==
  /\ ~Alive(h)
  /\ \E c \in Free :
       /\ impl' = [impl EXCEPT ![h] = c]
       /\ ref' = [ref EXCEPT ![c] = 1]
       /\ lst' = [lst EXCEPT ![c] = <<>>]

Copy(h, other) ==
  /\ ~Alive(h) /\ Alive(other)
  /\ impl' = [impl EXCEPT ![h] = impl[other]]
  /\ ref' = [ref EXCEPT ![impl[other]] = @ + 1]
  /\ UNCHANGED lst

(* Mutant: the destroyed object can still be used.                         *)
DestroyDangling(h) ==
  /\ Alive(h)
  /\ ref' = [ref EXCEPT ![impl[h]] = @ - 1]
  /\ lst' = Disposed(impl[h], ref')
  /\ UNCHANGED impl

Destroy(h) ==
  /\ Alive(h)
  /\ impl' = [impl EXCEPT ![h] = None]
  /\ ref' = [ref EXCEPT ![impl[h]] = @ - 1]
  /\ lst' = Disposed(impl[h], ref')

(* Mutant: the own count is lowered before the other's is raised.          *)
AssignLowersFirst(h, other) ==
  /\ Alive(h) /\ Alive(other)
  /\ LET less == [ref EXCEPT ![impl[h]] = @ - 1]
     IN  /\ lst' = Disposed(impl[h], less)
         /\ ref' = [less EXCEPT ![impl[other]] = @ + 1]
  /\ impl' = [impl EXCEPT ![h] = impl[other]]

(* The other's count is raised before the own one is lowered: the two may  *)
(* be the same cell, or the same object.                                   *)
Assign(h, other) ==
  /\ Alive(h) /\ Alive(other)
  /\ LET more == [ref EXCEPT ![impl[other]] = @ + 1]
     IN  ref' = [more EXCEPT ![impl[h]] = @ - 1]
  /\ lst' = Disposed(impl[h], ref')
  /\ impl' = [impl EXCEPT ![h] = impl[other]]

(* Mutant: a writer that does not unhook.                                  *)
WriteShared(h, new) ==
  /\ lst' = [lst EXCEPT ![impl[h]] = new]
  /\ UNCHANGED <<impl, ref>>

(* unhook(), then the list of the handle becomes new.                      *)
WriteOwn(h, new) ==
  /\ ref[impl[h]] = 1
  /\ lst' = [lst EXCEPT ![impl[h]] = new]
  /\ UNCHANGED <<impl, ref>>

WriteCopy(h, new) ==
  /\ ref[impl[h]] # 1
  /\ \E c \in Free :
       /\ ref' = [ref EXCEPT ![impl[h]] = @ - 1, ![c] = 1]
       /\ impl' = [impl EXCEPT ![h] = c]
       /\ lst' = [lst EXCEPT ![c] = new]

Write(h, new) == Alive(h) /\ (WriteOwn(h, new) \/ WriteCopy(h, new))

(* EdbusData::operator==, of two objects.  Of object paths it takes the     *)
(* characters for an EdbusObjectPath, which is undefined; and what an      *)
(* array, a struct or a variant holds is not modelled: the answer is open. *)
(* A dict is compared with itself.                                         *)
Open == {"object_path", "array", "struct", "variant"}

IsEqual(x, y) ==
  /\ TypeOf[x] = TypeOf[y] /\ TypeOf[x] \notin Open
  /\ TypeOf[x] = "dict" \/ (x = y /\ x \notin NaNs)

MayBeEqual(x, y) == TypeOf[x] = TypeOf[y] /\ TypeOf[x] \in Open

(* The places of a sequence at which x is found.                           *)
Found(s, x) == {i \in DOMAIN s : IsEqual(s[i], x)}

CanBeFound(s, x) ==
  {Found(s, x) \cup more : more \in SUBSET {i \in DOMAIN s : MayBeEqual(s[i], x)}}

First(places) == CHOOSE i \in places : \A j \in places : i <= j

Without(l, i) == SubSeq(l, 1, i - 1) \o SubSeq(l, i + 1, Len(l))

(* remove(): the first that is found.                                      *)
Removed(l, places) == IF places = {} THEN l ELSE Without(l, First(places))

(* The operations that every container inherits.                           *)
Inherited ==
  \E h \in Handles :
    \/ Create(h) \/ Destroy(h)
    \/ \E other \in Handles : Copy(h, other) \/ Assign(h, other)

(* A container of which no more is known than that it unhooks and writes.  *)
HeapNext == Inherited \/ \E h \in Handles : \E new \in Seq(Items) : Write(h, new)

HeapSpec == HeapInit /\ [][HeapNext]_heap
-------------------------------------------------------------------------------
HeapTypeOK ==
  /\ impl \in [Handles -> Cells \cup {None}]
  /\ ref \in [Cells -> Nat]
  /\ lst \in [Cells -> Seq(Items) \cup {Freed}]

Holders(at, c) == {h \in Handles : at[h] = c}

(* A count is the number of the objects that point to the cell, and a cell *)
(* is allocated exactly while there is one: nothing is freed twice, used   *)
(* after it was freed (the destructor and operator=, EdbusContainer.h:     *)
(* 136-157) or forgotten (unhook(), 88-114).                               *)
CountsExact ==
  /\ \A c \in Cells : ref[c] = Cardinality(Holders(impl, c))
  /\ \A c \in Cells : lst[c] = Freed <=> Holders(impl, c) = {}

(* What a program sees of its objects.                                     *)
Seen == [h \in Handles |-> IF Alive(h) THEN Content(h) ELSE None]

Values == INSTANCE EdbusValues WITH value <- Seen

(* Sharing is invisible: the objects behave as if each had a content of    *)
(* its own.  A write into a cell that another object points to would show  *)
(* in that object, too (unhook(), EdbusContainer.h:88-114).                *)
SharingInvisible == Values!Spec
===============================================================================
