------------------------------ MODULE LinkedList -------------------------------
(***************************************************************************)
(* edelib::list of List.h: nodes on the heap that form a ring through a    *)
(* dummy node, and an iterator of the program.                             *)
(***************************************************************************)
EXTENDS Integers, Sequences, FiniteSets, SequencesExt

CONSTANTS
  Keys,      \* values of the elements; the cmp function is <
  MaxNodes   \* bound: nodes, with the dummy

ASSUME LinkedAssumption == Keys \subseteq Nat \ {0} /\ MaxNodes \in Nat

VARIABLES
  heap,      \* the memory of nodes
  tail, sz,  \* of the list
  it,        \* an iterator: the node it points to
  contents,  \* history: the elements, as a sequence
  at         \* history: which of them it points to, Len + 1 for end(), 0 when
             \* it is "invalid" in the words of List.h:98-116

linkedVars == <<heap, tail, sz, it, contents, at>>

Cells  == 1..MaxNodes
NULL   == 0
Local  == -1  \* the node "head" in merge_nodes()
Freed  == [value |-> -1, next |-> NULL, prev |-> NULL]
Dummy  == [value |-> 0, next |-> NULL, prev |-> NULL]

ListNode == [value : Int, next : Cells \cup {NULL}, prev : Cells \cup {NULL, Local}]
Heaps == [{Local} \cup Cells -> ListNode]

new == CHOOSE n \in Cells : heap[n] = Freed /\ \A m \in Cells : heap[m] = Freed => n <= m

Room(n) == Cardinality({m \in Cells : heap[m] = Freed}) >= n

LinkedInit ==
  /\ heap = [n \in {Local} \cup Cells |-> IF n = Local THEN Dummy ELSE Freed]
  /\ tail = NULL /\ sz = 0 /\ it = NULL /\ contents = <<>> /\ at = 0

(* The nodes from p on, by "next" or by "prev"; NULL after the last.       *)
Walk(h, p, link) ==
  LET w[k \in 0..MaxNodes + 1] ==
        IF k = 0 THEN p ELSE IF w[k - 1] = NULL THEN NULL ELSE h[w[k - 1]][link]
  IN  w

(* A sequence's elements by their value: what sort() is to make of it.     *)
Ascending(s) ==
  CHOOSE t \in {[k \in DOMAIN s |-> s[p[k]]] : p \in Bijection(DOMAIN s, DOMAIN s)} :
    \A j, k \in DOMAIN s : j < k => t[j] <= t[k]

begin == IF tail = NULL THEN NULL ELSE heap[tail].next
end   == tail
-------------------------------------------------------------------------------
(* Iterators                                                               *)
Begin == it' = begin /\ at' = 1 /\ UNCHANGED <<heap, tail, sz, contents>>

End == it' = end /\ at' = Len(contents) + 1 /\ UNCHANGED <<heap, tail, sz, contents>>

Increment ==
  /\ at \in 1..Len(contents)
  /\ it' = heap[it].next /\ at' = at + 1
  /\ UNCHANGED <<heap, tail, sz, contents>>

Decrement ==
  /\ at > 1
  /\ it' = heap[it].prev /\ at' = at - 1
  /\ UNCHANGED <<heap, tail, sz, contents>>

(* insert(), before a node; of an empty list that has none, anywhere.      *)
Insert(node, v) ==
  /\ Room(IF tail = NULL THEN 2 ELSE 1)
  /\ LET tmp == new
         dummy == CHOOSE n \in Cells \ {tmp} : heap[n] = Freed
         p == heap[node].prev
     IN
     IF tail = NULL
       THEN /\ tail' = dummy
            /\ heap' = [heap EXCEPT ![dummy] = [value |-> 0, next |-> tmp, prev |-> tmp],
                                    ![tmp] = [value |-> v, next |-> dummy, prev |-> dummy]]
       ELSE /\ heap' = [[heap EXCEPT ![tmp] = [value |-> v, next |-> node, prev |-> p]]
                         EXCEPT ![p].next = tmp, ![node].prev = tmp]
            /\ UNCHANGED tail
  /\ sz' = sz + 1

PushBack(v) ==
  /\ Insert(end, v)
  /\ contents' = Append(contents, v)
  /\ at' = IF tail = NULL THEN 0 ELSE IF at = Len(contents) + 1 THEN at + 1 ELSE at
  /\ UNCHANGED it

PushFront(v) ==
  /\ Insert(begin, v)
  /\ contents' = <<v>> \o contents
  /\ at' = IF tail = NULL \/ at = 0 THEN 0 ELSE at + 1
  /\ UNCHANGED it

InsertHere(v) ==
  /\ at # 0
  /\ Insert(it, v)
  /\ it' = new
  /\ contents' = InsertAt(contents, at, v)
  /\ UNCHANGED at

(* Mutant: the node before the erased one keeps its next.                  *)
EraseOneWay ==
  /\ at \in 1..Len(contents)
  /\ LET n == heap[it].next IN
       /\ heap' = [heap EXCEPT ![n].prev = heap[it].prev, ![it] = Freed]
       /\ it' = n
  /\ sz' = sz - 1
  /\ contents' = RemoveAt(contents, at)
  /\ UNCHANGED <<tail, at>>

(* erase(), which returns the next node                                    *)
Erase ==
  /\ at \in 1..Len(contents)
  /\ LET n == heap[it].next
         p == heap[it].prev
     IN  /\ heap' = [[heap EXCEPT ![p].next = n] EXCEPT ![n].prev = p, ![it] = Freed]
         /\ it' = n
  /\ sz' = sz - 1
  /\ contents' = RemoveAt(contents, at)
  /\ UNCHANGED <<tail, at>>

(* clear(): the nodes from the first up to the dummy, and the dummy.       *)
UpToTail ==
  LET w == Walk(heap, begin, "next")
  IN  {w[k] : k \in {k \in 0..MaxNodes : \A j \in 0..k - 1 : w[j] # tail}}

Clear ==
  /\ tail # NULL
  /\ heap' = [n \in DOMAIN heap |-> IF n \in UpToTail THEN Freed ELSE heap[n]]
  /\ tail' = NULL /\ sz' = 0
  /\ contents' = <<>> /\ at' = 0
  /\ UNCHANGED it
-------------------------------------------------------------------------------
(* merge_nodes(); c is the last node that was merged, Local at first.  A   *)
(* turn of the loop takes the smaller of the first nodes of two lists.     *)
MergeTurn(s) ==
  IF s.a = NULL \/ s.b = NULL THEN s
  ELSE LET n == IF s.h[s.a].value < s.h[s.b].value THEN s.a ELSE s.b
       IN  [h |-> [[s.h EXCEPT ![s.c].next = n]
                     EXCEPT ![n].prev = IF s.c = Local THEN NULL ELSE s.c],
            a |-> IF n = s.a THEN s.h[n].next ELSE s.a,
            b |-> IF n = s.a THEN s.b ELSE s.h[n].next,
            c |-> n]

Merging(h, a, b) ==
  LET after[k \in 0..MaxNodes] ==
        IF k = 0 THEN [h |-> h, a |-> a, b |-> b, c |-> Local] ELSE MergeTurn(after[k - 1])
  IN  after

merge_nodes(h, a, b) ==
  LET s    == Merging(h, a, b)[MaxNodes]
      rest == IF s.a = NULL THEN s.b ELSE s.a
  IN  [s.h EXCEPT ![s.c].next = rest, ![rest].prev = s.c]

(* The last node of the first half, walking half as fast as b.             *)
Middle(h, c) ==
  LET w == Walk(h, c, "next")
  IN  w[CHOOSE t \in 0..MaxNodes : /\ 2 * t + 2 <= MaxNodes + 1 /\ w[2 * t + 2] = NULL
                                   /\ \A u \in 0..t - 1 : w[2 * u + 2] # NULL]

(* mergesort() of the list that begins at c, by calls nested at most d     *)
(* deep; the sorted nodes begin at Local's next.                           *)
sorts[d \in 0..MaxNodes] ==
  [h \in Heaps |-> [c \in Cells |->
     IF d = 0 \/ h[c].next = NULL THEN [h EXCEPT ![Local].next = c]
     ELSE LET m     == Middle(h, c)
              left  == sorts[d - 1][[h EXCEPT ![m].next = NULL]][c]
              right == sorts[d - 1][left][h[m].next]
          IN  merge_nodes(right, left[Local].next, right[Local].next)]]

mergesort(h, c) == sorts[MaxNodes][h][c]

LastFrom(h, n) ==
  CHOOSE m \in Cells : h[m].next = NULL /\ \E k \in 0..MaxNodes : Walk(h, n, "next")[k] = m

(* sort(): the ring is opened before the last node's next and closed again.*)
Sort ==
  /\ sz > 1
  /\ LET h     == mergesort([heap EXCEPT ![heap[tail].prev].next = NULL], begin)
         first == h[Local].next
         last  == LastFrom(h, first)
     IN  heap' = [[h EXCEPT ![tail].next = first, ![first].prev = tail]
                   EXCEPT ![last].next = tail, ![tail].prev = last, ![Local] = Dummy]
  /\ contents' = Ascending(contents)
  /\ at' = 0
  /\ UNCHANGED <<tail, sz, it>>

LinkedNext ==
  \/ Begin \/ End \/ Increment \/ Decrement
  \/ \E v \in Keys : PushBack(v) \/ PushFront(v) \/ InsertHere(v)
  \/ Erase \/ Clear \/ Sort

LinkedSpec == LinkedInit /\ [][LinkedNext]_linkedVars
-------------------------------------------------------------------------------
(* Node number k from the dummy, going forward or back.                    *)
Forward  == Walk(heap, tail, "next")
Backward == Walk(heap, tail, "prev")

(* Whatever was inserted, erased, cleared and sorted before, the list is   *)
(* its elements in their order, forward and back and once around, and      *)
(* nothing else is allocated; an iterator stays with its element, and      *)
(* erase() returns the one after (List.h:242-260, 308-341, 429-455).       *)
IsASequence ==
  /\ sz = Len(contents)
  /\ tail = NULL =>
       contents = <<>> /\ \A n \in Cells : heap[n] = Freed
  /\ tail # NULL =>
       /\ \A k \in DOMAIN contents :
            /\ heap[Forward[k]].value = contents[k]
            /\ Backward[Len(contents) + 1 - k] = Forward[k]
       /\ Forward[Len(contents) + 1] = tail /\ Backward[Len(contents) + 1] = tail
       /\ {n \in Cells : heap[n] # Freed} = {Forward[k] : k \in 0..Len(contents)}
       /\ at # 0 => it = Forward[at]
===============================================================================
