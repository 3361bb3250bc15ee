---------------------------- MODULE SettingsProofs -----------------------------
(***************************************************************************)
(* Proofs about the two places that keep settings by name.  The linked     *)
(* list of XSettingsList, for any names and their order, any values and    *)
(* any properties other programs publish, stays sorted, and what is done   *)
(* to it is done to the map it stands for.  A configuration of Resource,   *)
(* for any lines in its file, has nothing twice, and is a map in memory    *)
(* and on the disk.                                                        *)
(***************************************************************************)
EXTENDS XSettingsList, Resource, DataTheorems

InOrder(l) == \A i, j \in 1..Len(l) : i < j => <<l[i].name, l[j].name>> \in Before

Nodes(l) == {l[i] : i \in 1..Len(l)}
-------------------------------------------------------------------------------
(* The list's walks.                                                       *)

LEMMA FoundAt ==
  ASSUME NEW l \in Seq(Node), NEW n
  PROVE  /\ ListFind(l, n) \in 0..Len(l)
         /\ ListFind(l, n) = 0 => \A i \in 1..Len(l) : l[i].name # n
         /\ ListFind(l, n) # 0 => l[ListFind(l, n)].name = n
<1> DEFINE I == {i \in 1..Len(l) : l[i].name = n}
<1>1. ListFind(l, n) = IF I # {} THEN Min(I) ELSE 0
  BY DEF ListFind, FirstNode, SelectInSeq
<1>2. I \in SUBSET Nat /\ Len(l) \in Nat
  OBVIOUS
<1>3. CASE I = {}
  BY <1>1, <1>2, <1>3
<1>4. CASE I # {}
  <2>1. Min(I) \in I
    BY <1>2, <1>4, MinOf
  <2> QED
    BY <1>1, <1>2, <1>4, <2>1
<1> QED
  BY <1>3, <1>4

(* Where xsettings_list_add() stops.                                       *)
AddPlace(l, n) == FirstNode(l, LAMBDA node : <<node.name, n>> \notin Before)

LEMMA StopsAt ==
  ASSUME NEW l \in Seq(Node), NEW n
  PROVE  LET i == AddPlace(l, n) IN
         /\ i \in 0..Len(l)
         /\ i = 0 => \A j \in 1..Len(l) : <<l[j].name, n>> \in Before
         /\ i # 0 => /\ <<l[i].name, n>> \notin Before
                     /\ \A j \in 1..Len(l) : j < i => <<l[j].name, n>> \in Before
<1> DEFINE At(j) == <<l[j].name, n>> \in Before
           I == {i \in 1..Len(l) : ~At(i)}
           i == AddPlace(l, n)
<1>1. i = IF I # {} THEN Min(I) ELSE 0
  BY DEF AddPlace, FirstNode, SelectInSeq
<1>2. I \in SUBSET Nat /\ Len(l) \in Nat
  OBVIOUS
<1> HIDE DEF At, i
<1>3. CASE I = {}
  <2>1. i = 0 /\ \A j \in 1..Len(l) : At(j)
    BY <1>1, <1>3
  <2> QED
    BY <1>2, <2>1 DEF At, i
<1>4. CASE I # {}
  <2>1. Min(I) \in I /\ \A j \in I : Min(I) <= j
    BY <1>2, <1>4, MinOf
  <2>2. i \in 1..Len(l) /\ ~At(i) /\ i # 0
    BY <1>1, <1>4, <2>1
  <2>3. ASSUME NEW j \in 1..Len(l), j < i
        PROVE  At(j)
    BY <1>1, <1>4, <2>1, <2>2, <2>3
  <2> QED
    BY <1>2, <2>2, <2>3 DEF At, i
<1> QED
  BY <1>3, <1>4

LEMMA Inserted ==
  ASSUME NEW S, NEW s \in Seq(S), NEW i \in 1..Len(s), NEW e \in S
  PROVE  /\ InsertAt(s, i, e) \in Seq(S)
         /\ Len(InsertAt(s, i, e)) = Len(s) + 1
         /\ \A j \in 1..(Len(s) + 1) :
              InsertAt(s, i, e)[j] = IF j < i THEN s[j] ELSE IF j = i THEN e ELSE s[j - 1]
<1> DEFINE a == SubSeq(s, 1, i - 1)
           b == SubSeq(s, i, Len(s))
           m == a \o <<e>>
           t == m \o b
<1>1. Len(s) \in Nat /\ i \in 1..Len(s) /\ i \in Nat
  OBVIOUS
<1>2. a \in Seq(S) /\ Len(a) = i - 1 /\ \A j \in 1..(i - 1) : a[j] = s[j]
  OBVIOUS
<1>3. /\ b \in Seq(S) /\ Len(b) = Len(s) - i + 1
      /\ \A j \in 1..(Len(s) - i + 1) : b[j] = s[i + j - 1]
  OBVIOUS
<1>4. <<e>> \in Seq(S) /\ Len(<<e>>) = 1 /\ <<e>>[1] = e
  OBVIOUS
<1>5. InsertAt(s, i, e) = t
  BY DEF InsertAt
<1> HIDE DEF a, b
<1>6. m \in Seq(S) /\ Len(m) = i /\ m[i] = e /\ \A j \in 1..(i - 1) : m[j] = s[j]
  <2>1. m \in Seq(S) /\ Len(m) = (i - 1) + 1
    BY <1>2, <1>4, Places
  <2>2. m[(i - 1) + 1] = e
    <3> DEFINE u == <<e>>
    <3>1. u \in Seq(S) /\ Len(u) = 1 /\ u[1] = e /\ 1 \in 1..Len(u) /\ m = a \o u
      BY <1>4
    <3> HIDE DEF u, m
    <3>2. (a \o u)[Len(a) + 1] = u[1]
      <4>1. a \in Seq(S) /\ u \in Seq(S) /\ 1 \in 1..Len(u)
        BY <1>2, <3>1
      <4> QED
        BY ONLY <4>1, Places
    <3> QED
      BY <1>2, <3>1, <3>2
  <2>3. \A j \in 1..(i - 1) : m[j] = s[j]
    BY <1>2, <1>4, Places
  <2>4. (i - 1) + 1 = i
    BY <1>1
  <2> QED
    BY <2>1, <2>2, <2>3, <2>4
<1> HIDE DEF m
<1>7. t \in Seq(S) /\ Len(t) = Len(s) + 1
  <2>1. t \in Seq(S) /\ Len(t) = Len(m) + Len(b)
    BY <1>3, <1>6, Places
  <2>2. Len(m) + Len(b) = Len(s) + 1
    BY <1>1, <1>3, <1>6
  <2> QED
    BY <2>1, <2>2
<1>8. ASSUME NEW j \in 1..(Len(s) + 1)
      PROVE  t[j] = IF j < i THEN s[j] ELSE IF j = i THEN e ELSE s[j - 1]
  <2>1. CASE j <= i
    <3>1. t[j] = m[j]
      BY <1>1, <1>3, <1>6, <2>1, Places
    <3> QED
      BY <1>1, <1>6, <2>1, <3>1
  <2>2. CASE j > i
    <3>1. j - i \in 1..(Len(s) - i + 1) /\ i + (j - i) = j
      BY <1>1, <2>2
    <3>2. t[j] = b[j - i]
      BY <1>1, <1>3, <1>6, <3>1, Places
    <3>3. b[j - i] = s[j - 1]
      BY <1>1, <1>3, <3>1
    <3> QED
      BY <1>1, <2>2, <3>2, <3>3
  <2>3. j <= i \/ j > i
    BY <1>1
  <2> QED
    BY <2>1, <2>2, <2>3
<1> HIDE DEF t
<1> QED
  BY <1>5, <1>7, <1>8

LEMMA Removed ==
  ASSUME NEW S, NEW s \in Seq(S), NEW i \in 1..Len(s)
  PROVE  /\ RemoveAt(s, i) \in Seq(S)
         /\ Len(RemoveAt(s, i)) = Len(s) - 1
         /\ \A j \in 1..(Len(s) - 1) :
              RemoveAt(s, i)[j] = IF j < i THEN s[j] ELSE s[j + 1]
<1> DEFINE a == SubSeq(s, 1, i - 1)
           b == SubSeq(s, i + 1, Len(s))
           t == a \o b
<1>1. Len(s) \in Nat /\ i \in 1..Len(s) /\ i \in Nat
  OBVIOUS
<1>2. a \in Seq(S) /\ Len(a) = i - 1 /\ \A j \in 1..(i - 1) : a[j] = s[j]
  OBVIOUS
<1>3. /\ b \in Seq(S) /\ Len(b) = Len(s) - i
      /\ \A j \in 1..(Len(s) - i) : b[j] = s[i + j]
  OBVIOUS
<1>4. RemoveAt(s, i) = t
  BY DEF RemoveAt
<1> HIDE DEF a, b
<1>5. t \in Seq(S) /\ Len(t) = Len(s) - 1
  <2>1. t \in Seq(S) /\ Len(t) = Len(a) + Len(b)
    BY <1>2, <1>3, Places
  <2>2. Len(a) + Len(b) = Len(s) - 1
    BY <1>1, <1>2, <1>3
  <2> QED
    BY <2>1, <2>2
<1>6. ASSUME NEW j \in 1..(Len(s) - 1)
      PROVE  t[j] = IF j < i THEN s[j] ELSE s[j + 1]
  <2>1. CASE j < i
    BY <1>1, <1>2, <1>3, <2>1, Places
  <2>2. CASE j >= i
    <3>1. j - i + 1 \in 1..(Len(s) - i) /\ (i - 1) + (j - i + 1) = j
      BY <1>1, <2>2
    <3>2. t[j] = b[j - i + 1]
      <4>1. t[(i - 1) + (j - i + 1)] = b[j - i + 1]
        BY <1>2, <1>3, <3>1, Places
      <4> QED
        BY <3>1, <4>1
    <3>3. b[j - i + 1] = s[j + 1]
      BY <1>1, <1>3, <3>1
    <3> QED
      BY <1>1, <2>2, <3>2, <3>3
  <2>3. j < i \/ j >= i
    BY <1>1
  <2> QED
    BY <2>1, <2>2, <2>3
<1> HIDE DEF t
<1> QED
  BY <1>4, <1>5, <1>6
-------------------------------------------------------------------------------
(* What xsettings_list_add() and xsettings_list_remove() do to a sorted    *)
(* list's order and to its nodes.                                          *)

LEMMA Ordering ==
  /\ \A a, b, c \in Names : <<a, b>> \in Before /\ <<b, c>> \in Before => <<a, c>> \in Before
  /\ \A a, b \in Names : a # b /\ <<a, b>> \notin Before => <<b, a>> \in Before
  /\ \A a, b \in Names : <<a, b>> \in Before => a # b /\ <<b, a>> \notin Before
BY BeforeAssumption

LEMMA NodesOf ==
  ASSUME NEW l \in Seq(Node), NEW i \in 1..Len(l)
  PROVE  l[i] \in Node /\ l[i].name \in Names
<1>1. l[i] \in Node
  OBVIOUS
<1> QED
  BY <1>1 DEF Node

(* A sorted list holds a name once.                                        *)
LEMMA NamedOnce ==
  ASSUME NEW l \in Seq(Node), InOrder(l), NEW i \in 1..Len(l), NEW j \in 1..Len(l),
         l[i].name = l[j].name
  PROVE  i = j
<1>1. l[i].name \in Names
  BY NodesOf
<1>2. ~(i < j) /\ ~(j < i)
  BY <1>1, Ordering DEF InOrder
<1> QED
  BY <1>2

LEMMA AddSorted ==
  ASSUME NEW l \in Seq(Node), InOrder(l), NEW s \in Node
  PROVE  /\ ListAdd(l, s) \in Seq(Node)
         /\ InOrder(ListAdd(l, s))
         /\ Nodes(ListAdd(l, s)) =
              IF \E x \in Nodes(l) : x.name = s.name THEN Nodes(l) ELSE Nodes(l) \cup {s}
<1> DEFINE i == AddPlace(l, s.name)
           N == 1..Len(l)
<1>1. Len(l) \in Nat /\ s.name \in Names /\ \A j \in N : l[j] \in Node /\ l[j].name \in Names
  <2>1. s.name \in Names
    BY DEF Node
  <2> QED
    BY <2>1, NodesOf
<1>2. ListAdd(l, s) = IF i = 0 THEN Append(l, s)
                      ELSE IF l[i].name = s.name THEN l ELSE InsertAt(l, i, s)
  <2>1. CASE i = 0
    BY <2>1 DEF ListAdd, AddPlace, FirstNode, SelectInSeq
  <2>2. CASE i # 0 /\ l[i].name = s.name
    BY <2>2 DEF ListAdd, AddPlace, FirstNode, SelectInSeq
  <2>3. CASE i # 0 /\ l[i].name # s.name
    BY <2>3 DEF ListAdd, AddPlace, FirstNode, SelectInSeq
  <2> QED
    BY <2>1, <2>2, <2>3
<1>3. /\ i \in 0..Len(l)
      /\ i = 0 => \A j \in N : <<l[j].name, s.name>> \in Before
      /\ i # 0 => /\ i \in N /\ <<l[i].name, s.name>> \notin Before
                  /\ \A j \in N : j < i => <<l[j].name, s.name>> \in Before
  BY StopsAt
<1> HIDE DEF i
<1>4. CASE i = 0
  <2> DEFINE t == Append(l, s)
  <2>1. /\ t \in Seq(Node) /\ Len(t) = Len(l) + 1
        /\ \A j \in N : t[j] = l[j]
        /\ t[Len(l) + 1] = s
    OBVIOUS
  <2>2. ListAdd(l, s) = t
    BY <1>2, <1>4
  <2> HIDE DEF t
  <2>3. \A j \in 1..(Len(l) + 1) : j \in N \/ j = Len(l) + 1
    BY <1>1
  <2>4. InOrder(t)
    BY <1>1, <1>3, <1>4, <2>1, <2>3 DEF InOrder
  <2>5. Nodes(t) = Nodes(l) \cup {s}
    BY <1>1, <2>1, <2>3 DEF Nodes
  <2>6. ~\E x \in Nodes(l) : x.name = s.name
    BY <1>1, <1>3, <1>4, Ordering DEF Nodes
  <2> QED
    BY <2>1, <2>2, <2>4, <2>5, <2>6
<1>5. CASE i # 0 /\ l[i].name = s.name
  BY <1>2, <1>3, <1>5 DEF Nodes
<1>6. CASE i # 0 /\ l[i].name # s.name
  <2> DEFINE t == InsertAt(l, i, s)
  <2>1. i \in N /\ <<s.name, l[i].name>> \in Before
    BY <1>1, <1>3, <1>6, Ordering
  <2>2. /\ t \in Seq(Node) /\ Len(t) = Len(l) + 1
        /\ \A j \in 1..(Len(l) + 1) :
             t[j] = IF j < i THEN l[j] ELSE IF j = i THEN s ELSE l[j - 1]
    BY <2>1, Inserted
  <2>3. ListAdd(l, s) = t
    BY <1>2, <1>6
  <2> HIDE DEF t
  <2>4. ASSUME NEW j \in N, i <= j
        PROVE  <<s.name, l[j].name>> \in Before
    <3>1. i = j \/ i < j
      BY <1>1, <2>1, <2>4
    <3>2. i < j => <<l[i].name, l[j].name>> \in Before
      BY <2>1 DEF InOrder
    <3> QED
      BY <1>1, <2>1, <3>1, <3>2, Ordering
  <2>5. InOrder(t)
    <3> SUFFICES ASSUME NEW j \in 1..(Len(l) + 1), NEW k \in 1..(Len(l) + 1), j < k
                 PROVE  <<t[j].name, t[k].name>> \in Before
      BY <2>2 DEF InOrder
    <3>1. CASE k < i
      <4>1. j \in N /\ k \in N /\ t[j] = l[j] /\ t[k] = l[k]
        BY <1>1, <2>1, <2>2, <3>1
      <4> QED
        BY <4>1 DEF InOrder
    <3>2. CASE k = i
      BY <1>1, <1>3, <1>6, <2>1, <2>2, <3>2
    <3>3. CASE j < i /\ i < k
      <4>1. k - 1 \in N /\ j < k - 1 /\ j \in N /\ t[j] = l[j] /\ t[k] = l[k - 1]
        BY <1>1, <2>1, <2>2, <3>3
      <4> QED
        BY <4>1 DEF InOrder
    <3>4. CASE j = i
      <4>1. k - 1 \in N /\ i <= k - 1 /\ t[j] = s /\ t[k] = l[k - 1]
        BY <1>1, <2>1, <2>2, <3>4
      <4> QED
        BY <2>4, <4>1
    <3>5. CASE i < j
      <4>1. k - 1 \in N /\ j - 1 \in N /\ j - 1 < k - 1 /\ t[j] = l[j - 1] /\ t[k] = l[k - 1]
        BY <1>1, <2>1, <2>2, <3>5
      <4> QED
        BY <4>1 DEF InOrder
    <3> QED
      BY <1>1, <2>1, <3>1, <3>2, <3>3, <3>4, <3>5
  <2>6. Nodes(t) = Nodes(l) \cup {s}
    <3>1. ASSUME NEW x \in Nodes(t) PROVE x \in Nodes(l) \cup {s}
      <4>1. PICK j \in 1..(Len(l) + 1) : x = t[j]
        BY <2>2 DEF Nodes
      <4>2. j < i => j \in N
        BY <1>1, <2>1
      <4>3. j > i => j - 1 \in N
        BY <1>1, <2>1
      <4>4. x = s \/ (\E k \in N : x = l[k])
        BY <1>1, <2>1, <2>2, <4>1, <4>2, <4>3
      <4> QED
        BY <4>4 DEF Nodes
    <3>2. ASSUME NEW x \in Nodes(l) PROVE x \in Nodes(t)
      <4>1. PICK j \in N : x = l[j]
        BY DEF Nodes
      <4>2. CASE j < i
        BY <1>1, <2>1, <2>2, <4>1, <4>2 DEF Nodes
      <4>3. CASE i <= j
        <5>1. j + 1 \in 1..(Len(l) + 1) /\ t[j + 1] = l[j]
          BY <1>1, <2>1, <2>2, <4>3
        <5> QED
          BY <2>2, <4>1, <5>1 DEF Nodes
      <4> QED
        BY <1>1, <2>1, <4>2, <4>3
    <3>3. s \in Nodes(t)
      BY <1>1, <2>1, <2>2 DEF Nodes
    <3> QED
      BY <3>1, <3>2, <3>3
  <2>7. ~\E x \in Nodes(l) : x.name = s.name
    <3> SUFFICES ASSUME NEW j \in N, l[j].name = s.name PROVE FALSE
      BY DEF Nodes
    <3>1. CASE j < i
      BY <1>1, <1>3, <1>6, <3>1, Ordering
    <3>2. CASE i <= j
      BY <1>1, <2>4, <3>2, Ordering
    <3> QED
      BY <1>1, <2>1, <3>1, <3>2
  <2> QED
    BY <2>2, <2>3, <2>5, <2>6, <2>7
<1> QED
  BY <1>4, <1>5, <1>6

LEMMA RemoveSorted ==
  ASSUME NEW l \in Seq(Node), InOrder(l), NEW n \in Names
  PROVE  /\ ListRemove(l, n) \in Seq(Node)
         /\ InOrder(ListRemove(l, n))
         /\ Nodes(ListRemove(l, n)) = {x \in Nodes(l) : x.name # n}
<1> DEFINE i == ListFind(l, n)
           N == 1..Len(l)
           t == RemoveAt(l, i)
<1>1. /\ i \in 0..Len(l) /\ Len(l) \in Nat
      /\ i = 0 => \A j \in N : l[j].name # n
      /\ i # 0 => i \in N /\ l[i].name = n
  BY FoundAt
<1>2. ListRemove(l, n) = IF i = 0 THEN l ELSE t
  BY DEF ListRemove
<1> HIDE DEF i
<1>3. CASE i = 0
  BY <1>1, <1>2, <1>3 DEF Nodes
<1>4. CASE i # 0
  <2>1. i \in N /\ l[i].name = n
    BY <1>1, <1>4
  <2>2. /\ t \in Seq(Node) /\ Len(t) = Len(l) - 1
        /\ \A j \in 1..(Len(l) - 1) : t[j] = IF j < i THEN l[j] ELSE l[j + 1]
    BY <2>1, Removed
  <2> HIDE DEF t
  <2>3. \A j \in 1..(Len(l) - 1) : j \in N /\ j + 1 \in N
    BY <1>1
  <2>4. InOrder(t)
    <3> SUFFICES ASSUME NEW j \in 1..(Len(l) - 1), NEW k \in 1..(Len(l) - 1), j < k
                 PROVE  <<t[j].name, t[k].name>> \in Before
      BY <2>2 DEF InOrder
    <3> DEFINE p == IF j < i THEN j ELSE j + 1
               q == IF k < i THEN k ELSE k + 1
    <3>1. p \in N /\ q \in N /\ p < q
      BY <1>1, <2>1, <2>3
    <3>2. t[j] = l[p] /\ t[k] = l[q]
      BY <2>2
    <3> QED
      BY <3>1, <3>2 DEF InOrder
  <2>5. \A j \in N : j # i => l[j].name # n
    BY <2>1, NamedOnce
  <2>6. ASSUME NEW x \in Nodes(t) PROVE x \in Nodes(l) /\ x.name # n
    <3>1. PICK j \in 1..(Len(l) - 1) : x = t[j]
      BY <2>2 DEF Nodes
    <3> DEFINE p == IF j < i THEN j ELSE j + 1
    <3>2. p \in N /\ p # i /\ x = l[p]
      BY <1>1, <2>1, <2>2, <2>3, <3>1
    <3> QED
      BY <2>5, <3>2 DEF Nodes
  <2>7. ASSUME NEW x \in Nodes(l), x.name # n PROVE x \in Nodes(t)
    <3>1. PICK j \in N : x = l[j]
      BY DEF Nodes
    <3>2. j # i
      BY <2>1, <2>7, <3>1
    <3> DEFINE p == IF j < i THEN j ELSE j - 1
    <3>3. p \in 1..(Len(l) - 1) /\ t[p] = l[j]
      BY <1>1, <2>1, <2>2, <3>2
    <3> HIDE DEF p
    <3> QED
      BY <2>2, <3>1, <3>3 DEF Nodes
  <2>8. Nodes(t) = {x \in Nodes(l) : x.name # n}
    BY <2>6, <2>7
  <2> QED
    BY <1>2, <1>4, <2>2, <2>4, <2>8
<1> QED
  BY <1>3, <1>4
-------------------------------------------------------------------------------
(* The map that a sorted list stands for.                                  *)
LEMMA MapIs ==
  ASSUME NEW l \in Seq(Node), InOrder(l)
  PROVE  /\ DOMAIN AsMap(l) = {x.name : x \in Nodes(l)}
         /\ AsMap(l) = [n \in {x.name : x \in Nodes(l)} |-> AsMap(l)[n]]
         /\ \A x \in Nodes(l) : AsMap(l)[x.name] = [val |-> x.val, stamp |-> x.stamp]
         /\ \A n : n \in DOMAIN AsMap(l) <=> \E x \in Nodes(l) : x.name = n
<1> DEFINE D == {l[i].name : i \in DOMAIN l}
<1>1. D = {x.name : x \in Nodes(l)}
  <2>1. DOMAIN l = 1..Len(l)
    OBVIOUS
  <2> QED
    BY <2>1 DEF Nodes
<1>2. ASSUME NEW x \in Nodes(l)
      PROVE  x = l[ListFind(l, x.name)] /\ x.name \in D
  <2>1. PICK i \in 1..Len(l) : x = l[i]
    BY DEF Nodes
  <2>2. ListFind(l, x.name) \in 1..Len(l) /\ l[ListFind(l, x.name)].name = x.name
    BY <2>1, FoundAt
  <2>3. ListFind(l, x.name) = i
    BY <2>1, <2>2, NamedOnce
  <2> QED
    BY <1>1, <2>1, <2>3
<1>3. AsMap(l) = [n \in D |-> [val |-> l[ListFind(l, n)].val, stamp |-> l[ListFind(l, n)].stamp]]
  BY DEF AsMap
<1> HIDE DEF D
<1>4. \A x \in Nodes(l) : AsMap(l)[x.name] = [val |-> x.val, stamp |-> x.stamp]
  BY <1>2, <1>3
<1>5. DOMAIN AsMap(l) = D /\ AsMap(l) = [n \in D |-> AsMap(l)[n]]
  BY <1>3
<1>6. \A n : n \in D <=> \E x \in Nodes(l) : x.name = n
  BY <1>1
<1> QED
  BY <1>1, <1>4, <1>5, <1>6

(* Two ways to say the same map.                                           *)
LEMMA SameMap ==
  ASSUME NEW l \in Seq(Node), InOrder(l), NEW D, NEW f, f = [n \in D |-> f[n]],
         D = {x.name : x \in Nodes(l)},
         \A x \in Nodes(l) : f[x.name] = [val |-> x.val, stamp |-> x.stamp]
  PROVE  AsMap(l) = f
<1>1. \A n \in D : AsMap(l)[n] = f[n]
  <2> TAKE n \in D
  <2>1. PICK x \in Nodes(l) : n = x.name
    OBVIOUS
  <2> QED
    BY <2>1, MapIs
<1>2. AsMap(l) = [n \in D |-> AsMap(l)[n]]
  BY MapIs
<1> HIDE DEF AsMap
<1> QED
  BY <1>1, <1>2

LEMMA NothingIsNoMap ==
  /\ <<>> \in Seq(Node) /\ InOrder(<<>>) /\ Nodes(<<>>) = {}
  /\ AsMap(<<>>) = EmptySettings
<1>1. <<>> \in Seq(Node) /\ InOrder(<<>>) /\ Nodes(<<>>) = {}
  BY DEF InOrder, Nodes
<1>2. EmptySettings = [n \in {} |-> EmptySettings[n]]
  BY DEF EmptySettings
<1>3. AsMap(<<>>) = EmptySettings
  BY <1>1, <1>2, SameMap
<1> QED
  BY <1>1, <1>3

LEMMA RemoveDrops ==
  ASSUME NEW l \in Seq(Node), InOrder(l), NEW n \in Names
  PROVE  AsMap(ListRemove(l, n)) = DropSetting(AsMap(l), n)
<1> DEFINE t == ListRemove(l, n)
           f == DropSetting(AsMap(l), n)
           D == DOMAIN AsMap(l) \ {n}
<1>1. t \in Seq(Node) /\ InOrder(t) /\ Nodes(t) = {x \in Nodes(l) : x.name # n}
  BY RemoveSorted
<1>2. f = [k \in D |-> AsMap(l)[k]]
  BY DEF DropSetting
<1> HIDE DEF t, f
<1>3. f = [k \in D |-> f[k]] /\ \A k \in D : f[k] = AsMap(l)[k]
  BY <1>2
<1>4. D = {x.name : x \in Nodes(t)}
  <2>1. \A o : o \in D <=> \E x \in Nodes(t) : x.name = o
    BY <1>1, MapIs
  <2> HIDE DEF D
  <2> QED
    BY <2>1
<1>5. \A x \in Nodes(t) : f[x.name] = [val |-> x.val, stamp |-> x.stamp]
  BY <1>1, <1>3, <1>4, MapIs
<1> HIDE DEF D
<1>6. AsMap(t) = f
  BY <1>1, <1>3, <1>4, <1>5, SameMap
<1> QED
  BY <1>6 DEF t, f

(* xsettings_manager_set_setting()                                         *)
LEMMA SetPuts ==
  ASSUME NEW l \in Seq(Node), InOrder(l), NEW n \in Names, NEW v \in Values, NEW k \in Serial
  PROVE  /\ SetSetting(l, n, v, k) \in Seq(Node)
         /\ InOrder(SetSetting(l, n, v, k))
         /\ AsMap(SetSetting(l, n, v, k)) = PutSetting(AsMap(l), n, v, k)
<1> DEFINE i == ListFind(l, n)
           s == [name |-> n, val |-> v, stamp |-> k]
           m == AsMap(l)
           f == PutSetting(m, n, v, k)
<1>1. /\ i \in 0..Len(l) /\ Len(l) \in Nat
      /\ i = 0 => \A x \in Nodes(l) : x.name # n
      /\ i # 0 => l[i] \in Nodes(l) /\ l[i].name = n
  BY FoundAt DEF Nodes
<1> HIDE DEF i
<1>2. s \in Node /\ s.name = n /\ s.val = v /\ s.stamp = k
  BY DEF Node
<1>3. n \in DOMAIN m /\ m[n].val = v <=> i # 0 /\ l[i].val = v
  <2>1. CASE i = 0
    BY <1>1, <2>1, MapIs
  <2>2. CASE i # 0
    <3>1. n \in DOMAIN m /\ m[n] = [val |-> l[i].val, stamp |-> l[i].stamp]
      <4>1. l[i] \in Nodes(l) /\ l[i].name = n
        BY <1>1, <2>2
      <4> HIDE DEF i
      <4> QED
        BY <4>1, MapIs
    <3> QED
      BY <2>2, <3>1
  <2> QED
    BY <2>1, <2>2
<1>4. CASE i # 0 /\ l[i].val = v
  BY <1>3, <1>4 DEF SetSetting, PutSetting, i
<1>5. CASE ~(i # 0 /\ l[i].val = v)
  <2> DEFINE r == ListRemove(l, n)
             t == ListAdd(r, s)
             D == DOMAIN m \cup {n}
  <2>1. SetSetting(l, n, v, k) = t
    BY <1>5 DEF SetSetting, i
  <2>2. f = [o \in D |-> IF o = n THEN [val |-> v, stamp |-> k] ELSE m[o]]
    BY <1>3, <1>5 DEF PutSetting
  <2>3. r \in Seq(Node) /\ InOrder(r) /\ Nodes(r) = {x \in Nodes(l) : x.name # n}
    BY RemoveSorted
  <2> HIDE DEF r, m, f
  <2>4. ~\E x \in Nodes(r) : x.name = s.name
    BY <1>2, <2>3
  <2>5. t \in Seq(Node) /\ InOrder(t) /\ Nodes(t) = Nodes(r) \cup {s}
    BY <1>2, <2>3, <2>4, AddSorted
  <2> HIDE DEF t, s
  <2>6. D = {x.name : x \in Nodes(t)}
    <3>1. DOMAIN m = {x.name : x \in Nodes(l)}
      BY MapIs DEF m
    <3> QED
      BY <1>2, <2>3, <2>5, <3>1
  <2>7. f = [o \in D |-> f[o]]
    BY <2>2
  <2>8. \A x \in Nodes(t) : f[x.name] = [val |-> x.val, stamp |-> x.stamp]
    <3> SUFFICES ASSUME NEW x \in Nodes(t)
                 PROVE  f[x.name] = [val |-> x.val, stamp |-> x.stamp]
      OBVIOUS
    <3>1. CASE x = s
      BY <1>2, <2>2, <3>1
    <3>2. CASE x \in Nodes(l) /\ x.name # n
      <4>1. m[x.name] = [val |-> x.val, stamp |-> x.stamp] /\ x.name \in D
        BY <3>2, MapIs DEF m
      <4> QED
        BY <2>2, <3>2, <4>1
    <3> QED
      BY <2>3, <2>5, <3>1, <3>2
  <2> HIDE DEF D
  <2>9. AsMap(t) = f
    BY <2>5, <2>6, <2>7, <2>8, SameMap
  <2> QED
    BY <2>1, <2>5, <2>9 DEF f, m
<1> QED
  BY <1>4, <1>5
-------------------------------------------------------------------------------
(* xsettings_decode(), one setting after the other.                        *)
IsDecoding(d, entries, n) ==
  d = [i \in 0..n |-> IF i = 0 THEN <<>> ELSE ListAdd(d[i - 1], entries[i])]

LEMMA DecodingExists ==
  ASSUME NEW entries, NEW m \in Nat
  PROVE  \E d : IsDecoding(d, entries, m)
<1> DEFINE T == {n \in Nat : ~\E d : IsDecoding(d, entries, n)}
<1> SUFFICES ASSUME T # {} PROVE FALSE
  OBVIOUS
<1>1. PICK n \in T : \A k \in T : n <= k
  BY Smallest
<1>2. n \in Nat /\ ~\E d : IsDecoding(d, entries, n)
  OBVIOUS
<1>3. CASE n = 0
  <2> DEFINE d == [i \in 0..0 |-> <<>>]
  <2>1. IsDecoding(d, entries, 0)
    BY DEF IsDecoding
  <2> HIDE DEF d
  <2> QED
    BY <1>2, <1>3, <2>1
<1>4. CASE n # 0
  <2>1. n - 1 \in Nat /\ n - 1 \notin T
    BY <1>1, <1>2, <1>4
  <2>2. PICK d : IsDecoding(d, entries, n - 1)
    BY <2>1
  <2>3. \A i \in 0..(n - 1) : d[i] = IF i = 0 THEN <<>> ELSE ListAdd(d[i - 1], entries[i])
    BY <2>2 DEF IsDecoding
  <2> DEFINE g == [i \in 0..n |-> IF i = n THEN ListAdd(d[n - 1], entries[n]) ELSE d[i]]
             h == [i \in 0..n |-> IF i = 0 THEN <<>> ELSE ListAdd(g[i - 1], entries[i])]
  <2>4. \A i \in 0..n : g[i] = IF i = n THEN ListAdd(d[n - 1], entries[n]) ELSE d[i]
    OBVIOUS
  <2>5. \A i \in 0..n : h[i] = IF i = 0 THEN <<>> ELSE ListAdd(g[i - 1], entries[i])
    OBVIOUS
  <2>6. g = [i \in 0..n |-> g[i]] /\ h = [i \in 0..n |-> h[i]]
    OBVIOUS
  <2> HIDE DEF g, h
  <2>7. ASSUME NEW i \in 0..n
        PROVE  g[i] = h[i]
    <3>1. CASE i = 0
      BY <1>4, <2>1, <2>3, <2>4, <2>5, <3>1
    <3>2. CASE i # 0
      <4>1. i - 1 \in 0..n /\ i - 1 # n
        BY <1>2, <3>2
      <4>2. g[i - 1] = d[i - 1]
        BY <2>4, <4>1
      <4>3. i # n => i \in 0..(n - 1)
        BY <1>2
      <4> QED
        BY <2>3, <2>4, <2>5, <3>2, <4>2, <4>3
    <3> QED
      BY <3>1, <3>2
  <2>8. g = h
    BY <2>6, <2>7
  <2>9. IsDecoding(g, entries, n)
    BY <2>8 DEF IsDecoding, h
  <2> QED
    BY <1>2, <2>9
<1> QED
  BY <1>3, <1>4

(* The first setting of each name.                                         *)
First(e, j) == \A k \in 1..(j - 1) : e[k].name # e[j].name

Firsts(e, n) == {e[j] : j \in {j \in 1..n : First(e, j)}}

(* No name is without its first setting.                                   *)
LEMMA HasFirst ==
  ASSUME NEW e \in Seq(Node), NEW n \in 0..Len(e), NEW i \in 1..n
  PROVE  \E j \in 1..n : First(e, j) /\ e[j].name = e[i].name
<1> DEFINE T == {j \in 1..n : e[j].name = e[i].name}
<1>0. Len(e) \in Nat /\ n \in Nat
  OBVIOUS
<1>1. T \in SUBSET Nat /\ T # {}
  BY <1>0
<1>2. PICK j \in T : \A k \in T : j <= k
  BY <1>1, Smallest
<1>3. \A k \in 1..(j - 1) : k \in 1..n /\ k \notin T
  BY <1>0, <1>2
<1> QED
  BY <1>2, <1>3 DEF First

LEMMA NextFirsts ==
  ASSUME NEW e \in Seq(Node), NEW n \in 1..Len(e)
  PROVE  Firsts(e, n) = IF \E x \in Firsts(e, n - 1) : x.name = e[n].name
                          THEN Firsts(e, n - 1) ELSE Firsts(e, n - 1) \cup {e[n]}
<1>0. Len(e) \in Nat /\ n \in Nat /\ n - 1 \in 0..Len(e)
  OBVIOUS
<1>1. \A j : j \in 1..n <=> j \in 1..(n - 1) \/ j = n
  BY <1>0
<1>2. Firsts(e, n) = IF First(e, n) THEN Firsts(e, n - 1) \cup {e[n]} ELSE Firsts(e, n - 1)
  BY <1>1 DEF Firsts
<1>3. (\E x \in Firsts(e, n - 1) : x.name = e[n].name) <=> ~First(e, n)
  <2>1. ASSUME NEW j \in 1..(n - 1), e[j].name = e[n].name PROVE ~First(e, n)
    BY <2>1 DEF First
  <2>2. ASSUME ~First(e, n) PROVE \E x \in Firsts(e, n - 1) : x.name = e[n].name
    <3>1. PICK k \in 1..(n - 1) : e[k].name = e[n].name
      BY <2>2 DEF First
    <3>2. PICK j \in 1..(n - 1) : First(e, j) /\ e[j].name = e[k].name
      BY <1>0, HasFirst
    <3> QED
      BY <3>1, <3>2 DEF Firsts
  <2>3. ASSUME NEW x \in Firsts(e, n - 1), x.name = e[n].name PROVE ~First(e, n)
    BY <2>1, <2>3 DEF Firsts
  <2> QED
    BY <2>2, <2>3
<1> QED
  BY <1>2, <1>3

(* A decoded list is sorted, and of settings with one name the first is in *)
(* it.                                                                     *)
LEMMA Decoded ==
  ASSUME NEW e \in Seq(Node)
  PROVE  /\ Decode(e) \in Seq(Node) /\ InOrder(Decode(e))
         /\ Nodes(Decode(e)) = Firsts(e, Len(e))
<1> DEFINE d == CHOOSE f : IsDecoding(f, e, Len(e))
           Good(i) == /\ d[i] \in Seq(Node) /\ InOrder(d[i])
                      /\ Nodes(d[i]) = Firsts(e, i)
           T == {i \in 0..Len(e) : ~Good(i)}
<1>0. Len(e) \in Nat
  OBVIOUS
<1>1. Decode(e) = d[Len(e)]
  BY DEF Decode, IsDecoding
<1>2. IsDecoding(d, e, Len(e))
  <2>1. \E f : IsDecoding(f, e, Len(e))
    BY <1>0, DecodingExists
  <2> QED
    BY <2>1
<1> HIDE DEF d
<1>3. \A i \in 0..Len(e) : d[i] = IF i = 0 THEN <<>> ELSE ListAdd(d[i - 1], e[i])
  BY <1>2 DEF IsDecoding
<1>4. T = {}
  <2> SUFFICES ASSUME T # {} PROVE FALSE
    OBVIOUS
  <2>1. PICK i \in T : \A k \in T : i <= k
    <3>1. T \in SUBSET Nat
      BY <1>0
    <3> HIDE DEF T
    <3> QED
      BY <3>1, Smallest
  <2>2. i \in 0..Len(e) /\ i \in Nat /\ ~Good(i)
    BY <1>0
  <2>3. CASE i = 0
    <3>1. d[i] = <<>> /\ Firsts(e, i) = {}
      BY <1>0, <1>3, <2>3 DEF Firsts
    <3> QED
      BY <2>2, <3>1, NothingIsNoMap
  <2>4. CASE i # 0
    <3>1. i - 1 \in 0..Len(e) /\ i \in 1..Len(e) /\ i - 1 \notin T
      BY <1>0, <2>1, <2>2, <2>4
    <3>2. Good(i - 1) /\ d[i] = ListAdd(d[i - 1], e[i]) /\ e[i] \in Node
      BY <1>3, <2>4, <3>1
    <3>3. /\ d[i] \in Seq(Node) /\ InOrder(d[i])
          /\ Nodes(d[i]) = IF \E x \in Firsts(e, i - 1) : x.name = e[i].name
                             THEN Firsts(e, i - 1) ELSE Firsts(e, i - 1) \cup {e[i]}
      <4> DEFINE l == d[i - 1]
                 s == e[i]
      <4>1. l \in Seq(Node) /\ InOrder(l) /\ s \in Node /\ Nodes(l) = Firsts(e, i - 1)
        BY <3>2
      <4>2. d[i] = ListAdd(l, s)
        BY <3>2
      <4> HIDE DEF l, s
      <4>3. ListAdd(l, s) \in Seq(Node) /\ InOrder(ListAdd(l, s))
        BY <4>1, AddSorted
      <4>4. Nodes(ListAdd(l, s)) = IF \E x \in Nodes(l) : x.name = s.name
                                     THEN Nodes(l) ELSE Nodes(l) \cup {s}
        BY <4>1, AddSorted
      <4> QED
        BY <4>1, <4>2, <4>3, <4>4 DEF s
    <3> QED
      BY <2>2, <3>1, <3>3, NextFirsts
  <2> QED
    BY <2>3, <2>4
<1>5. Len(e) \in 0..Len(e)
  BY <1>0
<1> QED
  BY <1>1, <1>4, <1>5

LEMMA DecodedMap ==
  ASSUME NEW e \in Seq(Node)
  PROVE  AsMap(Decode(e)) = Store!FirstOf(e)
<1> DEFINE l == Decode(e)
           f == Store!FirstOf(e)
           D == {e[i].name : i \in DOMAIN e}
           at(n) == CHOOSE i \in DOMAIN e : e[i].name = n /\ \A j \in 1..(i - 1) : e[j].name # n
<1>0. DOMAIN e = 1..Len(e) /\ Len(e) \in Nat /\ Len(e) \in 0..Len(e)
  OBVIOUS
<1>1. l \in Seq(Node) /\ InOrder(l) /\ Nodes(l) = Firsts(e, Len(e))
  BY Decoded
<1>2. f = [n \in D |-> [val |-> e[at(n)].val, stamp |-> e[at(n)].stamp]]
  BY DEF Store!FirstOf
<1> HIDE DEF l, f, D
<1>3. D = {x.name : x \in Nodes(l)}
  <2>1. \A n \in D : \E x \in Nodes(l) : x.name = n
    <3> SUFFICES ASSUME NEW i \in 1..Len(e) PROVE \E x \in Nodes(l) : x.name = e[i].name
      BY <1>0 DEF D
    <3>1. PICK j \in 1..Len(e) : First(e, j) /\ e[j].name = e[i].name
      BY <1>0, HasFirst
    <3> QED
      BY <1>1, <3>1 DEF Firsts
  <2>2. \A x \in Nodes(l) : x.name \in D
    BY <1>0, <1>1 DEF Firsts, D
  <2> QED
    BY <2>1, <2>2
<1>4. ASSUME NEW x \in Nodes(l)
      PROVE  f[x.name] = [val |-> x.val, stamp |-> x.stamp]
  <2>1. PICK j \in 1..Len(e) : x = e[j] /\ First(e, j)
    BY <1>1 DEF Firsts
  <2>2. j \in DOMAIN e /\ e[j].name = x.name /\ \A k \in 1..(j - 1) : e[k].name # x.name
    BY <1>0, <2>1 DEF First
  <2>3. /\ at(x.name) \in DOMAIN e /\ e[at(x.name)].name = x.name
        /\ \A k \in 1..(at(x.name) - 1) : e[k].name # x.name
    BY <2>2
  <2> HIDE DEF at
  <2>4. at(x.name) = j
    <3>1. at(x.name) \in Nat /\ j \in Nat /\ at(x.name) # 0 /\ j # 0
      BY <1>0, <2>3
    <3>2. ~(at(x.name) < j) /\ ~(j < at(x.name))
      <4>1. at(x.name) < j => at(x.name) \in 1..(j - 1)
        BY <3>1
      <4>2. j < at(x.name) => j \in 1..(at(x.name) - 1)
        BY <3>1
      <4> QED
        BY <2>2, <2>3, <4>1, <4>2
    <3> QED
      BY <3>1, <3>2
  <2>5. x.name \in D
    BY <1>3
  <2> QED
    BY <1>2, <2>1, <2>4, <2>5
<1>5. f = [n \in D |-> f[n]]
  BY <1>2
<1>6. AsMap(l) = f
  BY <1>1, <1>3, <1>4, <1>5, SameMap
<1> QED
  BY <1>6 DEF l, f
-------------------------------------------------------------------------------
(* A sorted list publishes each setting once.                              *)
LEMMA PublishesOnce ==
  ASSUME NEW l \in Seq(Node), InOrder(l)
  PROVE  /\ Len(l) = Cardinality(DOMAIN AsMap(l))
         /\ \A n \in DOMAIN AsMap(l) : \E i \in DOMAIN l :
              l[i] = [name |-> n, val |-> AsMap(l)[n].val, stamp |-> AsMap(l)[n].stamp]
<1> DEFINE N == 1..Len(l)
           D == DOMAIN AsMap(l)
           f == [i \in N |-> l[i].name]
<1>1. Len(l) \in Nat /\ DOMAIN l = N
  OBVIOUS
<1>2. \A n : n \in D <=> \E i \in N : l[i].name = n
  <2>1. \A n : n \in D <=> \E x \in Nodes(l) : x.name = n
    BY MapIs
  <2> HIDE DEF D
  <2> QED
    BY <2>1 DEF Nodes
<1>3. f \in Bijection(N, D)
  <2>1. \A i \in N : f[i] = l[i].name
    OBVIOUS
  <2>2. f \in [N -> D]
    BY <1>2
  <2>3. \A i, j \in N : f[i] = f[j] => i = j
    BY <2>1, NamedOnce
  <2>4. \A n \in D : \E i \in N : f[i] = n
    BY <1>2, <2>1
  <2> HIDE DEF f, D
  <2> QED
    BY <2>2, <2>3, <2>4 DEF Bijection, Injection, Surjection, IsInjective
<1>4. ExistsBijection(N, D)
  <2> HIDE DEF f, D
  <2> QED
    BY <1>3 DEF ExistsBijection
<1>5. IsFiniteSet(N) /\ Cardinality(N) = Len(l)
  BY <1>1, FS_Interval
<1>6. Len(l) = Cardinality(D)
  <2> HIDE DEF N, D
  <2> QED
    BY <1>4, <1>5, FS_Bijection
<1>7. ASSUME NEW n \in D
      PROVE  \E i \in DOMAIN l :
               l[i] = [name |-> n, val |-> AsMap(l)[n].val, stamp |-> AsMap(l)[n].stamp]
  <2>1. PICK i \in N : l[i].name = n
    BY <1>2
  <2>2. AsMap(l)[n] = [val |-> l[i].val, stamp |-> l[i].stamp]
    BY <2>1, MapIs DEF Nodes
  <2>3. l[i] \in Node
    BY <2>1
  <2>4. l[i] = [name |-> l[i].name, val |-> l[i].val, stamp |-> l[i].stamp]
    BY <2>3 DEF Node
  <2> HIDE DEF AsMap
  <2> QED
    BY <1>1, <2>1, <2>2, <2>4
<1> QED
  BY <1>6, <1>7

-------------------------------------------------------------------------------
(* The store's map is the list's.                                          *)
LEMMA StoresMap ==
  /\ Store!EmptySettings = EmptySettings /\ Store!Serial = Serial
  /\ \A s, n, v, k : Store!PutSetting(s, n, v, k) = PutSetting(s, n, v, k)
  /\ \A s, n : Store!DropSetting(s, n) = DropSetting(s, n)
BY DEF Store!EmptySettings, EmptySettings, Store!Serial, Serial, Store!PutSetting, PutSetting,
       Store!DropSetting, DropSetting

(* What is known of a list and what is done to it, at every step.          *)
ListInv == TypeOK /\ Sorted

LEMMA ListInvInit == Init => ListInv /\ Store!Init
<1>1. 0 \in Serial
  BY MaxSerialAssumption DEF Serial
<1> QED
  BY <1>1, NothingIsNoMap, StoresMap DEF Init, ListInv, TypeOK, Sorted, InOrder, Store!Init

LEMMA ListInvStep ==
  ASSUME ListInv, [Next]_vars
  PROVE  ListInv' /\ [Store!Next]_<<AsMap(list), serial, property>>
<1>1. list \in Seq(Node) /\ InOrder(list) /\ serial \in Serial
  BY DEF ListInv, TypeOK, Sorted, InOrder
<1>2. list' \in Seq(Node) /\ InOrder(list') => list' \in Seq(Node) /\ Sorted'
  BY DEF Sorted, InOrder
<1>3. ASSUME NEW n \in Names, NEW v \in Values, Set(n, v)
      PROVE  ListInv' /\ Store!Set(n, v)
  <2>1. /\ list' \in Seq(Node) /\ InOrder(list')
        /\ AsMap(list') = PutSetting(AsMap(list), n, v, serial)
    BY <1>1, <1>3, SetPuts DEF Set
  <2>2. ListInv'
    BY <1>2, <1>3, <2>1 DEF ListInv, TypeOK, Set
  <2> QED
    BY <1>3, <2>1, <2>2, StoresMap DEF Store!Set, Set
<1>4. ASSUME NEW n \in Names, Delete(n)
      PROVE  ListInv' /\ Store!Delete(n)
  <2>1. /\ list' \in Seq(Node) /\ InOrder(list')
        /\ AsMap(list') = DropSetting(AsMap(list), n)
    BY <1>1, <1>4, RemoveSorted, RemoveDrops DEF Delete
  <2>2. ListInv'
    BY <1>2, <1>4, <2>1 DEF ListInv, TypeOK, Delete
  <2> QED
    BY <1>4, <2>1, <2>2, StoresMap DEF Store!Delete, Delete
<1>5. CASE Notify
  <2>1. serial + 1 \in Serial
    BY <1>1, <1>5, MaxSerialAssumption DEF Notify, Serial
  <2>2. /\ property' \in Property /\ property'.entries = list /\ property'.serial = serial
        /\ list' = list /\ serial' = serial + 1
    BY <1>1, <1>5 DEF Notify, Property
  <2>3. property' # Unreadable
    BY <2>2, ForeignAssumption
  <2>4. ListInv'
    BY <1>1, <2>1, <2>2 DEF ListInv, TypeOK, Sorted
  <2>5. /\ Len(property'.entries) = Cardinality(DOMAIN AsMap(list))
        /\ \A n \in DOMAIN AsMap(list) : \E i \in DOMAIN property'.entries :
             property'.entries[i] =
               [name |-> n, val |-> AsMap(list)[n].val, stamp |-> AsMap(list)[n].stamp]
    BY <1>1, <2>2, PublishesOnce
  <2>6. Store!Notify
    <3>1. \A S : Store!Cardinality(S) = Cardinality(S)
      BY DEF Store!Cardinality, Cardinality, Store!IsFiniteSet, IsFiniteSet
    <3>2. serial < MaxSerial
      BY <1>5 DEF Notify
    <3> HIDE DEF AsMap
    <3> QED
      BY <2>2, <2>3, <2>5, <3>1, <3>2 DEF Store!Notify
  <2> QED
    BY <2>4, <2>6 DEF Store!Next
<1>6. CASE Write
  <2>1. ListInv'
    BY <1>1, <1>6, ForeignAssumption DEF Write, ListInv, TypeOK, Sorted
  <2>2. Store!Write
    BY <1>6 DEF Store!Write, Write
  <2> QED
    BY <2>1, <2>2 DEF Store!Next
<1>7. CASE Read
  <2>1. CASE property = Unreadable
    <3>1. list' = <<>> /\ serial' \in Serial /\ property' = property
      BY <1>7, <2>1 DEF Read
    <3>2. ListInv'
      BY <1>2, <3>1, NothingIsNoMap DEF ListInv, TypeOK
    <3>3. Store!Read
      BY <2>1, <3>1, NothingIsNoMap, StoresMap DEF Store!Read
    <3> QED
      BY <3>2, <3>3 DEF Store!Next
  <2>2. CASE property # Unreadable
    <3>1. property.entries \in Seq(Node) /\ property.serial \in Serial
      BY <2>2 DEF ListInv, TypeOK, Property
    <3>2. list' = Decode(property.entries) /\ serial' = property.serial /\ property' = property
      BY <1>7, <2>2 DEF Read
    <3>3. ListInv'
      BY <1>2, <3>1, <3>2, Decoded DEF ListInv, TypeOK
    <3>4. AsMap(list') = Store!FirstOf(property.entries)
      BY <3>1, <3>2, DecodedMap
    <3>5. Store!Read
      BY <2>2, <3>2, <3>4 DEF Store!Read
    <3> QED
      BY <3>3, <3>5 DEF Store!Next
  <2> QED
    BY <2>1, <2>2
<1>8. CASE UNCHANGED vars
  BY <1>8 DEF vars, ListInv, TypeOK, Sorted
<1>9. UNCHANGED vars => UNCHANGED <<AsMap(list), serial, property>>
  BY DEF vars
<1>10. QED
  BY <1>3, <1>4, <1>5, <1>6, <1>7, <1>8, <1>9 DEF Next, Store!Next

(* The list of a manager or a client is strictly sorted by name, whatever  *)
(* is set, deleted or read (xsettings_list_add() and xsettings_decode(),   *)
(* XSettingsCommon.cpp).                                                   *)
THEOREM AlwaysSorted == Spec => []Sorted
<1>1. ListInv /\ [Next]_vars => ListInv'
  BY ListInvStep
<1>2. ListInv => Sorted
  BY DEF ListInv
<1> QED
  BY <1>1, <1>2, ListInvInit, PTL DEF Spec

(* It is the map of settings its users are promised: what each function    *)
(* does to the list it does to the map, duplicates in a foreign property   *)
(* included (XSettingsCommon.cpp).                                         *)
THEOREM ListsAreStores == Spec => IsAStore
<1>1. ListInv /\ [Next]_vars => ListInv'
  BY ListInvStep
<1>2. ListInv /\ [Next]_vars => [Store!Next]_<<AsMap(list), serial, property>>
  BY ListInvStep
<1> QED
  BY <1>1, <1>2, ListInvInit, PTL DEF Spec, IsAStore, Store!Spec
-------------------------------------------------------------------------------
(* Each key is there once, and each section once.                          *)
Once(es) == \A i, j \in 1..Len(es) : es[i].key = es[j].key => i = j

Sound(c) ==
  /\ c \in Config /\ c.cached \in 0..Len(c.sections)
  /\ \A i, j \in 1..Len(c.sections) : c.sections[i].name = c.sections[j].name => i = j
  /\ \A i \in 1..Len(c.sections) : Once(c.sections[i].entries)

(* A configuration and its parts have their types.                         *)
LEMMA ConfigTypes ==
  ASSUME NEW c \in Config
  PROVE  /\ c.sections \in Seq(Section) /\ Len(c.sections) \in Nat /\ c.cached \in Nat
         /\ c = [sections |-> c.sections, cached |-> c.cached]
         /\ \A i \in 1..Len(c.sections) :
              /\ c.sections[i] \in Section /\ c.sections[i].name \in STRING
              /\ c.sections[i].entries \in Seq(Entry)
              /\ c.sections[i] = [name |-> c.sections[i].name, entries |-> c.sections[i].entries]
<1>1. c.sections \in Seq(Section) /\ c.cached \in Nat /\ c = [sections |-> c.sections, cached |-> c.cached]
  BY DEF Config
<1>2. Len(c.sections) \in Nat
  BY <1>1
<1>3. ASSUME NEW i \in 1..Len(c.sections)
      PROVE  /\ c.sections[i] \in Section /\ c.sections[i].name \in STRING
             /\ c.sections[i].entries \in Seq(Entry)
             /\ c.sections[i] = [name |-> c.sections[i].name, entries |-> c.sections[i].entries]
  <2>1. c.sections[i] \in Section
    BY <1>1
  <2> DEFINE x == c.sections[i]
  <2>2. x \in Section
    BY <2>1
  <2> HIDE DEF x
  <2>3. x.name \in STRING /\ x.entries \in Seq(Entry) /\ x = [name |-> x.name, entries |-> x.entries]
    BY <2>2 DEF Section
  <2> QED
    BY <2>2, <2>3 DEF x
<1> QED
  BY <1>1, <1>2, <1>3

LEMMA EntryTypes ==
  ASSUME NEW es \in Seq(Entry)
  PROVE  /\ Len(es) \in Nat
         /\ \A j \in 1..Len(es) : /\ es[j] \in Entry /\ es[j].key \in STRING /\ es[j].value \in Texts
                                  /\ es[j] = [key |-> es[j].key, value |-> es[j].value]
<1>1. ASSUME NEW j \in 1..Len(es)
      PROVE  /\ es[j] \in Entry /\ es[j].key \in STRING /\ es[j].value \in Texts
             /\ es[j] = [key |-> es[j].key, value |-> es[j].value]
  <2> DEFINE x == es[j]
  <2>2. x \in Entry
    OBVIOUS
  <2> HIDE DEF x
  <2>3. x.key \in STRING /\ x.value \in Texts /\ x = [key |-> x.key, value |-> x.value]
    BY <2>2 DEF Entry
  <2> QED
    BY <2>2, <2>3 DEF x
<1> QED
  BY <1>1

(* What is looked for is found when it is there.                           *)
LEMMA FindEntryIs ==
  ASSUME NEW es \in Seq(Entry), NEW k
  PROVE  /\ FindEntry(es, k) \in 0..Len(es)
         /\ FindEntry(es, k) = 0 => \A j \in 1..Len(es) : es[j].key # k
         /\ FindEntry(es, k) # 0 => FindEntry(es, k) \in 1..Len(es) /\ es[FindEntry(es, k)].key = k
<1> DEFINE I == {i \in 1..Len(es) : es[i].key = k}
<1>1. FindEntry(es, k) = IF I # {} THEN Min(I) ELSE 0
  BY DEF FindEntry, SelectInSeq
<1>2. I \in SUBSET Nat /\ I \subseteq 1..Len(es) /\ Len(es) \in Nat
  OBVIOUS
<1>3. I # {} => Min(I) \in I
  BY <1>2, MinOf
<1>4. \A i \in 1..Len(es) : i \in I <=> es[i].key = k
  OBVIOUS
<1> HIDE DEF I
<1>5. CASE I = {}
  <2>1. FindEntry(es, k) = 0
    BY <1>1, <1>5
  <2> QED
    BY <1>2, <1>4, <1>5, <2>1
<1>6. CASE I # {}
  <2>1. FindEntry(es, k) = Min(I) /\ Min(I) \in 1..Len(es) /\ Min(I) \in I
    BY <1>1, <1>2, <1>3, <1>6
  <2> QED
    BY <1>4, <2>1
<1> QED
  BY <1>5, <1>6

Named(c, s) == SelectInSeq(c.sections, LAMBDA x : x.name = s)

LEMMA NamedIs ==
  ASSUME NEW c \in Config, NEW s
  PROVE  /\ Named(c, s) \in 0..Len(c.sections)
         /\ Named(c, s) = 0 => \A j \in 1..Len(c.sections) : c.sections[j].name # s
         /\ Named(c, s) # 0 => Named(c, s) \in 1..Len(c.sections) /\ c.sections[Named(c, s)].name = s
<1> DEFINE t == c.sections
           I == {i \in 1..Len(t) : t[i].name = s}
<1>1. Named(c, s) = IF I # {} THEN Min(I) ELSE 0
  BY DEF Named, SelectInSeq
<1>0. Len(t) \in Nat
  BY ConfigTypes
<1> HIDE DEF t
<1>2. I \in SUBSET Nat /\ I \subseteq 1..Len(t)
  BY <1>0
<1>3. I # {} => Min(I) \in I
  BY <1>2, MinOf
<1>4. \A i \in 1..Len(t) : i \in I <=> t[i].name = s
  OBVIOUS
<1> HIDE DEF I
<1>5. CASE I = {}
  <2>1. Named(c, s) = 0
    BY <1>1, <1>5
  <2> QED
    BY <1>2, <1>4, <1>5, <2>1, <1>0 DEF t
<1>6. CASE I # {}
  <2>1. Named(c, s) = Min(I) /\ Min(I) \in 1..Len(t) /\ Min(I) \in I
    BY <1>1, <1>2, <1>3, <1>6
  <2> QED
    BY <1>4, <2>1 DEF t
<1> QED
  BY <1>5, <1>6

(* The cache changes nothing of what is found.                             *)
LEMMA FindSectionIs ==
  ASSUME NEW c, Sound(c), NEW s
  PROVE  FindSection(c, s) = Named(c, s) /\ Sound(Cached(c, s)) /\ Cached(c, s).sections = c.sections
<1>1. c \in Config /\ c.cached \in 0..Len(c.sections) /\ Len(c.sections) \in Nat
  BY ConfigTypes DEF Sound
<1>2. FindSection(c, s) = IF c.cached # 0 /\ c.sections[c.cached].name = s THEN c.cached ELSE Named(c, s)
  BY DEF FindSection, Named
<1>3. ASSUME c.cached # 0, c.sections[c.cached].name = s PROVE c.cached = Named(c, s)
  <2>1. c.cached \in 1..Len(c.sections)
    BY <1>1, <1>3
  <2>2. Named(c, s) # 0 /\ Named(c, s) \in 1..Len(c.sections) /\ c.sections[Named(c, s)].name = s
    BY <1>1, <1>3, <2>1, NamedIs
  <2> QED
    BY <1>3, <2>1, <2>2 DEF Sound
<1>4. FindSection(c, s) = Named(c, s)
  BY <1>2, <1>3
<1>5. Cached(c, s) \in Config /\ Cached(c, s).sections = c.sections /\ Cached(c, s).cached \in {c.cached, Named(c, s)}
  <2>1. CASE Named(c, s) = 0
    BY <1>1, <1>4, <2>1 DEF Cached
  <2>2. CASE Named(c, s) # 0
    <3> DEFINE n == Named(c, s)
               d == [c EXCEPT !.cached = n]
    <3>1. Cached(c, s) = d
      BY <1>4, <2>2 DEF Cached
    <3>2. n \in Nat
      BY <1>1, NamedIs
    <3> HIDE DEF n
    <3>3. d \in Config /\ d.sections = c.sections /\ d.cached = n
      BY <1>1, <3>2 DEF Config
    <3> QED
      BY <3>1, <3>3 DEF n
  <2> QED
    BY <2>1, <2>2
<1>6. Sound(Cached(c, s))
  <2>1. Named(c, s) \in 0..Len(c.sections)
    BY <1>1, NamedIs
  <2> QED
    BY <1>1, <1>5, <2>1 DEF Sound
<1> QED
  BY <1>4, <1>5, <1>6
-------------------------------------------------------------------------------
(* What an entry says, and what a configuration says.                      *)
Says(es, k, v) == \E j \in 1..Len(es) : es[j].key = k /\ es[j].value = v

Holds(c, s, k, v) ==
  \E i \in 1..Len(c.sections) : c.sections[i].name = s /\ Says(c.sections[i].entries, k, v)

(* add_entry() appends, or writes over the entry of that key.              *)
LEMMA AddEntryIs ==
  ASSUME NEW es \in Seq(Entry), NEW k \in STRING, NEW v \in Texts
  PROVE  /\ AddEntry(es, k, v) \in Seq(Entry)
         /\ (\A j \in 1..Len(es) : es[j].key # k) => AddEntry(es, k, v) = Append(es, [key |-> k, value |-> v])
         /\ Once(es) => /\ Once(AddEntry(es, k, v))
                        /\ \A l, w : Says(AddEntry(es, k, v), l, w) <=>
                                       IF l = k THEN w = v ELSE Says(es, l, w)
<1> DEFINE e == [key |-> k, value |-> v]
           n == FindEntry(es, k)
           t == AddEntry(es, k, v)
           N == Len(es)
<1>1. e \in Entry /\ e.key = k /\ e.value = v
  BY DEF Entry
<1>2. /\ N \in Nat /\ n \in 0..N
      /\ n = 0 => \A j \in 1..N : es[j].key # k
      /\ n # 0 => n \in 1..N /\ es[n].key = k
  BY FindEntryIs, EntryTypes
<1>3. t = IF n = 0 THEN Append(es, e) ELSE [es EXCEPT ![n].value = v]
  BY DEF AddEntry
<1> HIDE DEF e, n, t
<1>4. CASE n = 0
  <2>1. /\ t = Append(es, e) /\ t \in Seq(Entry) /\ Len(t) = N + 1 /\ t[N + 1] = e
        /\ \A j \in 1..N : t[j] = es[j]
    BY <1>1, <1>3, <1>4
  <2>2. \A j \in 1..N : es[j].key # k
    BY <1>2, <1>4
  <2> HIDE DEF N
  <2>3. \A j \in 1..N + 1 : j \in 1..N \/ j = N + 1
    BY <1>2
  <2>4. ASSUME Once(es) PROVE Once(t)
    <3>1. \A i, j \in 1..N : es[i].key = es[j].key => i = j
      BY <2>4 DEF Once, N
    <3>2. \A i, j \in 1..N + 1 : t[i].key = t[j].key => i = j
      BY <1>1, <2>1, <2>2, <2>3, <3>1
    <3> QED
      BY <2>1, <3>2 DEF Once
  <2>5. ASSUME NEW l, NEW w PROVE Says(t, l, w) <=> IF l = k THEN w = v ELSE Says(es, l, w)
    <3>1. Says(t, l, w) <=> (\E j \in 1..N : es[j].key = l /\ es[j].value = w) \/ (l = k /\ w = v)
      <4>1. N + 1 \in 1..N + 1 /\ \A j \in 1..N : j \in 1..N + 1
        BY <1>2
      <4> QED
        BY <1>1, <2>1, <2>3, <4>1 DEF Says
    <3>2. Says(es, l, w) <=> \E j \in 1..N : es[j].key = l /\ es[j].value = w
      BY DEF Says, N
    <3> QED
      BY <2>2, <3>1, <3>2
  <2> QED
    BY <2>1, <2>4, <2>5 DEF t, e
<1>5. CASE n # 0
  <2>0. n \in 1..N /\ es[n].key = k
    BY <1>2, <1>5
  <2>1. es[n] \in Entry /\ es[n] = [key |-> k, value |-> es[n].value]
    BY <2>0, EntryTypes
  <2>2. /\ Len(t) = N /\ t[n].key = k /\ t[n].value = v /\ t[n] = e
        /\ \A j \in 1..N : j # n => t[j] = es[j]
    <3>1. t = [es EXCEPT ![n] = [es[n] EXCEPT !.value = v]]
      BY <1>3, <1>5
    <3> DEFINE x == es[n]
               y == [x EXCEPT !.value = v]
    <3>2. y = e
      <4> HIDE DEF x
      <4>1. x \in Entry /\ x.key = k
        BY <2>0, <2>1 DEF x
      <4> QED
        BY <4>1 DEF e, Entry
    <3>3. t = [es EXCEPT ![n] = e]
      BY <3>1, <3>2
    <3>4. Len(t) = N /\ t[n] = e /\ \A j \in 1..N : j # n => t[j] = es[j]
      BY <1>1, <2>0, <3>3
    <3> QED
      BY <1>1, <3>4
  <2>3. t \in Seq(Entry)
    <3>1. t = [es EXCEPT ![n] = [es[n] EXCEPT !.value = v]]
      BY <1>3, <1>5
    <3>2. DOMAIN t = 1..N
      BY <3>1
    <3>3. t = [j \in 1..N |-> t[j]]
      BY <3>1, <3>2
    <3>4. \A j \in 1..N : t[j] \in Entry
      BY <1>1, <2>2, EntryTypes
    <3> QED
      BY <1>2, <3>3, <3>4
  <2>4. \A j \in 1..N : t[j].key = es[j].key /\ (j # n => t[j].value = es[j].value)
    BY <2>0, <2>2
  <2>5. ASSUME Once(es) PROVE Once(t)
    BY <2>2, <2>4, <2>5 DEF Once
  <2>6. ASSUME Once(es), NEW l, NEW w PROVE Says(t, l, w) <=> IF l = k THEN w = v ELSE Says(es, l, w)
    <3>1. \A j \in 1..N : es[j].key = k => j = n
      BY <2>0, <2>6 DEF Once
    <3> HIDE DEF N
    <3>2. Says(t, l, w) <=> \E j \in 1..N : t[j].key = l /\ t[j].value = w
      BY <2>2 DEF Says, N
    <3>3. Says(es, l, w) <=> \E j \in 1..N : es[j].key = l /\ es[j].value = w
      BY DEF Says, N
    <3>4. CASE l = k
      BY <2>0, <2>2, <2>4, <3>1, <3>2, <3>4
    <3>5. CASE l # k
      BY <2>0, <2>2, <2>4, <3>2, <3>3, <3>5
    <3> QED
      BY <3>4, <3>5
  <2> QED
    BY <2>0, <2>3, <2>5, <2>6 DEF t
<1> QED
  BY <1>4, <1>5

(* The entries of one section are others, and nothing else.                *)
Rewrites(d, c, i, es) ==
  /\ d \in Config /\ d.cached = c.cached /\ Len(d.sections) = Len(c.sections)
  /\ \A x \in 1..Len(c.sections) :
       /\ d.sections[x].name = c.sections[x].name
       /\ d.sections[x].entries = IF x = i THEN es ELSE c.sections[x].entries

LEMMA EntriesPut ==
  ASSUME NEW c \in Config, NEW i \in 1..Len(c.sections), NEW es \in Seq(Entry), NEW d,
         d = [c EXCEPT !.sections[i].entries = es]
  PROVE  Rewrites(d, c, i, es)
<1> DEFINE t == c.sections
           N == Len(t)
           x == [name |-> t[i].name, entries |-> es]
           u == [t EXCEPT ![i] = x]
<1>1. /\ t \in Seq(Section) /\ N \in Nat /\ c.cached \in Nat
      /\ c = [sections |-> t, cached |-> c.cached]
      /\ \A j \in 1..N : t[j] \in Section /\ t[j].name \in STRING
      /\ t[i] = [name |-> t[i].name, entries |-> t[i].entries]
  BY ConfigTypes
<1>2. x \in Section /\ x.name = t[i].name /\ x.entries = es
  BY <1>1 DEF Section
<1>3. [t[i] EXCEPT !.entries = es] = x
  <2> DEFINE y == t[i]
  <2>1. y \in Section
    BY <1>1
  <2> HIDE DEF y
  <2>2. [y EXCEPT !.entries = es] = [name |-> y.name, entries |-> es]
    BY <2>1 DEF Section
  <2> QED
    BY <2>2 DEF y
<1>4. d = [c EXCEPT !.sections = [t EXCEPT ![i] = [t[i] EXCEPT !.entries = es]]]
  OBVIOUS
<1>5. d = [c EXCEPT !.sections = u]
  BY <1>3, <1>4
<1> HIDE DEF x
<1>6. u \in Seq(Section) /\ Len(u) = N /\ u[i] = x /\ \A j \in 1..N : j # i => u[j] = t[j]
  BY <1>1, <1>2
<1> HIDE DEF u
<1>7. d = [sections |-> u, cached |-> c.cached]
  <2> HIDE DEF t
  <2> QED
    BY <1>1, <1>5
<1>8. d \in Config /\ d.sections = u /\ d.cached = c.cached
  <2>1. d.sections = u /\ d.cached = c.cached
    BY <1>7
  <2> QED
    BY <1>1, <1>6, <1>7, <2>1 DEF Config
<1> QED
  BY <1>2, <1>6, <1>8 DEF Rewrites

LEMMA RewritesSound ==
  ASSUME NEW c, Sound(c), NEW i \in 1..Len(c.sections), NEW es \in Seq(Entry), Once(es), NEW d,
         Rewrites(d, c, i, es)
  PROVE  /\ Sound(d)
         /\ \A s, k, v : Holds(d, s, k, v) <=> IF s = c.sections[i].name THEN Says(es, k, v) ELSE Holds(c, s, k, v)
<1>1. /\ d \in Config /\ d.cached = c.cached /\ Len(d.sections) = Len(c.sections)
      /\ \A x \in 1..Len(c.sections) :
           /\ d.sections[x].name = c.sections[x].name
           /\ d.sections[x].entries = IF x = i THEN es ELSE c.sections[x].entries
  BY DEF Rewrites
<1>2. Sound(d)
  BY <1>1 DEF Sound
<1>3. ASSUME NEW s, NEW k, NEW v
      PROVE  Holds(d, s, k, v) <=> IF s = c.sections[i].name THEN Says(es, k, v) ELSE Holds(c, s, k, v)
  <2> DEFINE N == Len(c.sections)
  <2>1. Holds(d, s, k, v) <=>
          \E x \in 1..N : c.sections[x].name = s /\ Says(IF x = i THEN es ELSE c.sections[x].entries, k, v)
    BY <1>1 DEF Holds
  <2>2. CASE s = c.sections[i].name
    <3>1. \A x \in 1..N : c.sections[x].name = s => x = i
      BY <2>2 DEF Sound
    <3> QED
      BY <2>1, <2>2, <3>1
  <2>3. CASE s # c.sections[i].name
    BY <2>1, <2>3 DEF Holds
  <2> QED
    BY <2>2, <2>3
<1> QED
  BY <1>2, <1>3

(* add_section() finds the section or appends an empty one.                *)
LEMMA AddSectionIs ==
  ASSUME NEW c, Sound(c), NEW s \in STRING
  PROVE  LET d == AddSection(c, s) IN
         /\ Sound(d) /\ Named(d, s) \in 1..Len(d.sections) /\ d.sections[Named(d, s)].name = s
         /\ \A k, l, v : Holds(d, l, k, v) <=> Holds(c, l, k, v)
         /\ (\A i \in 1..Len(c.sections) : c.sections[i].name # s) =>
              /\ d.sections = Append(c.sections, [name |-> s, entries |-> <<>>])
              /\ Named(d, s) = Len(c.sections) + 1
<1> DEFINE d == AddSection(c, s)
           t == c.sections
           N == Len(t)
           x == [name |-> s, entries |-> <<>>]
<1>1. /\ c \in Config /\ t \in Seq(Section) /\ N \in Nat /\ c.cached \in Nat /\ c.cached \in 0..N
      /\ c = [sections |-> t, cached |-> c.cached]
  BY ConfigTypes DEF Sound
<1>2. FindSection(c, s) = Named(c, s) /\ Sound(Cached(c, s)) /\ Cached(c, s).sections = t
  BY FindSectionIs
<1>3. /\ Named(c, s) \in 0..N
      /\ Named(c, s) = 0 => \A j \in 1..N : t[j].name # s
      /\ Named(c, s) # 0 => Named(c, s) \in 1..N /\ t[Named(c, s)].name = s
  BY <1>1, NamedIs
<1>4. CASE Named(c, s) # 0
  <2>1. d = Cached(c, s)
    BY <1>2, <1>4 DEF AddSection
  <2> HIDE DEF d
  <2>2. Sound(d) /\ d.sections = t
    BY <1>2, <2>1
  <2>3. Named(d, s) = Named(c, s)
    BY <2>2 DEF Named
  <2>4. \A k, l, v : Holds(d, l, k, v) <=> Holds(c, l, k, v)
    BY <2>2 DEF Holds
  <2> QED
    BY <1>3, <1>4, <2>2, <2>3, <2>4 DEF d
<1>5. CASE Named(c, s) = 0
  <2> DEFINE u == Append(t, x)
  <2>0. x \in Section /\ x.name = s /\ x.entries = <<>> /\ Len(<<>>) = 0
    BY DEF Section
  <2>1. d = [c EXCEPT !.sections = Append(@, x)]
    BY <1>2, <1>5 DEF AddSection
  <2>2. d = [c EXCEPT !.sections = u]
    BY <2>1
  <2> HIDE DEF d, x
  <2>3. u \in Seq(Section) /\ Len(u) = N + 1 /\ u[N + 1] = x /\ \A j \in 1..N : u[j] = t[j]
    BY <1>1, <2>0
  <2> HIDE DEF u
  <2>4. d = [sections |-> u, cached |-> c.cached]
    <3> HIDE DEF t
    <3> QED
      BY <1>1, <2>2
  <2>5. d \in Config /\ d.sections = u /\ d.cached = c.cached
    BY <1>1, <2>3, <2>4 DEF Config
  <2>6. \A j \in 1..N : t[j].name # s
    BY <1>3, <1>5
  <2>7. /\ \A i, j \in 1..N : t[i].name = t[j].name => i = j
        /\ \A i \in 1..N : Once(t[i].entries)
    BY DEF Sound
  <2>8. Sound(d)
    <3> HIDE DEF t, N
    <3>1. \A j \in 1..N + 1 : j \in 1..N \/ j = N + 1
      BY <1>1
    <3>2. \A i, j \in 1..N + 1 : u[i].name = u[j].name => i = j
      BY <2>0, <2>3, <2>6, <2>7, <3>1
    <3>3. Once(x.entries)
      BY <2>0 DEF Once
    <3>4. \A i \in 1..N + 1 : Once(u[i].entries)
      BY <2>3, <2>7, <3>1, <3>3
    <3>5. c.cached \in 0..N + 1
      BY <1>1
    <3> QED
      BY <2>3, <2>5, <3>2, <3>4, <3>5 DEF Sound
  <2>9. \A k, l, v : Holds(d, l, k, v) <=> Holds(c, l, k, v)
    <3> TAKE k, l, v
    <3>1. ~Says(x.entries, k, v)
      BY <2>0 DEF Says
    <3>2. Holds(c, l, k, v) <=> \E i \in 1..N : t[i].name = l /\ Says(t[i].entries, k, v)
      BY DEF Holds
    <3> HIDE DEF t, N
    <3>3. Holds(d, l, k, v) <=> \E i \in 1..N + 1 : u[i].name = l /\ Says(u[i].entries, k, v)
      BY <2>3, <2>5 DEF Holds
    <3>4. \A j \in 1..N + 1 : j \in 1..N \/ j = N + 1
      BY <1>1
    <3>5. \A j \in 1..N : j \in 1..N + 1
      BY <1>1
    <3> QED
      BY <2>3, <3>1, <3>2, <3>3, <3>4, <3>5
  <2>10. Named(d, s) = N + 1
    <3>1. \A j \in 1..Len(d.sections) : d.sections[j].name = s <=> j = N + 1
      <4> HIDE DEF t, N
      <4>1. \A j \in 1..N + 1 : j \in 1..N \/ j = N + 1
        BY <1>1
      <4> QED
        BY <1>1, <2>0, <2>3, <2>5, <2>6, <4>1
    <3>2. /\ Named(d, s) \in 0..Len(d.sections)
          /\ Named(d, s) = 0 => \A j \in 1..Len(d.sections) : d.sections[j].name # s
          /\ Named(d, s) # 0 => Named(d, s) \in 1..Len(d.sections) /\ d.sections[Named(d, s)].name = s
      BY <2>5, NamedIs
    <3>3. N + 1 \in 1..Len(d.sections)
      BY <1>1, <2>3, <2>5
    <3> QED
      BY <3>1, <3>2, <3>3
  <2>11. Named(d, s) \in 1..Len(d.sections) /\ d.sections[Named(d, s)].name = s
    BY <1>1, <2>0, <2>3, <2>5, <2>10
  <2> QED
    BY <2>5, <2>8, <2>9, <2>10, <2>11 DEF d, u, x
<1> QED
  BY <1>4, <1>5

LEMMA HoldsIn ==
  ASSUME NEW c, Sound(c), NEW i \in 1..Len(c.sections), NEW k, NEW v
  PROVE  Holds(c, c.sections[i].name, k, v) <=> Says(c.sections[i].entries, k, v)
<1>1. \A j \in 1..Len(c.sections) : c.sections[j].name = c.sections[i].name => j = i
  BY DEF Sound
<1> QED
  BY <1>1 DEF Holds

(* set() puts the value there and changes nothing else.                    *)
LEMMA SetIs ==
  ASSUME NEW c, Sound(c), NEW s \in STRING, NEW k \in STRING, NEW v \in Texts
  PROVE  /\ Sound(ConfigSet(c, s, k, v))
         /\ \A l, m, w : Holds(ConfigSet(c, s, k, v), l, m, w) <=>
                           IF l = s /\ m = k THEN w = v ELSE Holds(c, l, m, w)
<1> DEFINE d == AddSection(c, s)
           i == Named(d, s)
           es == d.sections[i].entries
           fs == AddEntry(es, k, v)
           g == ConfigSet(c, s, k, v)
<1>1. /\ Sound(d) /\ i \in 1..Len(d.sections) /\ d.sections[i].name = s
      /\ \A m, l, w : Holds(d, l, m, w) <=> Holds(c, l, m, w)
  BY AddSectionIs
<1>2. g = [d EXCEPT !.sections[i].entries = fs]
  BY DEF ConfigSet, Named
<1> HIDE DEF d, i, g
<1>3. d \in Config /\ es \in Seq(Entry) /\ Once(es)
  BY <1>1, ConfigTypes DEF Sound
<1>4. /\ fs \in Seq(Entry) /\ Once(fs)
      /\ \A l, w : Says(fs, l, w) <=> IF l = k THEN w = v ELSE Says(es, l, w)
  BY <1>3, AddEntryIs
<1> HIDE DEF fs
<1>5. Rewrites(g, d, i, fs)
  BY <1>1, <1>2, <1>3, <1>4, EntriesPut
<1>6. /\ Sound(g)
      /\ \A l, m, w : Holds(g, l, m, w) <=> IF l = d.sections[i].name THEN Says(fs, m, w) ELSE Holds(d, l, m, w)
  BY <1>1, <1>4, <1>5, RewritesSound
<1>7. \A m, w : Holds(d, s, m, w) <=> Says(es, m, w)
  BY <1>1, HoldsIn
<1>8. \A l, m, w : Holds(g, l, m, w) <=> IF l = s /\ m = k THEN w = v ELSE Holds(c, l, m, w)
  <2> HIDE DEF es
  <2> TAKE l, m, w
  <2>1. CASE l = s
    BY <1>1, <1>4, <1>6, <1>7, <2>1
  <2>2. CASE l # s
    BY <1>1, <1>6, <2>2
  <2> QED
    BY <2>1, <2>2
<1> QED
  BY <1>6, <1>8 DEF g

(* has and get() find what the configuration says.                         *)
LEMMA HasIs ==
  ASSUME NEW c, Sound(c), NEW s, NEW k
  PROVE  /\ c # NoConf
         /\ HasOption(c, s, k) <=> \E v : Holds(c, s, k, v)
         /\ \A v : Holds(c, s, k, v) => OptionAt(c, s, k) = v
         /\ HasOption(c, s, k) => OptionAt(c, s, k) \in Texts /\ Holds(c, s, k, OptionAt(c, s, k))
<1> DEFINE n == Named(c, s)
           es == c.sections[n].entries
           j == FindEntry(es, k)
<1>1. c \in Config /\ c # NoConf
  BY ResourceAssumption DEF Sound
<1>2. FindSection(c, s) = n
  BY FindSectionIs
<1>3. /\ n \in 0..Len(c.sections)
      /\ n = 0 => \A x \in 1..Len(c.sections) : c.sections[x].name # s
      /\ n # 0 => n \in 1..Len(c.sections) /\ c.sections[n].name = s
  BY <1>1, NamedIs
<1>4. HasOption(c, s, k) <=> n # 0 /\ j # 0
  BY <1>1, <1>2 DEF HasOption
<1>5. OptionAt(c, s, k) = es[j].value
  BY <1>2 DEF OptionAt
<1> HIDE DEF n
<1>6. CASE n = 0
  BY <1>1, <1>3, <1>4, <1>6 DEF Holds
<1>7. CASE n # 0
  <2>1. n \in 1..Len(c.sections) /\ c.sections[n].name = s /\ es \in Seq(Entry) /\ Once(es)
    BY <1>1, <1>3, <1>7, ConfigTypes DEF Sound
  <2>2. \A v : Holds(c, s, k, v) <=> Says(es, k, v)
    BY <2>1, HoldsIn
  <2>3. /\ j = 0 => \A x \in 1..Len(es) : es[x].key # k
        /\ j # 0 => j \in 1..Len(es) /\ es[j].key = k
    BY <2>1, FindEntryIs
  <2> HIDE DEF j
  <2>4. CASE j = 0
    BY <1>1, <1>4, <2>2, <2>3, <2>4 DEF Says
  <2>5. CASE j # 0
    <3>1. es[j].value \in Texts /\ Says(es, k, es[j].value)
      BY <2>1, <2>3, <2>5, EntryTypes DEF Says
    <3>2. \A v : Says(es, k, v) => v = es[j].value
      BY <2>1, <2>3, <2>5 DEF Says, Once
    <3> QED
      BY <1>1, <1>4, <1>5, <1>7, <2>2, <2>5, <3>1, <3>2
  <2> QED
    BY <2>4, <2>5
<1> QED
  BY <1>6, <1>7

(* What a configuration holds after it was asked for key k of section s:   *)
(* as a truth value this one is left in lower case.                        *)
HoldsThen(c, s, k, truth, l, m, w) ==
  IF truth /\ l = s /\ m = k THEN HasOption(c, s, k) /\ w = Lowered[OptionAt(c, s, k)]
                             ELSE Holds(c, l, m, w)

(* get() leaves just that, and a configuration that nothing is in twice.   *)
LEMMA GetIs ==
  ASSUME NEW c, Sound(c), NEW s \in STRING, NEW k \in STRING, NEW truth \in BOOLEAN
  PROVE  /\ Sound(ConfigGet(c, s, k, truth))
         /\ \A l, m, w : Holds(ConfigGet(c, s, k, truth), l, m, w) <=> HoldsThen(c, s, k, truth, l, m, w)
<1> DEFINE d == Cached(c, s)
           i == Named(c, s)
           es == c.sections[i].entries
           j == FindEntry(es, k)
           v == Lowered[OptionAt(c, s, k)]
           fs == AddEntry(es, k, v)
           g == ConfigGet(c, s, k, truth)
<1>1. FindSection(c, s) = i /\ Sound(d) /\ d.sections = c.sections
  BY FindSectionIs
<1>2. \A l, m, w : Holds(d, l, m, w) <=> Holds(c, l, m, w)
  BY <1>1 DEF Holds
<1>3. CASE ~(truth /\ HasOption(c, s, k))
  <2>1. g = d
    BY <1>3 DEF ConfigGet
  <2>2. ~HasOption(c, s, k) => \A w : ~Holds(c, s, k, w)
    BY HasIs
  <2> QED
    BY <1>1, <1>2, <1>3, <2>1, <2>2 DEF HoldsThen
<1>4. CASE truth /\ HasOption(c, s, k)
  <2>1. c \in Config /\ c # NoConf
    BY ResourceAssumption DEF Sound
  <2>2. i # 0 /\ j # 0 /\ OptionAt(c, s, k) = es[j].value
    BY <1>1, <1>4 DEF HasOption, OptionAt
  <2>3. i \in 1..Len(c.sections) /\ c.sections[i].name = s
    BY <2>1, <2>2, NamedIs
  <2>4. es \in Seq(Entry) /\ Once(es)
    BY <2>1, <2>3, ConfigTypes DEF Sound
  <2>5. OptionAt(c, s, k) \in Texts
    BY <1>4, HasIs
  <2>6. v \in Texts
    BY <2>5, ResourceAssumption
  <2>7. g = [d EXCEPT !.sections[i].entries[j].value = Lowered[@]]
    BY <1>1, <1>4 DEF ConfigGet
  <2>8. d.sections[i].entries[j].value = OptionAt(c, s, k)
    BY <1>1, <2>2
  <2> HIDE DEF d, g, i
  <2>9. g = [d EXCEPT !.sections[i].entries = [es EXCEPT ![j].value = v]]
    <3>1. g = [d EXCEPT !.sections[i].entries = [d.sections[i].entries EXCEPT ![j].value = Lowered[d.sections[i].entries[j].value]]]
      BY <2>7
    <3> QED
      BY <1>1, <2>8, <3>1
  <2>10. fs = [es EXCEPT ![j].value = v]
    BY <2>2 DEF AddEntry
  <2>11. /\ fs \in Seq(Entry) /\ Once(fs)
         /\ \A m, w : Says(fs, m, w) <=> IF m = k THEN w = v ELSE Says(es, m, w)
    <3> HIDE DEF es, v
    <3> QED
      BY <2>4, <2>6, AddEntryIs
  <2>12. g = [d EXCEPT !.sections[i].entries = fs]
    BY <2>9, <2>10
  <2> HIDE DEF fs, j, v
  <2>13. d \in Config /\ i \in 1..Len(d.sections)
    BY <1>1, <2>3 DEF Sound
  <2>14. Rewrites(g, d, i, fs)
    BY <2>11, <2>12, <2>13, EntriesPut
  <2>15. /\ Sound(g)
         /\ \A l, m, w : Holds(g, l, m, w) <=> IF l = d.sections[i].name THEN Says(fs, m, w) ELSE Holds(d, l, m, w)
    BY <1>1, <2>11, <2>13, <2>14, RewritesSound
  <2>16. \A m, w : Holds(c, s, m, w) <=> Says(es, m, w)
    BY <2>3, HoldsIn
  <2>17. ASSUME NEW l, NEW m, NEW w
         PROVE  Holds(g, l, m, w) <=> IF l = s /\ m = k THEN w = v ELSE Holds(c, l, m, w)
    <3> HIDE DEF es
    <3>1. CASE l = s
      BY <1>1, <2>3, <2>11, <2>15, <2>16, <3>1
    <3>2. CASE l # s
      BY <1>1, <1>2, <2>3, <2>15, <3>2
    <3> QED
      BY <3>1, <3>2
  <2> QED
    BY <1>4, <2>15, <2>17 DEF g, v, HoldsThen
<1> QED
  BY <1>3, <1>4
-------------------------------------------------------------------------------
(* What a configuration file is read into.                                 *)
Readings ==
  {r \in [config : Config, tsect : Nat, ok : BOOLEAN] :
     Sound(r.config) /\ r.tsect \in 0..Len(r.config.sections)}

LEMMA ReadingTypes ==
  ASSUME NEW r \in Readings
  PROVE  /\ Sound(r.config) /\ r.config \in Config /\ r.tsect \in Nat
         /\ r.tsect \in 0..Len(r.config.sections) /\ r.ok \in BOOLEAN
         /\ r = [config |-> r.config, tsect |-> r.tsect, ok |-> r.ok]
BY DEF Readings

LEMMA ConfigPut ==
  ASSUME NEW a, NEW n, NEW ok, NEW r, r = [config |-> a, tsect |-> n, ok |-> ok], NEW c, NEW x,
         x = [r EXCEPT !.config = c]
  PROVE  x = [config |-> c, tsect |-> n, ok |-> ok]
OBVIOUS

LEMMA SectionPut ==
  ASSUME NEW a, NEW n, NEW ok, NEW r, r = [config |-> a, tsect |-> n, ok |-> ok], NEW c, NEW m, NEW x,
         x = [r EXCEPT !.config = c, !.tsect = m]
  PROVE  x = [config |-> c, tsect |-> m, ok |-> ok]
OBVIOUS

LEMMA LineIs ==
  ASSUME NEW line \in Lines
  PROVE  \/ \E s \in STRING : line = SectionLine(s) /\ line.kind = "section" /\ line.name = s
         \/ \E k \in STRING, v \in Texts :
              line = EntryLine(k, v) /\ line.kind = "entry" /\ line.key = k /\ line.value = v
         \/ line.kind = "comment" \/ line.kind = "bad"
<1>1. CASE line \in [kind : {"section"}, name : STRING]
  BY <1>1 DEF SectionLine
<1>2. CASE line \in [kind : {"entry"}, key : STRING, value : Texts]
  BY <1>2 DEF EntryLine
<1>3. CASE line \in {Comment, Bad}
  BY <1>3 DEF Comment, Bad
<1> QED
  BY <1>1, <1>2, <1>3 DEF Lines

(* A section's line makes it the one that entries go to, an entry's line   *)
(* puts the entry there without spaces around its value.                   *)
LEMMA ReadSection ==
  ASSUME NEW r \in Readings, r.ok, NEW s \in STRING
  PROVE  LET c == AddSection(r.config, s) IN
         ReadLine(r, SectionLine(s)) = [config |-> c, tsect |-> Named(c, s), ok |-> TRUE]
<1> DEFINE c == AddSection(r.config, s)
           line == SectionLine(s)
<1>1. r = [config |-> r.config, tsect |-> r.tsect, ok |-> TRUE]
  BY ReadingTypes
<1>2. line.kind = "section" /\ line.name = s
  BY DEF SectionLine
<1> HIDE DEF line
<1>3. ReadLine(r, line) = [r EXCEPT !.config = c, !.tsect = Named(c, s)]
  BY <1>2 DEF ReadLine, Named
<1> HIDE DEF c
<1>4. ReadLine(r, line) = [config |-> c, tsect |-> Named(c, s), ok |-> TRUE]
  BY <1>1, <1>3, SectionPut
<1> QED
  BY <1>4 DEF c, line

LEMMA ReadEntry ==
  ASSUME NEW r \in Readings, r.ok, r.tsect # 0, NEW k \in STRING, NEW v \in Texts
  PROVE  LET es == r.config.sections[r.tsect].entries
             d  == ReadLine(r, EntryLine(k, v)).config
         IN  /\ ReadLine(r, EntryLine(k, v)) = [config |-> d, tsect |-> r.tsect, ok |-> TRUE]
             /\ Rewrites(d, r.config, r.tsect, AddEntry(es, k, Trimmed[v]))
             /\ es \in Seq(Entry) /\ Once(es) /\ Trimmed[v] \in Texts
<1> DEFINE c == r.config
           n == r.tsect
           es == c.sections[n].entries
           fs == AddEntry(es, k, Trimmed[v])
           line == EntryLine(k, v)
           d == [c EXCEPT !.sections[n].entries = fs]
<1>1. /\ r = [config |-> c, tsect |-> n, ok |-> TRUE] /\ Sound(c) /\ c \in Config
      /\ n \in 1..Len(c.sections)
  BY ReadingTypes, ConfigTypes
<1>2. line.kind = "entry" /\ line.key = k /\ line.value = v
  BY DEF EntryLine
<1>3. Trimmed[v] \in Texts
  BY ResourceAssumption
<1>4. es \in Seq(Entry) /\ Once(es)
  BY <1>1, ConfigTypes DEF Sound
<1>5. fs \in Seq(Entry)
  <2> HIDE DEF es
  <2> QED
    BY <1>3, <1>4, AddEntryIs
<1> HIDE DEF line
<1>6. ReadLine(r, line) = [r EXCEPT !.config.sections[r.tsect].entries = AddEntry(@, k, Trimmed[v])]
  BY <1>2 DEF ReadLine
<1>7. [r EXCEPT !.config.sections[r.tsect].entries = AddEntry(@, k, Trimmed[v])] = [r EXCEPT !.config = d]
  OBVIOUS
<1>8. Rewrites(d, c, n, fs)
  <2> HIDE DEF fs
  <2> QED
    BY <1>1, <1>5, EntriesPut
<1> HIDE DEF d, fs
<1>9. ReadLine(r, line) = [config |-> d, tsect |-> n, ok |-> TRUE]
  BY <1>1, <1>6, <1>7, ConfigPut
<1>10. ReadLine(r, line) = [config |-> d, tsect |-> n, ok |-> TRUE] /\ ReadLine(r, line).config = d
  BY <1>9
<1> QED
  BY <1>3, <1>4, <1>8, <1>10 DEF line, fs

(* Whatever is read, the configuration stays sound.                        *)
LEMMA ReadKeeps ==
  ASSUME NEW r \in Readings, NEW line \in Lines
  PROVE  ReadLine(r, line) \in Readings
<1>0. r.ok \in BOOLEAN
  BY ReadingTypes
<1>1. CASE ~r.ok \/ line.kind = "comment"
  BY <1>1 DEF ReadLine
<1>2. ASSUME r.ok, NEW s \in STRING, line = SectionLine(s) PROVE ReadLine(r, line) \in Readings
  <2> DEFINE c == AddSection(r.config, s)
  <2>1. ReadLine(r, line) = [config |-> c, tsect |-> Named(c, s), ok |-> TRUE]
    BY <1>2, ReadSection
  <2>2. Sound(c) /\ Named(c, s) \in 1..Len(c.sections) /\ c \in Config
    BY ReadingTypes, AddSectionIs DEF Sound
  <2> HIDE DEF c
  <2>3. Named(c, s) \in Nat /\ Named(c, s) \in 0..Len(c.sections)
    BY <2>2, ConfigTypes
  <2> QED
    BY <2>1, <2>2, <2>3 DEF Readings
<1>3. ASSUME r.ok, r.tsect # 0, NEW k \in STRING, NEW v \in Texts, line = EntryLine(k, v)
      PROVE ReadLine(r, line) \in Readings
  <2> DEFINE c == r.config
             n == r.tsect
             es == c.sections[n].entries
             fs == AddEntry(es, k, Trimmed[v])
             d == ReadLine(r, EntryLine(k, v)).config
  <2>1. /\ ReadLine(r, line) = [config |-> d, tsect |-> n, ok |-> TRUE]
        /\ Rewrites(d, c, n, fs) /\ es \in Seq(Entry) /\ Once(es) /\ Trimmed[v] \in Texts
    BY <1>3, ReadEntry
  <2> HIDE DEF d, es
  <2>2. fs \in Seq(Entry) /\ Once(fs)
    BY <2>1, AddEntryIs
  <2>3. Sound(c) /\ n \in 1..Len(c.sections) /\ n \in Nat
    BY <1>3, ReadingTypes, ConfigTypes
  <2> HIDE DEF fs, c, n
  <2>4. Sound(d) /\ d \in Config /\ Len(d.sections) = Len(c.sections)
    BY <2>1, <2>2, <2>3, RewritesSound DEF Rewrites
  <2>5. n \in 0..Len(d.sections)
    BY <2>3, <2>4
  <2> QED
    BY <2>1, <2>3, <2>4, <2>5 DEF Readings
<1>4. [r EXCEPT !.ok = FALSE] \in Readings
  BY DEF Readings
<1>6. ASSUME r.ok, line.kind = "bad" PROVE ReadLine(r, line) \in Readings
  BY <1>4, <1>6 DEF ReadLine
<1>7. ASSUME r.ok, line.kind = "entry", r.tsect = 0 PROVE ReadLine(r, line) \in Readings
  BY <1>4, <1>7 DEF ReadLine
<1>5. CASE r.ok /\ line.kind # "comment"
  <2>1. CASE \E s \in STRING : line = SectionLine(s)
    BY <1>2, <1>5, <2>1
  <2>2. CASE line.kind = "entry" /\ \E k \in STRING, v \in Texts : line = EntryLine(k, v)
    BY <1>3, <1>5, <1>7, <2>2
  <2>3. CASE line.kind = "bad"
    BY <1>5, <1>6, <2>3
  <2> QED
    BY <1>5, <2>1, <2>2, <2>3, LineIs
<1> QED
  BY <1>0, <1>1, <1>5

Start == [config |-> EmptyConf, tsect |-> 0, ok |-> TRUE]

LEMMA StartIs == Start \in Readings /\ Sound(EmptyConf) /\ \A s, k, v : ~Holds(EmptyConf, s, k, v)
<1>1. EmptyConf \in Config /\ Len(EmptyConf.sections) = 0 /\ EmptyConf.cached = 0
  BY DEF EmptyConf, Config
<1>2. Sound(EmptyConf) /\ \A s, k, v : ~Holds(EmptyConf, s, k, v)
  BY <1>1 DEF Sound, Holds
<1> QED
  BY <1>1, <1>2 DEF Start, Readings

(* The lines of a file, one after the other.                               *)
Reads(after, lines) ==
  after = [k \in 0..Len(lines) |-> IF k = 0 THEN Start ELSE ReadLine(after[k - 1], lines[k])]

LEMMA ReadingExists ==
  ASSUME NEW lines \in Seq(Lines)
  PROVE  \E after : Reads(after, lines)
<1> DEFINE n == Len(lines)
           g == [y \in (1..n) \X Readings |-> ReadLine(y[2], lines[y[1]])]
<1>1. n \in Nat /\ \A k \in 1..n : lines[k] \in Lines
  OBVIOUS
<1>2. g \in [(1..n) \X Readings -> Readings]
  BY <1>1, ReadKeeps
<1>3. \A k \in 1..n, r \in Readings : g[<<k, r>>] = ReadLine(r, lines[k])
  OBVIOUS
<1> HIDE DEF g, n
<1>4. PICK d \in [0..n -> Readings] : Iterates(d, Start, g, n)
  BY <1>1, <1>2, StartIs, Iterated
<1>5. d = [i \in 0..n |-> IF i = 0 THEN Start ELSE g[<<i, d[i - 1]>>]]
  BY <1>4 DEF Iterates
<1> DEFINE h == [k \in 0..n |-> IF k = 0 THEN Start ELSE ReadLine(d[k - 1], lines[k])]
<1>6. ASSUME NEW k \in 0..n PROVE d[k] = h[k]
  <2>1. CASE k = 0
    BY <1>5, <2>1
  <2>2. CASE k # 0
    <3>1. k \in 1..n /\ k - 1 \in 0..n
      BY <1>1, <2>2
    <3>2. d[k - 1] \in Readings
      BY <3>1
    <3>3. d[k] = g[<<k, d[k - 1]>>]
      BY <1>5, <2>2
    <3>4. g[<<k, d[k - 1]>>] = ReadLine(d[k - 1], lines[k])
      BY <1>3, <3>1, <3>2
    <3>5. h[k] = ReadLine(d[k - 1], lines[k])
      BY <2>2
    <3> QED
      BY <3>3, <3>4, <3>5
  <2> QED
    BY <2>1, <2>2
<1>7. h = [k \in 0..n |-> h[k]] /\ d = [k \in 0..n |-> d[k]]
  OBVIOUS
<1> HIDE DEF h
<1>8. d = h
  BY <1>6, <1>7
<1> QED
  BY <1>8 DEF h, n, Reads

LEMMA ReadingIs ==
  ASSUME NEW lines \in Seq(Lines)
  PROVE  /\ Reading(lines)[0] = Start
         /\ \A k \in 1..Len(lines) : Reading(lines)[k] = ReadLine(Reading(lines)[k - 1], lines[k])
         /\ \A k \in 0..Len(lines) : Reading(lines)[k] \in Readings
<1> DEFINE after == CHOOSE f : Reads(f, lines)
           P == {k \in 0..Len(lines) : after[k] \in Readings}
<1>0. Len(lines) \in Nat /\ \A k \in 1..Len(lines) : lines[k] \in Lines
  OBVIOUS
<1>1. Reading(lines) = after
  BY DEF Reading, Reads, Start
<1>2. Reads(after, lines)
  BY ReadingExists
<1> HIDE DEF after
<1>3. \A k \in 0..Len(lines) : after[k] = IF k = 0 THEN Start ELSE ReadLine(after[k - 1], lines[k])
  BY <1>2 DEF Reads
<1>4. after[0] = Start
  BY <1>0, <1>3
<1>5. \A k \in 1..Len(lines) : after[k] = ReadLine(after[k - 1], lines[k])
  BY <1>0, <1>3
<1>6. 0 \in P
  BY <1>0, <1>4, StartIs
<1>7. ASSUME NEW k \in 1..Len(lines), k - 1 \in P PROVE k \in P
  <2>1. after[k - 1] \in Readings /\ k \in 0..Len(lines)
    BY <1>0, <1>7
  <2>2. ReadLine(after[k - 1], lines[k]) \in Readings
    BY <1>0, <2>1, ReadKeeps
  <2> QED
    BY <1>5, <2>1, <2>2
<1>8. \A k \in 0..Len(lines) : k \in P
  <2> HIDE DEF P
  <2> QED
    BY <1>0, <1>6, <1>7, Stepwise
<1> QED
  BY <1>1, <1>4, <1>5, <1>8

(* What there may be on a disk.                                            *)
LEMMA WholeLinesAre ==
  ASSUME NEW f \in File
  PROVE  WholeLines(f) \in Seq(Lines)
<1>1. f.lines \in Seq(Lines)
  BY DEF File
<1>2. Front(f.lines) \in Seq(Lines)
  <2> DEFINE s == f.lines
  <2> HIDE DEF s
  <2>1. s \in Seq(Lines)
    BY <1>1 DEF s
  <2>2. Front(s) \in Seq(Lines)
    BY <2>1 DEF Front
  <2> QED
    BY <2>2 DEF s
<1> QED
  BY <1>1, <1>2 DEF WholeLines

(* What a file is loaded into is sound, or nothing.                        *)
LEMMA LoadIs ==
  ASSUME NEW f \in File \cup {NoFile}
  PROVE  LoadConfig(f) = NoConf \/ Sound(LoadConfig(f))
<1>1. CASE f = NoFile
  BY <1>1 DEF LoadConfig
<1>2. CASE f # NoFile
  <2> DEFINE lines == WholeLines(f)
             last == Reading(lines)[Len(lines)]
  <2>1. lines \in Seq(Lines) /\ Len(lines) \in 0..Len(lines)
    BY <1>2, WholeLinesAre
  <2>2. LoadConfig(f) = IF last.ok THEN last.config ELSE NoConf
    BY <1>2 DEF LoadConfig
  <2> HIDE DEF lines
  <2>3. last \in Readings
    BY <2>1, ReadingIs
  <2> QED
    BY <2>2, <2>3 DEF Readings
<1> QED
  BY <1>1, <1>2
-------------------------------------------------------------------------------
(* A sequence of sequences, put together one after the other.              *)
Flat(f, s) == f = [i \in 1..Len(s) |-> IF i = 1 THEN s[i] ELSE f[i - 1] \o s[i]]

Joins(d, s) == d[0] = <<>> /\ \A i \in 1..Len(s) : d[i] = d[i - 1] \o s[i]

LEMMA FlatExists ==
  ASSUME NEW S, NEW s \in Seq(Seq(S))
  PROVE  \E f : Flat(f, s)
<1> DEFINE n == Len(s)
           g == [y \in (1..n) \X Seq(S) |-> y[2] \o s[y[1]]]
<1>1. n \in Nat /\ (\A k \in 1..n : s[k] \in Seq(S)) /\ <<>> \in Seq(S)
  BY EmptySeq
<1>2. g \in [(1..n) \X Seq(S) -> Seq(S)]
  BY <1>1, Places
<1>3. \A k \in 1..n, r \in Seq(S) : g[<<k, r>>] = r \o s[k]
  OBVIOUS
<1> HIDE DEF g, n
<1>4. PICK d \in [0..n -> Seq(S)] : Iterates(d, <<>>, g, n)
  BY <1>1, <1>2, Iterated
<1>5. d = [i \in 0..n |-> IF i = 0 THEN <<>> ELSE g[<<i, d[i - 1]>>]]
  BY <1>4 DEF Iterates
<1>6. d[0] = <<>>
  BY <1>1, <1>5
<1>7. ASSUME NEW k \in 1..n PROVE d[k] = d[k - 1] \o s[k]
  <2>1. k \in 0..n /\ k # 0 /\ k - 1 \in 0..n
    BY <1>1
  <2>2. d[k - 1] \in Seq(S)
    BY <2>1
  <2>3. d[k] = g[<<k, d[k - 1]>>]
    BY <1>5, <2>1
  <2>4. g[<<k, d[k - 1]>>] = d[k - 1] \o s[k]
    BY <1>3, <2>2
  <2> QED
    BY <2>3, <2>4
<1> DEFINE f == [i \in 1..n |-> d[i]]
           h == [i \in 1..n |-> IF i = 1 THEN s[i] ELSE f[i - 1] \o s[i]]
<1>8. ASSUME NEW k \in 1..n PROVE f[k] = h[k]
  <2>1. CASE k = 1
    <3>0. 1 \in 1..n /\ 1 - 1 = 0
      BY <2>1
    <3>1. d[1] = <<>> \o s[1] /\ s[1] \in Seq(S)
      BY <1>1, <1>6, <1>7, <3>0
    <3>2. <<>> \o s[1] = s[1]
      BY <3>1, ConcatEmptySeq
    <3> QED
      BY <2>1, <3>1, <3>2
  <2>2. CASE k # 1
    <3>1. k - 1 \in 1..n
      BY <1>1, <2>2
    <3>2. f[k - 1] = d[k - 1] /\ f[k] = d[k]
      BY <3>1
    <3> QED
      BY <1>7, <2>2, <3>2
  <2> QED
    BY <2>1, <2>2
<1>9. h = [k \in 1..n |-> h[k]] /\ f = [k \in 1..n |-> f[k]]
  OBVIOUS
<1> HIDE DEF f, h
<1>10. f = h
  BY <1>8, <1>9
<1> QED
  BY <1>10 DEF h, n, Flat

LEMMA FlattenIs ==
  ASSUME NEW S, NEW s \in Seq(Seq(S))
  PROVE  \E d \in [0..Len(s) -> Seq(S)] : Joins(d, s) /\ FlattenSeq(s) = d[Len(s)]
<1> DEFINE f == CHOOSE g : Flat(g, s)
           n == Len(s)
           d == [i \in 0..n |-> IF i = 0 THEN <<>> ELSE f[i]]
           P == {k \in 0..n : d[k] \in Seq(S)}
<1>1. n \in Nat /\ (\A k \in 1..n : s[k] \in Seq(S)) /\ <<>> \in Seq(S)
  BY EmptySeq
<1>2. n # 0 => FlattenSeq(s) = f[n]
  BY DEF FlattenSeq, Flat
<1>3. n = 0 => FlattenSeq(s) = <<>>
  BY DEF FlattenSeq
<1>4. Flat(f, s)
  BY FlatExists
<1> HIDE DEF f
<1>5. \A k \in 1..n : f[k] = IF k = 1 THEN s[k] ELSE f[k - 1] \o s[k]
  BY <1>4 DEF Flat
<1> HIDE DEF n
<1>6. d[0] = <<>> /\ \A k \in 1..n : d[k] = f[k]
  BY <1>1
<1>7. ASSUME NEW k \in 1..n, d[k - 1] \in Seq(S) PROVE d[k] = d[k - 1] \o s[k] /\ d[k] \in Seq(S)
  <2>0. s[k] \in Seq(S) /\ d[k] = f[k]
    BY <1>1, <1>6
  <2> HIDE DEF d
  <2>1. CASE k = 1
    <3>1. d[k] = s[k] /\ d[k - 1] = <<>>
      BY <1>5, <1>6, <2>0, <2>1
    <3>2. <<>> \o s[k] = s[k]
      BY <2>0, ConcatEmptySeq
    <3> QED
      BY <2>0, <3>1, <3>2
  <2>2. CASE k # 1
    <3>1. k - 1 \in 1..n
      BY <1>1, <2>2
    <3>2. d[k] = d[k - 1] \o s[k]
      BY <1>5, <1>6, <2>0, <2>2, <3>1
    <3> QED
      BY <1>7, <2>0, <3>2, Places
  <2> QED
    BY <2>1, <2>2
<1>8. \A k \in 0..n : k \in P
  <2>1. 0 \in P
    BY <1>1, <1>6
  <2>2. ASSUME NEW k \in 1..n, k - 1 \in P PROVE k \in P
    <3>1. d[k - 1] \in Seq(S) /\ k \in 0..n
      BY <1>1, <2>2
    <3> HIDE DEF d
    <3> QED
      BY <1>7, <3>1
  <2> HIDE DEF P
  <2> QED
    BY <1>1, <2>1, <2>2, Stepwise
<1>9. \A k \in 0..n : d[k] \in Seq(S)
  BY <1>8
<1>10. d \in [0..n -> Seq(S)]
  BY <1>9
<1> HIDE DEF d
<1>11. \A k \in 1..n : k - 1 \in 0..n
  BY <1>1
<1>12. Joins(d, s)
  <2>1. \A k \in 1..n : d[k] = d[k - 1] \o s[k]
    BY <1>7, <1>9, <1>11
  <2> QED
    BY <1>6, <2>1 DEF Joins, n
<1>13. FlattenSeq(s) = d[n]
  <2>1. CASE n = 0
    BY <1>3, <1>6, <2>1
  <2>2. CASE n # 0
    <3>1. n \in 1..n
      BY <1>1, <2>2
    <3> QED
      BY <1>2, <1>6, <2>2, <3>1
  <2> QED
    BY <2>1, <2>2
<1> QED
  BY <1>10, <1>12, <1>13 DEF n

(* What save() writes of one section.                                      *)
LEMMA SectionLinesAre ==
  ASSUME NEW c \in Config, NEW i \in 1..Len(c.sections)
  PROVE  LET es == c.sections[i].entries
             t  == SectionLines(c, i)
         IN  /\ t \in Seq(Lines) /\ Len(es) \in Nat
             /\ Len(t) = 1 + Len(es) + (IF i = Len(c.sections) THEN 0 ELSE 1)
             /\ t[1] = SectionLine(c.sections[i].name)
             /\ \A j \in 1..Len(es) : t[1 + j] = EntryLine(es[j].key, es[j].value)
             /\ i # Len(c.sections) => t[2 + Len(es)] = Comment
<1> DEFINE es == c.sections[i].entries
           a == <<SectionLine(c.sections[i].name)>>
           b == [j \in DOMAIN es |-> EntryLine(es[j].key, es[j].value)]
           e == IF i = Len(c.sections) THEN <<>> ELSE <<Comment>>
           t == SectionLines(c, i)
<1>1. es \in Seq(Entry) /\ c.sections[i].name \in STRING
  BY ConfigTypes
<1>2. Len(es) \in Nat /\ \A j \in 1..Len(es) : es[j].key \in STRING /\ es[j].value \in Texts
  BY <1>1, EntryTypes
<1>3. Comment \in Lines /\ (\A s \in STRING : SectionLine(s) \in Lines)
      /\ (\A k \in STRING, v \in Texts : EntryLine(k, v) \in Lines)
  BY DEF Lines, SectionLine, EntryLine
<1>4. a \in Seq(Lines) /\ Len(a) = 1 /\ a[1] = SectionLine(c.sections[i].name)
  <2> DEFINE x == SectionLine(c.sections[i].name)
  <2>1. x \in Lines
    BY <1>1, <1>3
  <2> HIDE DEF x
  <2>2. <<x>> \in Seq(Lines) /\ Len(<<x>>) = 1 /\ <<x>>[1] = x
    BY <2>1
  <2> QED
    BY <2>2 DEF x
<1>5. b \in Seq(Lines) /\ Len(b) = Len(es) /\ \A j \in 1..Len(es) : b[j] = EntryLine(es[j].key, es[j].value)
  <2> HIDE DEF es
  <2>1. DOMAIN es = 1..Len(es)
    BY <1>1
  <2>2. \A j \in 1..Len(es) : EntryLine(es[j].key, es[j].value) \in Lines
    BY <1>2, <1>3
  <2> QED
    BY <1>2, <2>1, <2>2
<1>6. /\ e \in Seq(Lines) /\ Len(e) = (IF i = Len(c.sections) THEN 0 ELSE 1)
      /\ i # Len(c.sections) => e[1] = Comment
  BY <1>3
<1>7. t = (a \o b) \o e \/ t = a \o (b \o e)
  BY DEF SectionLines
<1> HIDE DEF a, b, e, t, es
<1>8. t = (a \o b) \o e
  <2>1. (a \o b) \o e = a \o (b \o e)
    <3>1. a \in Seq(Lines) /\ b \in Seq(Lines) /\ e \in Seq(Lines)
      BY <1>4, <1>5, <1>6
    <3> QED
      BY ONLY <3>1, ConcatAssociative
  <2> QED
    BY <1>7, <2>1
<1> DEFINE u == a \o b
<1>9. /\ u \in Seq(Lines) /\ Len(u) = 1 + Len(es) /\ u[1] = a[1]
      /\ \A j \in 1..Len(es) : u[1 + j] = b[j]
  <2>1. /\ u \in Seq(Lines) /\ Len(u) = Len(a) + Len(b)
        /\ \A k \in 1..Len(a) : u[k] = a[k]
        /\ \A k \in 1..Len(b) : u[Len(a) + k] = b[k]
    <3>1. a \in Seq(Lines) /\ b \in Seq(Lines)
      BY <1>4, <1>5
    <3> QED
      BY <3>1, Places
  <2> QED
    BY <1>4, <1>5, <2>1
<1> HIDE DEF u
<1>10. /\ t \in Seq(Lines) /\ Len(t) = Len(u) + Len(e)
       /\ \A k \in 1..Len(u) : t[k] = u[k]
       /\ \A k \in 1..Len(e) : t[Len(u) + k] = e[k]
  <2>1. u \in Seq(Lines) /\ e \in Seq(Lines)
    BY <1>6, <1>9
  <2>2. t = u \o e
    BY <1>8 DEF u
  <2> QED
    BY <2>1, <2>2, Places
<1>11. Len(t) = 1 + Len(es) + (IF i = Len(c.sections) THEN 0 ELSE 1)
  BY <1>6, <1>9, <1>10
<1>12. t[1] = SectionLine(c.sections[i].name)
  <2>1. 1 \in 1..Len(u)
    BY <1>2, <1>9
  <2> QED
    BY <1>4, <1>9, <1>10, <2>1
<1>13. ASSUME NEW j \in 1..Len(es) PROVE t[1 + j] = EntryLine(es[j].key, es[j].value)
  <2>1. 1 + j \in 1..Len(u)
    BY <1>2, <1>9
  <2> QED
    BY <1>5, <1>9, <1>10, <2>1
<1>14. ASSUME i # Len(c.sections) PROVE t[2 + Len(es)] = Comment
  <2>1. 1 \in 1..Len(e) /\ Len(u) + 1 = 2 + Len(es)
    BY <1>2, <1>6, <1>9, <1>14
  <2> QED
    BY <1>6, <1>10, <1>14, <2>1
<1> QED
  BY <1>2, <1>10, <1>11, <1>12, <1>13, <1>14 DEF es, t

Written(c) == [i \in DOMAIN c.sections |-> SectionLines(c, i)]

LEMMA WrittenIs ==
  ASSUME NEW c \in Config
  PROVE  /\ Written(c) \in Seq(Seq(Lines)) /\ Len(Written(c)) = Len(c.sections)
         /\ \A i \in 1..Len(c.sections) : Written(c)[i] = SectionLines(c, i)
         /\ WrittenLines(c) = FlattenSeq(Written(c)) /\ WrittenLines(c) \in Seq(Lines)
<1>1. Len(c.sections) \in Nat /\ DOMAIN c.sections = 1..Len(c.sections)
  BY ConfigTypes
<1>2. \A i \in 1..Len(c.sections) : SectionLines(c, i) \in Seq(Lines)
  BY SectionLinesAre
<1>3. /\ Written(c) \in Seq(Seq(Lines)) /\ Len(Written(c)) = Len(c.sections)
      /\ \A i \in 1..Len(c.sections) : Written(c)[i] = SectionLines(c, i)
  BY <1>1, <1>2 DEF Written
<1>4. WrittenLines(c) = FlattenSeq(Written(c))
  BY DEF WrittenLines, Written
<1>5. Len(Written(c)) \in 0..Len(Written(c))
  BY <1>1, <1>3
<1>6. FlattenSeq(Written(c)) \in Seq(Lines)
  BY <1>3, <1>5, FlattenIs
<1> QED
  BY <1>3, <1>4, <1>6

LEMMA CutOffIs ==
  ASSUME NEW lines \in Seq(Lines), NEW f \in CutOff(lines) \cup {[lines |-> lines, ended |-> TRUE]}
  PROVE  f \in File
<1>1. [lines |-> lines, ended |-> TRUE] \in File
  BY DEF File
<1>2. ASSUME NEW n \in 0..Len(lines) PROVE [lines |-> SubSeq(lines, 1, n), ended |-> TRUE] \in File
  BY Divided DEF File
<1>3. ASSUME NEW n \in DOMAIN lines PROVE [lines |-> SubSeq(lines, 1, n - 1) \o <<Bad>>, ended |-> FALSE] \in File
  <2>1. n - 1 \in 0..Len(lines)
    OBVIOUS
  <2>2. SubSeq(lines, 1, n - 1) \in Seq(Lines) /\ <<Bad>> \in Seq(Lines)
    BY <2>1, Divided DEF Lines
  <2>3. SubSeq(lines, 1, n - 1) \o <<Bad>> \in Seq(Lines)
    BY <2>2, Places
  <2> QED
    BY <2>3 DEF File
<1> QED
  BY <1>1, <1>2, <1>3 DEF CutOff
-------------------------------------------------------------------------------
(* What the programs have and what is on the disk, at every time.          *)
Confs == {c \in Config : Sound(c)} \cup {NoConf}

Pairs == [user : Confs, sys : Confs]

(* What save() may leave of a configuration in a temporary file.           *)
Leaves(c, cut) ==
  {[lines |-> WrittenLines(c), ended |-> TRUE]} \cup (IF cut THEN CutOff(WrittenLines(c)) ELSE {})

(* Nothing happens to a configuration between two steps of its save().     *)
Saves(p) ==
  /\ saving[p] # "no" => conf[p].user # NoConf
  /\ saving[p] = "rename" => temp[p] \in Leaves(conf[p].user, full)

ResourceInv ==
  /\ edits \in 0..MaxEdits
  /\ saving \in [Apps -> {"no", "write", "rename"}]
  /\ conf \in [Apps -> Pairs]
  /\ file \in File \cup {NoFile} /\ sysFile \in File \cup {NoFile}
  /\ temp \in [Apps -> File \cup {NoFile}]
  /\ \A p \in Apps : Saves(p)

LEMMA ConfIs ==
  /\ \A c : Sound(c) => c \in Confs /\ c # NoConf
  /\ \A c \in Confs : c # NoConf => Sound(c)
  /\ NoConf \in Confs
  /\ \A f \in File \cup {NoFile} : LoadConfig(f) \in Confs
<1>1. \A c : Sound(c) => c \in Confs /\ c # NoConf
  BY ResourceAssumption DEF Confs, Sound
<1>2. (\A c \in Confs : c # NoConf => Sound(c)) /\ NoConf \in Confs
  BY DEF Confs
<1> QED
  BY <1>1, <1>2, LoadIs

LEMMA PairIs ==
  ASSUME ResourceInv, NEW p \in Apps
  PROVE  /\ conf[p] \in Pairs /\ conf[p].user \in Confs /\ conf[p].sys \in Confs
         /\ conf[p]["user"] = conf[p].user /\ conf[p]["sys"] = conf[p].sys
         /\ conf[p] = [user |-> conf[p].user, sys |-> conf[p].sys]
<1>1. conf[p] \in Pairs
  BY DEF ResourceInv
<1> QED
  BY <1>1 DEF Pairs

LEMMA OptionIs ==
  ASSUME NEW o \in Options
  PROVE  o[1] \in STRING /\ o[2] \in STRING /\ o = <<o[1], o[2]>>
BY ResourceAssumption

(* set() and get() leave sound configurations.                             *)
LEMMA SetKeeps ==
  ASSUME NEW c \in Confs, NEW o \in Options, NEW v \in Given
  PROVE  /\ Sound(IF c = NoConf THEN EmptyConf ELSE c)
         /\ Sound(ConfigSet(IF c = NoConf THEN EmptyConf ELSE c, o[1], o[2], v))
<1> DEFINE d == IF c = NoConf THEN EmptyConf ELSE c
<1>1. Sound(d)
  BY ConfIs, StartIs
<1>2. v \in Texts /\ o[1] \in STRING /\ o[2] \in STRING
  BY OptionIs, ResourceAssumption
<1> HIDE DEF d
<1>3. Sound(ConfigSet(d, o[1], o[2], v))
  BY <1>1, <1>2, SetIs
<1> QED
  BY <1>1, <1>3 DEF d

LEMMA ConfPut ==
  ASSUME ResourceInv, NEW p \in Apps, NEW x \in Pairs, conf' = [conf EXCEPT ![p] = x]
  PROVE  conf' \in [Apps -> Pairs]
BY DEF ResourceInv

(* One program's step leaves the others alone.                             *)
Alone(p) ==
  /\ UNCHANGED full
  /\ \A q \in Apps : q # p => conf'[q] = conf[q] /\ saving'[q] = saving[q] /\ temp'[q] = temp[q]

LEMMA SavesStay ==
  ASSUME ResourceInv, NEW p \in Apps, Alone(p), Saves(p)'
  PROVE  \A q \in Apps : Saves(q)'
<1>1. ASSUME NEW q \in Apps, q # p PROVE Saves(q)'
  <2>1. Saves(q) /\ full' = full /\ conf'[q] = conf[q] /\ saving'[q] = saving[q] /\ temp'[q] = temp[q]
    BY <1>1 DEF ResourceInv, Alone
  <2> QED
    BY <2>1 DEF Saves, Leaves
<1> QED
  BY <1>1

LEMMA ResourceInvInit ==
  ASSUME ResourceInit
  PROVE  ResourceInv
<1>1. NoConf \in Confs
  BY ConfIs
<1>2. conf \in [Apps -> Pairs]
  BY <1>1 DEF ResourceInit, Pairs
<1>3. edits \in 0..MaxEdits
  BY ResourceAssumption DEF ResourceInit
<1> QED
  BY <1>2, <1>3, ResourceAssumption DEF ResourceInit, ResourceInv, Saves

LEMMA LoadKeeps ==
  ASSUME ResourceInv, NEW p \in Apps, ResourceLoad(p) \/ ResourceClear(p) \/ AppCrash(p)
  PROVE  ResourceInv'
<1>1. /\ LoadConfig(file) \in Confs /\ LoadConfig(sysFile) \in Confs /\ NoConf \in Confs
  BY ConfIs DEF ResourceInv
<1>2. \E x \in Pairs : conf' = [conf EXCEPT ![p] = x]
  <2>1. [user |-> NoConf, sys |-> NoConf] \in Pairs
    BY <1>1 DEF Pairs
  <2>2. [user |-> LoadConfig(file), sys |-> LoadConfig(sysFile)] \in Pairs
    BY <1>1 DEF Pairs
  <2> QED
    BY <2>1, <2>2 DEF ResourceLoad, ResourceClear, AppCrash
<1>3. conf' \in [Apps -> Pairs]
  BY <1>2, ConfPut
<1>4. saving' \in [Apps -> {"no", "write", "rename"}] /\ temp' \in [Apps -> File \cup {NoFile}]
  BY DEF ResourceInv, ResourceLoad, ResourceClear, AppCrash
<1>5. saving'[p] = "no" /\ Alone(p)
  BY DEF ResourceInv, ResourceLoad, ResourceClear, AppCrash, Alone
<1>6. \A q \in Apps : Saves(q)'
  BY <1>5, SavesStay DEF Saves
<1> QED
  BY <1>3, <1>4, <1>6 DEF ResourceInv, ResourceLoad, ResourceClear, AppCrash

LEMMA SetStep ==
  ASSUME ResourceInv, NEW p \in Apps, NEW o \in Options, NEW v \in Given, ResourceSet(p, o[1], o[2], v)
  PROVE  ResourceInv'
<1> DEFINE c == IF conf[p].user = NoConf THEN EmptyConf ELSE conf[p].user
           d == ConfigSet(c, o[1], o[2], v)
<1>1. conf' = [conf EXCEPT ![p].user = d]
  BY DEF ResourceSet
<1>2. d \in Confs
  BY PairIs, SetKeeps, ConfIs
<1> HIDE DEF d
<1>3. [conf[p] EXCEPT !.user = d] \in Pairs
  <2> DEFINE y == conf[p]
  <2>1. y \in Pairs
    BY PairIs
  <2> HIDE DEF y
  <2>2. [y EXCEPT !.user = d] \in Pairs
    BY <1>2, <2>1 DEF Pairs
  <2> QED
    BY <2>2 DEF y
<1>4. conf' = [conf EXCEPT ![p] = [conf[p] EXCEPT !.user = d]]
  BY <1>1
<1>5. conf' \in [Apps -> Pairs]
  BY <1>3, <1>4, ConfPut
<1>6. saving'[p] = "no" /\ Alone(p)
  BY <1>4 DEF ResourceInv, ResourceSet, Alone
<1>7. \A q \in Apps : Saves(q)'
  BY <1>6, SavesStay DEF Saves
<1> QED
  BY <1>5, <1>7 DEF ResourceInv, ResourceSet

LEMMA GetStep ==
  ASSUME ResourceInv, NEW p \in Apps, NEW o \in Options, NEW rt \in DOMAIN Asks, NEW truth \in BOOLEAN,
         ResourceGet(p, o[1], o[2], rt, truth)
  PROVE  ResourceInv'
<1> DEFINE Got(w) == IF w \in Asked(p, o[1], o[2], rt) THEN ConfigGet(conf[p][w], o[1], o[2], truth)
                                                       ELSE conf[p][w]
           x == [user |-> Got("user"), sys |-> Got("sys")]
<1>1. conf' = [conf EXCEPT ![p] = x]
  BY DEF ResourceGet
<1>2. ASSUME NEW w \in {"user", "sys"} PROVE Got(w) \in Confs
  <2>1. conf[p][w] \in Confs
    BY PairIs
  <2>2. w \in Asked(p, o[1], o[2], rt) => conf[p][w] # NoConf
    BY DEF Asked
  <2>3. w \in Asked(p, o[1], o[2], rt) => Sound(ConfigGet(conf[p][w], o[1], o[2], truth))
    BY <2>1, <2>2, ConfIs, OptionIs, GetIs
  <2> QED
    BY <2>1, <2>3, ConfIs
<1>3. x \in Pairs
  <2> HIDE DEF Got
  <2> QED
    BY <1>2 DEF Pairs
<1> HIDE DEF x
<1>4. conf' \in [Apps -> Pairs]
  BY <1>1, <1>3, ConfPut
<1>5. saving'[p] = "no" /\ Alone(p)
  BY <1>1 DEF ResourceInv, ResourceGet, Alone
<1>6. \A q \in Apps : Saves(q)'
  BY <1>5, SavesStay DEF Saves
<1> QED
  BY <1>4, <1>6 DEF ResourceInv, ResourceGet

LEMMA SaveStep ==
  ASSUME ResourceInv, NEW p \in Apps, SaveCreate(p) \/ SaveWrite(p) \/ SaveRename(p)
  PROVE  ResourceInv'
<1>0. Alone(p)
  BY DEF Alone, ResourceInv, SaveCreate, SaveWrite, SaveRename
<1>1. CASE SaveCreate(p)
  <2>1. Saves(p)'
    BY <1>1 DEF SaveCreate, ResourceInv, Saves
  <2>2. \A q \in Apps : Saves(q)'
    BY <1>0, <2>1, SavesStay
  <2> QED
    BY <1>1, <2>2 DEF SaveCreate, ResourceInv
<1>2. CASE SaveRename(p)
  <2>1. Saves(p)'
    BY <1>2 DEF SaveRename, ResourceInv, Saves
  <2>2. \A q \in Apps : Saves(q)'
    BY <1>0, <2>1, SavesStay
  <2>3. file' \in File \cup {NoFile}
    BY <1>2 DEF SaveRename, ResourceInv
  <2> QED
    BY <1>2, <2>2, <2>3 DEF SaveRename, ResourceInv
<1>3. CASE SaveWrite(p)
  <2> DEFINE lines == WrittenLines(conf[p].user)
  <2>0. conf[p].user # NoConf
    BY <1>3 DEF ResourceInv, Saves, SaveWrite
  <2>1. lines \in Seq(Lines)
    BY <2>0, PairIs, ConfIs, WrittenIs DEF Sound
  <2>2. PICK f \in Leaves(conf[p].user, full) : temp' = [temp EXCEPT ![p] = f]
    BY <1>3 DEF SaveWrite, Leaves
  <2>3. f \in File
    <3>1. f \in CutOff(lines) \cup {[lines |-> lines, ended |-> TRUE]}
      BY <2>2 DEF Leaves
    <3> HIDE DEF lines
    <3> QED
      BY <2>1, <3>1, CutOffIs
  <2>4. Saves(p)'
    <3>1. temp'[p] = f /\ conf' = conf /\ full' = full
      BY <1>3, <2>2 DEF SaveWrite, ResourceInv
    <3> QED
      BY <2>0, <2>2, <3>1 DEF Saves, Leaves
  <2>5. \A q \in Apps : Saves(q)'
    BY <1>0, <2>4, SavesStay
  <2> QED
    BY <1>3, <2>2, <2>3, <2>5 DEF ResourceInv, SaveWrite
<1> QED
  BY <1>1, <1>2, <1>3

LEMMA ResourceInvStep ==
  ASSUME ResourceInv, [ResourceNext]_resourceVars
  PROVE  ResourceInv'
<1>1. CASE Edit
  <2>1. \A p \in Apps : Saves(p)'
    BY <1>1 DEF Edit, ResourceInv, Saves, Leaves
  <2>2. file' \in File \cup {NoFile} /\ edits' \in 0..MaxEdits
    BY <1>1, ResourceAssumption DEF Edit, ResourceInv
  <2> QED
    BY <1>1, <2>1, <2>2 DEF Edit, ResourceInv
<1>2. CASE UNCHANGED resourceVars
  <2>1. \A p \in Apps : Saves(p)'
    BY <1>2 DEF resourceVars, ResourceInv, Saves, Leaves
  <2> QED
    BY <1>2, <2>1 DEF resourceVars, ResourceInv
<1>3. CASE ResourceStep
  BY <1>1, <1>3, LoadKeeps, SetStep, GetStep, SaveStep DEF ResourceStep
<1> QED
  BY <1>2, <1>3 DEF ResourceNext

LEMMA ResourceInvType ==
  ASSUME ResourceInv
  PROVE  ResourceTypeOK
<1>1. ASSUME NEW p \in Apps, NEW w \in {"user", "sys"}, conf[p][w] # NoConf
      PROVE  /\ conf[p][w].cached \in 0..Len(conf[p][w].sections)
             /\ \A i, j \in DOMAIN conf[p][w].sections :
                  conf[p][w].sections[i].name = conf[p][w].sections[j].name => i = j
             /\ \A i \in DOMAIN conf[p][w].sections :
                  IsInjective([j \in DOMAIN conf[p][w].sections[i].entries |->
                                 conf[p][w].sections[i].entries[j].key])
  <2> DEFINE c == conf[p][w]
  <2>1. Sound(c)
    BY <1>1, PairIs, ConfIs
  <2> HIDE DEF c
  <2>2. c.cached \in 0..Len(c.sections) /\ DOMAIN c.sections = 1..Len(c.sections)
    BY <2>1, ConfigTypes DEF Sound
  <2>3. \A i, j \in DOMAIN c.sections : c.sections[i].name = c.sections[j].name => i = j
    BY <2>1, <2>2 DEF Sound
  <2>4. ASSUME NEW i \in DOMAIN c.sections
        PROVE  IsInjective([j \in DOMAIN c.sections[i].entries |-> c.sections[i].entries[j].key])
    <3> DEFINE es == c.sections[i].entries
    <3>1. Once(es) /\ es \in Seq(Entry)
      BY <2>1, <2>2, ConfigTypes DEF Sound
    <3> HIDE DEF es
    <3>2. DOMAIN es = 1..Len(es)
      BY <3>1
    <3>3. IsInjective([j \in DOMAIN es |-> es[j].key])
      BY <3>1, <3>2 DEF IsInjective, Once
    <3> QED
      BY <3>3 DEF es
  <2> QED
    BY <2>2, <2>3, <2>4 DEF c
<1>2. edits \in 0..MaxEdits /\ saving \in [Apps -> {"no", "write", "rename"}]
  BY DEF ResourceInv
<1> QED
  BY <1>1, <1>2 DEF ResourceTypeOK
-------------------------------------------------------------------------------
(* Sequences put together keep their places, and what each begins with.    *)
LEMMA JoinedAt ==
  ASSUME NEW S, NEW s \in Seq(Seq(S)), NEW d \in [0..Len(s) -> Seq(S)], Joins(d, s)
  PROVE  /\ \A i \in 1..Len(s) : Len(d[i]) = Len(d[i - 1]) + Len(s[i])
         /\ \A i \in 0..Len(s) : Len(d[i]) \in Nat /\ Len(d[i]) <= Len(d[Len(s)])
         /\ \A i \in 1..Len(s) : \A y \in 1..Len(s[i]) :
              d[Len(s)][Len(d[i - 1]) + y] = s[i][y]
<1> DEFINE n == Len(s)
           Begins(i, m) == Len(d[i]) <= Len(d[m]) /\ \A z \in 1..Len(d[i]) : d[m][z] = d[i][z]
           P == {m \in 0..n : \A i \in 0..m : Begins(i, m)}
<1>1. n \in Nat /\ \A i \in 1..n : s[i] \in Seq(S) /\ i - 1 \in 0..n /\ i \in 0..n
  OBVIOUS
<1>2. \A i \in 0..n : d[i] \in Seq(S) /\ Len(d[i]) \in Nat
  OBVIOUS
<1>3. ASSUME NEW i \in 1..n
      PROVE  /\ Len(d[i]) = Len(d[i - 1]) + Len(s[i]) /\ Len(s[i]) \in Nat
             /\ \A z \in 1..Len(d[i - 1]) : d[i][z] = d[i - 1][z]
             /\ \A y \in 1..Len(s[i]) : d[i][Len(d[i - 1]) + y] = s[i][y]
  <2> DEFINE u == d[i]
             a == d[i - 1]
             b == s[i]
  <2>1. u = a \o b /\ a \in Seq(S) /\ b \in Seq(S)
    BY <1>1, <1>2 DEF Joins
  <2> HIDE DEF u, a, b
  <2>2. /\ Len(u) = Len(a) + Len(b) /\ Len(b) \in Nat
        /\ \A z \in 1..Len(a) : u[z] = a[z]
        /\ \A y \in 1..Len(b) : u[Len(a) + y] = b[y]
    BY ONLY <2>1, Places
  <2> QED
    BY <2>2 DEF u, a, b
<1>4. 0 \in P
  BY <1>1
<1>5. ASSUME NEW m \in 1..n, m - 1 \in P PROVE m \in P
  <2>1. Begins(m - 1, m)
    <3>1. Len(d[m]) = Len(d[m - 1]) + Len(s[m]) /\ Len(s[m]) \in Nat /\ Len(d[m - 1]) \in Nat
      BY <1>1, <1>2, <1>3
    <3>2. Len(d[m - 1]) <= Len(d[m])
      <4> DEFINE a == Len(d[m - 1])
                 b == Len(s[m])
                 e == Len(d[m])
      <4>1. e = a + b /\ b \in Nat /\ a \in Nat
        BY <3>1
      <4> HIDE DEF a, b, e
      <4>2. a <= e
        BY ONLY <4>1
      <4> QED
        BY <4>2 DEF a, e
    <3> QED
      BY <1>3, <3>2
  <2>2. \A i \in 0..(m - 1) : Begins(i, m - 1)
    BY <1>5
  <2>3. ASSUME NEW i \in 0..(m - 1) PROVE Begins(i, m)
    <3>1. Begins(i, m - 1) /\ i \in 0..n /\ m \in 0..n /\ m - 1 \in 0..n
      BY <1>1, <2>2
    <3>2. Len(d[i]) \in Nat /\ Len(d[m - 1]) \in Nat /\ Len(d[m]) \in Nat
      BY <1>2, <3>1
    <3>3. Len(d[i]) <= Len(d[m])
      BY <2>1, <3>1, <3>2
    <3>4. \A z \in 1..Len(d[i]) : z \in 1..Len(d[m - 1])
      BY <3>1, <3>2
    <3> QED
      BY <2>1, <3>1, <3>3, <3>4
  <2>4. Begins(m, m)
    BY <1>1, <1>2
  <2>5. \A i \in 0..m : i \in 0..(m - 1) \/ i = m
    BY <1>1
  <2>6. m \in 0..n
    BY <1>1
  <2> HIDE DEF Begins
  <2> QED
    BY <2>3, <2>4, <2>5, <2>6
<1>6. \A i \in 0..n : Begins(i, n)
  <2> HIDE DEF P
  <2>1. \A m \in 0..n : m \in P
    BY <1>1, <1>4, <1>5, Stepwise
  <2>2. n \in P
    BY <1>1, <2>1
  <2> QED
    BY <2>2 DEF P
<1>7. ASSUME NEW i \in 1..n, NEW y \in 1..Len(s[i]) PROVE d[n][Len(d[i - 1]) + y] = s[i][y]
  <2>1. Begins(i, n) /\ Len(d[i - 1]) \in Nat /\ Len(d[i]) = Len(d[i - 1]) + Len(s[i]) /\ Len(s[i]) \in Nat
    BY <1>1, <1>2, <1>3, <1>6
  <2>2. Len(d[i - 1]) + y \in 1..Len(d[i])
    <3> DEFINE a == Len(d[i - 1])
               b == Len(s[i])
    <3>1. a \in Nat /\ b \in Nat /\ y \in 1..b /\ Len(d[i]) = a + b
      BY <2>1
    <3> HIDE DEF a, b
    <3>2. a + y \in 1..a + b
      BY <3>1
    <3> QED
      BY <3>1, <3>2 DEF a
  <2>3. d[i][Len(d[i - 1]) + y] = s[i][y]
    BY <1>3
  <2> QED
    BY <2>1, <2>2, <2>3
<1>8. \A i \in 0..n : Len(d[i]) \in Nat /\ Len(d[i]) <= Len(d[n])
  BY <1>2, <1>6
<1>9. \A i \in 1..n : Len(d[i]) = Len(d[i - 1]) + Len(s[i])
  BY <1>3
<1> QED
  BY <1>7, <1>8, <1>9

(* Where in the written lines each section begins, and what is where.      *)
Layout(c, lines, off) ==
  LET N == Len(c.sections)
  IN  /\ lines \in Seq(Lines) /\ off \in [0..N -> Nat] /\ off[0] = 0 /\ Len(lines) = off[N]
      /\ \A i \in 1..N : LET es == c.sections[i].entries IN
           /\ off[i] = off[i - 1] + 1 + Len(es) + (IF i = N THEN 0 ELSE 1)
           /\ off[i] <= off[N]
           /\ lines[off[i - 1] + 1] = SectionLine(c.sections[i].name)
           /\ \A j \in 1..Len(es) : lines[off[i - 1] + 1 + j] = EntryLine(es[j].key, es[j].value)
           /\ i # N => lines[off[i]] = Comment

LEMMA LayoutIs ==
  ASSUME NEW c \in Config
  PROVE  \E off : Layout(c, WrittenLines(c), off)
<1> DEFINE N == Len(c.sections)
           w == Written(c)
           lines == WrittenLines(c)
<1>1. /\ w \in Seq(Seq(Lines)) /\ Len(w) = N /\ N \in Nat
      /\ \A i \in 1..N : w[i] = SectionLines(c, i)
      /\ lines = FlattenSeq(w) /\ lines \in Seq(Lines)
  BY WrittenIs, ConfigTypes
<1> HIDE DEF w, lines, N
<1>2. PICK d \in [0..N -> Seq(Lines)] : Joins(d, w) /\ lines = d[N]
  BY <1>1, FlattenIs
<1>3. /\ \A i \in 1..N : Len(d[i]) = Len(d[i - 1]) + Len(w[i])
      /\ \A i \in 0..N : Len(d[i]) \in Nat /\ Len(d[i]) <= Len(d[N])
      /\ \A i \in 1..N : \A y \in 1..Len(w[i]) : d[N][Len(d[i - 1]) + y] = w[i][y]
  <2>1. d \in [0..Len(w) -> Seq(Lines)] /\ Joins(d, w) /\ w \in Seq(Seq(Lines))
    BY <1>1, <1>2
  <2>2. /\ \A i \in 1..Len(w) : Len(d[i]) = Len(d[i - 1]) + Len(w[i])
        /\ \A i \in 0..Len(w) : Len(d[i]) \in Nat /\ Len(d[i]) <= Len(d[Len(w)])
        /\ \A i \in 1..Len(w) : \A y \in 1..Len(w[i]) : d[Len(w)][Len(d[i - 1]) + y] = w[i][y]
    BY <2>1, JoinedAt
  <2> QED
    BY <1>1, <2>2
<1> DEFINE off == [i \in 0..N |-> Len(d[i])]
<1>4. off \in [0..N -> Nat] /\ \A i \in 0..N : off[i] = Len(d[i])
  BY <1>3
<1> HIDE DEF off
<1>5. off[0] = 0 /\ Len(lines) = off[N]
  <2>1. 0 \in 0..N /\ N \in 0..N
    BY <1>1
  <2> QED
    BY <1>2, <1>4, <2>1 DEF Joins
<1>6. ASSUME NEW i \in 1..N
      PROVE  LET es == c.sections[i].entries IN
             /\ off[i] = off[i - 1] + 1 + Len(es) + (IF i = N THEN 0 ELSE 1)
             /\ off[i] <= off[N]
             /\ lines[off[i - 1] + 1] = SectionLine(c.sections[i].name)
             /\ \A j \in 1..Len(es) : lines[off[i - 1] + 1 + j] = EntryLine(es[j].key, es[j].value)
             /\ i # N => lines[off[i]] = Comment
  <2> DEFINE es == c.sections[i].entries
             t == SectionLines(c, i)
             a == off[i - 1]
  <2>1. /\ Len(es) \in Nat /\ Len(t) = 1 + Len(es) + (IF i = N THEN 0 ELSE 1)
        /\ t[1] = SectionLine(c.sections[i].name)
        /\ \A j \in 1..Len(es) : t[1 + j] = EntryLine(es[j].key, es[j].value)
        /\ i # N => t[2 + Len(es)] = Comment
    BY SectionLinesAre DEF N
  <2>2. i \in 0..N /\ i - 1 \in 0..N /\ N \in 0..N /\ w[i] = t
    BY <1>1
  <2>3. /\ a = Len(d[i - 1]) /\ off[i] = Len(d[i]) /\ off[N] = Len(d[N])
        /\ a \in Nat /\ off[i] \in Nat
    BY <1>4, <2>2
  <2>4. off[i] = a + Len(t) /\ off[i] <= off[N] /\ \A y \in 1..Len(t) : lines[a + y] = t[y]
    BY <1>2, <1>3, <2>2, <2>3
  <2> DEFINE l == Len(es)
             z == IF i = N THEN 0 ELSE 1
  <2>9. l \in Nat /\ z \in Nat /\ Len(t) = 1 + l + z /\ a \in Nat /\ (i # N => z = 1)
    BY <2>1, <2>3
  <2> HIDE DEF t, es, a, l, z
  <2>10. /\ 1 \in 1..Len(t) /\ a + Len(t) = a + 1 + l + z
         /\ \A j \in 1..l : 1 + j \in 1..Len(t) /\ a + 1 + j = a + (1 + j)
         /\ i # N => 2 + l \in 1..Len(t) /\ a + Len(t) = a + (2 + l)
    BY <2>9
  <2>5. off[i] = a + 1 + Len(es) + (IF i = N THEN 0 ELSE 1)
    BY <2>4, <2>10 DEF l, z
  <2>6. lines[a + 1] = SectionLine(c.sections[i].name)
    <3> QED
      BY <2>1, <2>4, <2>10
  <2>7. ASSUME NEW j \in 1..Len(es) PROVE lines[a + 1 + j] = EntryLine(es[j].key, es[j].value)
    <3>1. 1 + j \in 1..Len(t) /\ a + 1 + j = a + (1 + j)
      BY <2>10 DEF l
    <3> QED
      BY <2>1, <2>4, <3>1
  <2>8. ASSUME i # N PROVE lines[off[i]] = Comment
    <3>1. 2 + Len(es) \in 1..Len(t) /\ off[i] = a + (2 + Len(es))
      BY <2>4, <2>8, <2>10 DEF l
    <3> QED
      BY <2>1, <2>4, <2>8, <3>1
  <2> QED
    BY <2>4, <2>5, <2>6, <2>7, <2>8 DEF es, a
<1>7. Layout(c, lines, off)
  BY <1>1, <1>4, <1>5, <1>6 DEF Layout, N
<1> QED
  BY <1>7 DEF lines

(* The first entries of a section, as they come back.                      *)
Trims(es, fs, j) ==
  /\ Len(es) = j
  /\ \A y \in 1..j : es[y].key = fs[y].key /\ es[y].value = Trimmed[fs[y].value]

(* The first i sections of c, all but j entries of the last, are in d.     *)
Copies(c, d, i, j) ==
  /\ Len(d.sections) = i
  /\ \A x \in 1..i :
       /\ d.sections[x].name = c.sections[x].name
       /\ Trims(d.sections[x].entries, c.sections[x].entries,
                IF x = i THEN j ELSE Len(c.sections[x].entries))

(* The reading of the written lines has come to the j-th entry of the i-th *)
(* section, or to the empty line after it.                                 *)
Place(c, off, k, i, j) ==
  \/ i = 0 /\ j = 0 /\ k = 0
  \/ i # 0 /\ k = off[i - 1] + 1 + j
  \/ i # 0 /\ j = Len(c.sections[i].entries) /\ i # Len(c.sections) /\ k = off[i]

ReadTo(c, off, k, r, i, j) ==
  /\ i \in 0..Len(c.sections) /\ (i # 0 => j \in 0..Len(c.sections[i].entries))
  /\ r \in Readings /\ r.ok /\ r.tsect = i
  /\ Copies(c, r.config, i, j)
  /\ Place(c, off, k, i, j)

(* The reading is about to read the entry after the j-th of section i.     *)
BeforeEntry(c, r, i, j) ==
  /\ Sound(c) /\ r \in Readings /\ r.ok /\ r.tsect = i
  /\ i \in 1..Len(c.sections) /\ j \in Nat /\ j < Len(c.sections[i].entries)
  /\ Copies(c, r.config, i, j)

LEMMA EntryCopied ==
  ASSUME NEW c, NEW r, NEW i, NEW j, BeforeEntry(c, r, i, j), NEW e, e = c.sections[i].entries[j + 1],
         NEW q, q = ReadLine(r, EntryLine(e.key, e.value))
  PROVE  q.ok /\ q.tsect = i /\ Copies(c, q.config, i, j + 1)
<1>0. /\ Sound(c) /\ r \in Readings /\ r.ok /\ r.tsect = i
      /\ i \in 1..Len(c.sections) /\ j \in Nat /\ j < Len(c.sections[i].entries)
      /\ Copies(c, r.config, i, j)
  BY DEF BeforeEntry
<1> DEFINE fs == c.sections[i].entries
           es == r.config.sections[i].entries
           v == Trimmed[e.value]
           gs == AddEntry(es, e.key, v)
<1>1. /\ fs \in Seq(Entry) /\ Once(fs) /\ Len(fs) \in Nat /\ j + 1 \in 1..Len(fs) /\ i # 0 /\ i \in Nat
      /\ Len(c.sections) \in Nat
  <2>0. c \in Config /\ Once(fs)
    BY <1>0 DEF Sound
  <2>4. c.sections \in Seq(Section) /\ Len(c.sections) \in Nat
    BY <2>0, ConfigTypes
  <2>5. i \in Nat /\ i # 0
    BY <1>0, <2>4
  <2>6. fs \in Seq(Entry)
    <3>1. \A x \in 1..Len(c.sections) : c.sections[x].entries \in Seq(Entry)
      BY <2>0, ConfigTypes
    <3> QED
      BY <1>0, <3>1
  <2>1. fs \in Seq(Entry) /\ Once(fs) /\ i # 0 /\ i \in Nat /\ Len(c.sections) \in Nat
    BY <2>0, <2>4, <2>5, <2>6
  <2>2. Len(fs) \in Nat
    BY <2>1, EntryTypes
  <2> HIDE DEF fs
  <2>3. j < Len(fs) /\ j \in Nat
    BY <1>0 DEF fs
  <2> QED
    BY ONLY <2>1, <2>2, <2>3
<1>2. e.key \in STRING /\ e.value \in Texts /\ e = fs[j + 1]
  <2>1. e = fs[j + 1]
    OBVIOUS
  <2> HIDE DEF fs
  <2> QED
    BY ONLY <1>1, <2>1, EntryTypes
<1>3. /\ q = [config |-> q.config, tsect |-> r.tsect, ok |-> TRUE]
      /\ Rewrites(q.config, r.config, r.tsect, gs)
      /\ es \in Seq(Entry) /\ Once(es) /\ v \in Texts
  <2> DEFINE ek == e.key
             ev == e.value
             us == r.config.sections[r.tsect].entries
             d  == ReadLine(r, EntryLine(ek, ev)).config
  <2>1. r \in Readings /\ r.ok /\ r.tsect # 0 /\ ek \in STRING /\ ev \in Texts
    BY <1>0, <1>1, <1>2
  <2> HIDE DEF ek, ev
  <2>2. /\ ReadLine(r, EntryLine(ek, ev)) = [config |-> d, tsect |-> r.tsect, ok |-> TRUE]
        /\ Rewrites(d, r.config, r.tsect, AddEntry(us, ek, Trimmed[ev]))
        /\ us \in Seq(Entry) /\ Once(us) /\ Trimmed[ev] \in Texts
    BY ONLY <2>1, ReadEntry
  <2>3. q = ReadLine(r, EntryLine(ek, ev)) /\ us = es /\ v = Trimmed[ev] /\ gs = AddEntry(us, ek, Trimmed[ev])
    BY <1>0 DEF ek, ev
  <2> HIDE DEF gs, es, v, us
  <2> QED
    BY ONLY <2>2, <2>3
<1>4. /\ Len(r.config.sections) = i
      /\ \A x \in 1..i :
           /\ r.config.sections[x].name = c.sections[x].name
           /\ Trims(r.config.sections[x].entries, c.sections[x].entries,
                    IF x = i THEN j ELSE Len(c.sections[x].entries))
  BY <1>0 DEF Copies
<1>5. Trims(es, fs, j) /\ j \in Nat
  BY <1>0, <1>1, <1>4
<1>6. gs = Append(es, [key |-> e.key, value |-> v])
  <2>1. Len(es) = j /\ \A y \in 1..j : es[y].key = fs[y].key
    BY <1>5 DEF Trims
  <2> HIDE DEF es, fs
  <2>2. \A y \in 1..j : y \in 1..Len(fs) /\ y # j + 1
    BY ONLY <1>1, <1>5
  <2>3. \A y \in 1..j : fs[y].key # e.key
    BY ONLY <1>1, <1>2, <2>2 DEF Once
  <2>4. \A y \in 1..Len(es) : es[y].key # e.key
    BY <2>1, <2>3
  <2> HIDE DEF v
  <2> DEFINE ek == e.key
  <2>5. ek \in STRING /\ v \in Texts /\ es \in Seq(Entry) /\ \A y \in 1..Len(es) : es[y].key # ek
    BY <1>2, <1>3, <2>4
  <2> HIDE DEF ek
  <2>6. AddEntry(es, ek, v) = Append(es, [key |-> ek, value |-> v])
    BY ONLY <2>5, AddEntryIs
  <2> QED
    BY <2>6 DEF ek
<1> DEFINE y0 == [key |-> e.key, value |-> v]
<1>7. Trims(gs, fs, j + 1)
  <2>1. y0 \in Entry /\ y0.key = e.key /\ y0.value = v
    BY ONLY <1>2, <1>3 DEF Entry
  <2> HIDE DEF y0
  <2>2. gs = Append(es, y0)
    BY ONLY <1>6 DEF y0
  <2> HIDE DEF gs, es, v, fs
  <2>3. Len(es) = j /\ \A y \in 1..j : es[y].key = fs[y].key /\ es[y].value = Trimmed[fs[y].value]
    BY <1>5 DEF Trims
  <2>4. Len(gs) = j + 1 /\ gs[j + 1] = y0 /\ \A y \in 1..j : gs[y] = es[y]
    BY ONLY <1>3, <1>5, <2>1, <2>2, <2>3
  <2>5. \A y \in 1..j + 1 : y \in 1..j \/ y = j + 1
    BY ONLY <1>5
  <2>7. v = Trimmed[e.value]
    BY DEF v
  <2>6. ASSUME NEW y \in 1..j + 1 PROVE gs[y].key = fs[y].key /\ gs[y].value = Trimmed[fs[y].value]
    BY ONLY <1>2, <2>1, <2>3, <2>4, <2>5, <2>6, <2>7
  <2> QED
    BY <2>4, <2>6 DEF Trims
<1>8. /\ Len(q.config.sections) = i
      /\ \A x \in 1..i :
           /\ q.config.sections[x].name = c.sections[x].name
           /\ q.config.sections[x].entries = IF x = i THEN gs ELSE r.config.sections[x].entries
  <2> HIDE DEF gs
  <2>1. r.tsect = i
    BY <1>0
  <2> QED
    BY ONLY <1>3, <1>4, <2>1 DEF Rewrites
<1>9. Copies(c, q.config, i, j + 1)
  <2> HIDE DEF gs
  <2>1. ASSUME NEW x \in 1..i
        PROVE  Trims(q.config.sections[x].entries, c.sections[x].entries,
                     IF x = i THEN j + 1 ELSE Len(c.sections[x].entries))
    <3>1. CASE x = i
      BY ONLY <1>4, <1>7, <1>8, <3>1
    <3>2. CASE x # i
      BY ONLY <1>4, <1>8, <2>1, <3>2
    <3> QED
      BY ONLY <3>1, <3>2
  <2> QED
    BY ONLY <1>8, <2>1 DEF Copies
<1>10. q.ok /\ q.tsect = i
  <2>1. r.tsect = i
    BY <1>0
  <2> QED
    BY ONLY <1>3, <2>1
<1> QED
  BY ONLY <1>9, <1>10

LEMMA SectionCopied ==
  ASSUME NEW c, Sound(c), NEW r \in Readings, r.ok, NEW i \in Nat, i < Len(c.sections), NEW j,
         i # 0 => j = Len(c.sections[i].entries), Copies(c, r.config, i, j)
  PROVE  LET q == ReadLine(r, SectionLine(c.sections[i + 1].name))
         IN  q.ok /\ q.tsect = i + 1 /\ Copies(c, q.config, i + 1, 0)
<1> DEFINE s == c.sections[i + 1].name
           q == ReadLine(r, SectionLine(s))
           t == r.config.sections
           d == AddSection(r.config, s)
           x0 == [name |-> s, entries |-> <<>>]
<1>1. i + 1 \in 1..Len(c.sections) /\ Len(c.sections) \in Nat /\ s \in STRING
  <2>1. c \in Config
    BY DEF Sound
  <2>2. Len(c.sections) \in Nat
    BY <2>1, ConfigTypes
  <2>3. i + 1 \in 1..Len(c.sections)
    BY <2>2
  <2> QED
    BY <2>1, <2>2, <2>3, ConfigTypes
<1>2. q = [config |-> d, tsect |-> Named(d, s), ok |-> TRUE]
  <2> HIDE DEF s
  <2> QED
    BY <1>1, ReadSection
<1>3. /\ Len(t) = i
      /\ \A x \in 1..i :
           /\ t[x].name = c.sections[x].name
           /\ Trims(t[x].entries, c.sections[x].entries, IF x = i THEN j ELSE Len(c.sections[x].entries))
  BY DEF Copies
<1>4. \A x \in 1..Len(t) : t[x].name # s
  <2>1. \A x \in 1..i : x \in 1..Len(c.sections) /\ x # i + 1
    BY <1>1
  <2>2. \A x, y \in 1..Len(c.sections) : c.sections[x].name = c.sections[y].name => x = y
    BY DEF Sound
  <2> HIDE DEF t
  <2>3. ASSUME NEW x \in 1..i PROVE t[x].name # s
    BY <1>1, <1>3, <2>1, <2>2
  <2> QED
    BY <1>3, <2>3
<1>5. d.sections = Append(t, x0) /\ Named(d, s) = Len(t) + 1
  <2>1. Sound(r.config)
    BY ReadingTypes
  <2> HIDE DEF s
  <2> QED
    BY <1>1, <1>4, <2>1, AddSectionIs
<1>6. x0 \in Section /\ x0.name = s /\ x0.entries = <<>> /\ Len(<<>>) = 0
  BY <1>1 DEF Section
<1>7. t \in Seq(Section)
  BY ReadingTypes, ConfigTypes
<1> HIDE DEF t, x0, d
<1>8. Len(d.sections) = i + 1 /\ d.sections[i + 1] = x0 /\ \A x \in 1..i : d.sections[x] = t[x]
  BY <1>3, <1>5, <1>6, <1>7
<1>9. Copies(c, d, i + 1, 0)
  <2>1. \A x \in 1..i + 1 : x \in 1..i \/ x = i + 1
    OBVIOUS
  <2>2. ASSUME NEW x \in 1..i
        PROVE  /\ d.sections[x].name = c.sections[x].name
               /\ Trims(d.sections[x].entries, c.sections[x].entries,
                        IF x = i + 1 THEN 0 ELSE Len(c.sections[x].entries))
    <3>1. x # i + 1 /\ i # 0 /\ d.sections[x] = t[x]
      BY <1>8
    <3>2. CASE x = i
      BY <1>3, <3>1, <3>2
    <3>3. CASE x # i
      BY <1>3, <3>1, <3>3
    <3> QED
      BY <3>2, <3>3
  <2>3. Trims(d.sections[i + 1].entries, c.sections[i + 1].entries, 0)
    BY <1>6, <1>8 DEF Trims
  <2>4. d.sections[i + 1].name = c.sections[i + 1].name
    BY <1>6, <1>8
  <2>5. ASSUME NEW x \in 1..i + 1
        PROVE  /\ d.sections[x].name = c.sections[x].name
               /\ Trims(d.sections[x].entries, c.sections[x].entries,
                        IF x = i + 1 THEN 0 ELSE Len(c.sections[x].entries))
    <3>1. CASE x \in 1..i
      BY <2>2, <3>1
    <3>2. CASE x = i + 1
      BY <2>3, <2>4, <3>2
    <3> QED
      BY <2>1, <3>1, <3>2
  <2> QED
    BY <1>8, <2>5 DEF Copies
<1>10. q.ok /\ q.tsect = i + 1 /\ q.config = d
  <2> HIDE DEF q
  <2> QED
    BY <1>2, <1>3, <1>5
<1> QED
  BY <1>9, <1>10

(* Each line brings the reading on to the next place.                      *)
LEMMA Copying ==
  ASSUME NEW c, Sound(c), NEW lines, NEW off, Layout(c, lines, off), NEW k \in 1..Len(lines), NEW r,
         NEW i, NEW j, ReadTo(c, off, k - 1, r, i, j)
  PROVE  \E x, y : ReadTo(c, off, k, ReadLine(r, lines[k]), x, y)
<1> DEFINE N == Len(c.sections)
           q == ReadLine(r, lines[k])
           fs == c.sections[i].entries
<1>1. /\ lines \in Seq(Lines) /\ off \in [0..N -> Nat] /\ off[0] = 0 /\ Len(lines) = off[N]
      /\ \A x \in 1..N :
           /\ off[x] = off[x - 1] + 1 + Len(c.sections[x].entries) + (IF x = N THEN 0 ELSE 1)
           /\ lines[off[x - 1] + 1] = SectionLine(c.sections[x].name)
           /\ \A y \in 1..Len(c.sections[x].entries) :
                lines[off[x - 1] + 1 + y] = EntryLine(c.sections[x].entries[y].key, c.sections[x].entries[y].value)
           /\ x # N => lines[off[x]] = Comment
  BY DEF Layout
<1>2. /\ i \in 0..N /\ (i # 0 => j \in 0..Len(fs)) /\ r \in Readings /\ r.ok /\ r.tsect = i
      /\ Copies(c, r.config, i, j) /\ Place(c, off, k - 1, i, j)
  BY DEF ReadTo
<1>3. N \in Nat /\ k \in Nat /\ off[N] \in Nat /\ k <= off[N]
  BY <1>1, ConfigTypes DEF Sound
<1>4. q \in Readings
  BY <1>1, <1>2, ReadKeeps
<1> HIDE DEF q
<1>5. ASSUME NEW n \in Nat, n < N, k = off[n] + 1, n = i, n # 0 => j = Len(fs)
      PROVE  ReadTo(c, off, k, q, n + 1, 0)
  <2>1. n + 1 \in 1..N /\ n + 1 # 0 /\ (n + 1) - 1 = n
    BY <1>3, <1>5
  <2>2. lines[k] = SectionLine(c.sections[n + 1].name)
    BY <1>1, <1>5, <2>1
  <2>3. q.ok /\ q.tsect = n + 1 /\ Copies(c, q.config, n + 1, 0)
    <3>1. n # 0 => j = Len(c.sections[n].entries)
      BY <1>5
    <3>2. Copies(c, r.config, n, j) /\ n < Len(c.sections) /\ r.ok /\ r \in Readings
      BY <1>2, <1>5
    <3> DEFINE q0 == ReadLine(r, SectionLine(c.sections[n + 1].name))
    <3>3. q0.ok /\ q0.tsect = n + 1 /\ Copies(c, q0.config, n + 1, 0)
      BY <3>1, <3>2, SectionCopied
    <3> QED
      BY <2>2, <3>3 DEF q
  <2>4. Len(c.sections[n + 1].entries) \in Nat /\ off[n] \in Nat
    <3>1. c.sections[n + 1].entries \in Seq(Entry)
      BY <2>1, ConfigTypes DEF Sound
    <3>2. n \in 0..N
      BY <1>3, <1>5
    <3> QED
      BY <1>1, <3>1, <3>2, EntryTypes
  <2>5. Place(c, off, k, n + 1, 0)
    BY <1>5, <2>1, <2>4 DEF Place
  <2>6. n + 1 \in 0..N /\ 0 \in 0..Len(c.sections[n + 1].entries)
    BY <2>1, <2>4
  <2> QED
    BY <1>4, <2>3, <2>5, <2>6 DEF ReadTo
<1>6. CASE i = 0
  <2>1. k - 1 = 0
    BY <1>6 DEF ReadTo, Place
  <2>2. N # 0 /\ k = off[0] + 1
    BY <1>1, <1>3, <2>1
  <2>3. 0 < N
    BY <1>3, <2>2
  <2> QED
    BY <1>5, <1>6, <2>2, <2>3 DEF q
<1>7. CASE i # 0
  <2>0. /\ i \in 1..N /\ i \in Nat /\ i - 1 \in 0..N /\ Len(fs) \in Nat /\ j \in Nat /\ j <= Len(fs)
        /\ off[i - 1] \in Nat /\ off[i] \in Nat
    <3>1. i \in 1..N /\ i \in 0..N /\ i \in Nat /\ i - 1 \in 0..N
      BY <1>2, <1>3, <1>7
    <3>2. fs \in Seq(Entry)
      BY <3>1, ConfigTypes DEF Sound
    <3>3. Len(fs) \in Nat
      BY <3>2, EntryTypes
    <3> HIDE DEF fs
    <3>4. j \in Nat /\ j <= Len(fs)
      BY <1>2, <1>7, <3>3
    <3> QED
      BY <1>1, <3>1, <3>3, <3>4
  <2>1. off[i] = off[i - 1] + 1 + Len(fs) + (IF i = N THEN 0 ELSE 1)
    BY <1>1, <2>0
  <2>2. CASE k - 1 = off[i - 1] + 1 + j /\ j < Len(fs)
    <3>1. k = off[i - 1] + 1 + (j + 1) /\ j + 1 \in 1..Len(fs)
      <4> DEFINE a == off[i - 1]
                 l == Len(fs)
      <4>1. a \in Nat /\ l \in Nat /\ j \in Nat /\ j < l /\ k - 1 = a + 1 + j /\ k \in Nat
        BY <1>3, <2>0, <2>2
      <4> HIDE DEF a, l
      <4>2. k = a + 1 + (j + 1) /\ j + 1 \in 1..l
        BY ONLY <4>1
      <4> QED
        BY <4>2 DEF a, l
    <3>2. lines[k] = EntryLine(fs[j + 1].key, fs[j + 1].value)
      BY <1>1, <2>0, <3>1
    <3>3. q.ok /\ q.tsect = i /\ Copies(c, q.config, i, j + 1)
      <4> DEFINE e == c.sections[i].entries[j + 1]
      <4>1. BeforeEntry(c, r, i, j)
        BY <1>2, <2>0, <2>2 DEF BeforeEntry
      <4>2. e = c.sections[i].entries[j + 1] /\ q = ReadLine(r, EntryLine(e.key, e.value))
        BY <3>2 DEF q
      <4> HIDE DEF e, fs, N
      <4> QED
        BY ONLY <4>1, <4>2, EntryCopied
    <3>4. Place(c, off, k, i, j + 1)
      BY <1>7, <3>1 DEF Place
    <3>5. j + 1 \in 0..Len(fs)
      BY <3>1
    <3>6. ReadTo(c, off, k, q, i, j + 1)
      BY <1>2, <1>4, <3>3, <3>4, <3>5 DEF ReadTo
    <3> QED
      BY <3>6 DEF q
  <2>3. CASE k - 1 = off[i - 1] + 1 + j /\ j = Len(fs)
    <3>1. i # N
      <4> SUFFICES ASSUME i = N PROVE FALSE
        OBVIOUS
      <4>1. k - 1 = off[N]
        BY <2>0, <2>1, <2>3
      <4> QED
        BY <1>3, <4>1
    <3>2. k = off[i]
      BY <1>3, <2>0, <2>1, <2>3, <3>1
    <3>3. lines[k] = Comment
      BY <1>1, <2>0, <3>1, <3>2
    <3>4. q = r
      BY <3>3 DEF q, ReadLine, Comment
    <3>5. Place(c, off, k, i, j)
      BY <1>7, <2>3, <3>1, <3>2 DEF Place
    <3>6. ReadTo(c, off, k, q, i, j)
      BY <1>2, <3>4, <3>5 DEF ReadTo
    <3> QED
      BY <3>6 DEF q
  <2>4. CASE k - 1 = off[i] /\ j = Len(fs) /\ i # N
    <3>1. i < N /\ k = off[i] + 1
      BY <1>3, <2>0, <2>4
    <3> QED
      BY <1>5, <2>0, <2>4, <3>1 DEF q
  <2>5. \/ k - 1 = off[i - 1] + 1 + j
        \/ k - 1 = off[i] /\ j = Len(fs) /\ i # N
    BY <1>2, <1>7 DEF Place
  <2>6. j < Len(fs) \/ j = Len(fs)
    BY <2>0
  <2> QED
    BY <2>2, <2>3, <2>4, <2>5, <2>6
<1> QED
  BY <1>6, <1>7

(* Reading the first m of the written lines.                               *)
LEMMA ReadsBack ==
  ASSUME NEW c, Sound(c), NEW lines, NEW off, Layout(c, lines, off), NEW m \in 0..Len(lines),
         NEW few, few = SubSeq(lines, 1, m)
  PROVE  \E i, j : ReadTo(c, off, m, Reading(few)[m], i, j)
<1> DEFINE P == {k \in 0..m : \E i, j : ReadTo(c, off, k, Reading(few)[k], i, j)}
<1>1. lines \in Seq(Lines) /\ Len(lines) \in Nat /\ m \in Nat /\ Len(c.sections) \in Nat
  BY ConfigTypes DEF Layout, Sound
<1>2. few \in Seq(Lines) /\ Len(few) = m /\ \A k \in 1..m : few[k] = lines[k]
  BY <1>1
<1>3. /\ Reading(few)[0] = Start
      /\ \A k \in 1..m : Reading(few)[k] = ReadLine(Reading(few)[k - 1], few[k])
  BY <1>2, ReadingIs
<1>4. 0 \in P
  <2>1. Start \in Readings /\ Start.ok /\ Start.tsect = 0 /\ Start.config = EmptyConf
    BY StartIs DEF Start
  <2>2. Copies(c, EmptyConf, 0, 0)
    BY DEF Copies, EmptyConf
  <2>3. ReadTo(c, off, 0, Start, 0, 0)
    BY <1>1, <2>1, <2>2 DEF ReadTo, Place
  <2> QED
    BY <1>1, <1>3, <2>3
<1>5. ASSUME NEW k \in 1..m, k - 1 \in P PROVE k \in P
  <2>1. PICK i, j : ReadTo(c, off, k - 1, Reading(few)[k - 1], i, j)
    BY <1>5
  <2>2. k \in 1..Len(lines) /\ k \in 0..m
    BY <1>1
  <2>3. \E x, y : ReadTo(c, off, k, ReadLine(Reading(few)[k - 1], lines[k]), x, y)
    BY <2>1, <2>2, Copying
  <2>4. Reading(few)[k] = ReadLine(Reading(few)[k - 1], lines[k])
    BY <1>2, <1>3
  <2> QED
    BY <2>2, <2>3, <2>4
<1>6. m \in P
  <2> HIDE DEF P
  <2>1. \A k \in 0..m : k \in P
    BY <1>1, <1>4, <1>5, Stepwise
  <2> QED
    BY <1>1, <2>1
<1> QED
  BY <1>6

(* What a copy says is what c says, without spaces.                        *)
LEMMA CopyHolds ==
  ASSUME NEW c, Sound(c), NEW d, NEW i \in 0..Len(c.sections), NEW j,
         i # 0 => j \in 0..Len(c.sections[i].entries), Copies(c, d, i, j)
  PROVE  /\ \A s, k, v : Holds(d, s, k, v) => \E w : Holds(c, s, k, w) /\ v = Trimmed[w]
         /\ (i = Len(c.sections) /\ (i # 0 => j = Len(c.sections[i].entries))) =>
              \A s, k, w : Holds(c, s, k, w) => Holds(d, s, k, Trimmed[w])
<1> DEFINE N == Len(c.sections)
           upto(x) == IF x = i THEN j ELSE Len(c.sections[x].entries)
<1>1. /\ Len(d.sections) = i
      /\ \A x \in 1..i :
           /\ d.sections[x].name = c.sections[x].name
           /\ Trims(d.sections[x].entries, c.sections[x].entries, upto(x))
  BY DEF Copies
<1>2. N \in Nat /\ \A x \in 1..N : Len(c.sections[x].entries) \in Nat
  BY ConfigTypes, EntryTypes DEF Sound
<1>3. \A x \in 1..i : x \in 1..N /\ upto(x) \in 0..Len(c.sections[x].entries)
  BY <1>2
<1> HIDE DEF upto
<1>4. ASSUME NEW s, NEW k, NEW v, Holds(d, s, k, v)
      PROVE  \E w : Holds(c, s, k, w) /\ v = Trimmed[w]
  <2>1. PICK x \in 1..i : d.sections[x].name = s /\ Says(d.sections[x].entries, k, v)
    BY <1>1, <1>4 DEF Holds
  <2> DEFINE es == d.sections[x].entries
             fs == c.sections[x].entries
  <2>2. x \in 1..N /\ upto(x) \in 0..Len(fs) /\ Trims(es, fs, upto(x)) /\ c.sections[x].name = s /\ Len(fs) \in Nat
    BY <1>1, <1>2, <1>3, <2>1
  <2>3. PICK y \in 1..Len(es) : es[y].key = k /\ es[y].value = v
    BY <2>1 DEF Says
  <2> HIDE DEF es, fs
  <2>4. y \in 1..Len(fs) /\ fs[y].key = k /\ Trimmed[fs[y].value] = v
    BY <2>2, <2>3 DEF Trims
  <2>5. Says(fs, k, fs[y].value)
    BY <2>4 DEF Says
  <2> QED
    BY <2>2, <2>4, <2>5 DEF Holds, fs
<1>5. ASSUME i = N, i # 0 => j = Len(c.sections[i].entries), NEW s, NEW k, NEW w, Holds(c, s, k, w)
      PROVE  Holds(d, s, k, Trimmed[w])
  <2>1. PICK x \in 1..N : c.sections[x].name = s /\ Says(c.sections[x].entries, k, w)
    BY <1>5 DEF Holds
  <2> DEFINE es == d.sections[x].entries
             fs == c.sections[x].entries
  <2>2. x \in 1..i /\ i # 0
    BY <1>2, <1>5, <2>1
  <2>3. Trims(es, fs, Len(fs)) /\ d.sections[x].name = s
    BY <1>1, <1>5, <2>1, <2>2 DEF upto
  <2>4. PICK y \in 1..Len(fs) : fs[y].key = k /\ fs[y].value = w
    BY <2>1 DEF Says
  <2> HIDE DEF es, fs
  <2>5. Says(es, k, Trimmed[w])
    BY <2>3, <2>4 DEF Says, Trims
  <2> QED
    BY <1>1, <2>2, <2>3, <2>5 DEF Holds, es
<1> QED
  BY <1>4, <1>5

(* Who has read all lines has all sections and all of their entries.       *)
LEMMA AllCopied ==
  ASSUME NEW c, Sound(c), NEW lines, NEW off, Layout(c, lines, off), NEW r, NEW i, NEW j,
         ReadTo(c, off, Len(lines), r, i, j)
  PROVE  i = Len(c.sections) /\ (i # 0 => j = Len(c.sections[i].entries))
<1> DEFINE N == Len(c.sections)
           fs == c.sections[i].entries
<1>1. /\ off \in [0..N -> Nat] /\ off[0] = 0 /\ Len(lines) = off[N]
      /\ \A x \in 1..N :
           /\ off[x] = off[x - 1] + 1 + Len(c.sections[x].entries) + (IF x = N THEN 0 ELSE 1)
           /\ off[x] <= off[N]
  BY DEF Layout
<1>2. N \in Nat /\ \A x \in 1..N : Len(c.sections[x].entries) \in Nat
  BY ConfigTypes, EntryTypes DEF Sound
<1>3. i \in 0..N /\ (i # 0 => j \in 0..Len(fs)) /\ Place(c, off, off[N], i, j)
  BY <1>1 DEF ReadTo
<1>4. ASSUME NEW x \in 0..N, x < N PROVE off[x] < off[N]
  <2>1. x + 1 \in 1..N /\ x + 1 \in 0..N /\ N \in 0..N /\ (x + 1) - 1 = x
    BY <1>2, <1>4
  <2>2. off[x] \in Nat /\ off[x + 1] \in Nat /\ off[N] \in Nat /\ Len(c.sections[x + 1].entries) \in Nat
    BY <1>1, <1>2, <2>1
  <2>3. /\ off[x + 1] = off[x] + 1 + Len(c.sections[x + 1].entries) + (IF x + 1 = N THEN 0 ELSE 1)
        /\ off[x + 1] <= off[N]
    BY <1>1, <2>1
  <2>4. off[x] < off[x + 1]
    <3> DEFINE l == Len(c.sections[x + 1].entries)
               z == IF x + 1 = N THEN 0 ELSE 1
               a == off[x]
               b == off[x + 1]
    <3>1. a \in Nat /\ l \in Nat /\ z \in Nat /\ b = a + 1 + l + z
      BY <2>2, <2>3
    <3> HIDE DEF a, b, l, z
    <3>2. a < b
      BY ONLY <3>1
    <3> QED
      BY <3>2 DEF a, b
  <2> QED
    BY <2>2, <2>3, <2>4
<1>5. CASE i = 0
  <2>1. off[N] = 0
    BY <1>3, <1>5 DEF Place
  <2>2. ~(0 < N)
    BY <1>1, <1>2, <1>4, <2>1
  <2> QED
    BY <1>2, <1>5, <2>2
<1>6. CASE i # 0
  <2>1. i \in 1..N /\ i \in 0..N /\ i - 1 \in 0..N /\ N \in 0..N
    BY <1>2, <1>3, <1>6
  <2>2. /\ off[i] = off[i - 1] + 1 + Len(fs) + (IF i = N THEN 0 ELSE 1)
        /\ off[i] <= off[N] /\ off[i - 1] \in Nat /\ off[i] \in Nat /\ off[N] \in Nat /\ Len(fs) \in Nat
    BY <1>1, <1>2, <2>1
  <2>3. j \in 0..Len(fs)
    BY <1>3, <1>6
  <2>4. i # N => off[i] < off[N]
    BY <1>2, <1>4, <2>1
  <2>5. off[N] = off[i - 1] + 1 + j \/ (i # N /\ off[N] = off[i])
    BY <1>3, <1>6 DEF Place
  <2> HIDE DEF fs
  <2>6. off[N] = off[i - 1] + 1 + j
    BY <2>2, <2>4, <2>5
  <2>7. i = N
    <3> SUFFICES ASSUME i # N PROVE FALSE
      OBVIOUS
    <3> QED
      BY <2>2, <2>3, <2>4, <2>6
  <2>8. j = Len(fs)
    BY <2>2, <2>3, <2>6, <2>7
  <2> QED
    BY <2>7, <2>8 DEF fs
<1> QED
  BY <1>5, <1>6
-------------------------------------------------------------------------------
(* A configuration answers what it says.                                   *)
LEMMA AnswersAre ==
  ASSUME NEW c, Sound(c)
  PROVE  /\ Answers(c) \in Abstract!Maps /\ Answers(c) # NoConf
         /\ DOMAIN Answers(c) \subseteq Options
         /\ \A o \in Options : o \in DOMAIN Answers(c) <=> HasOption(c, o[1], o[2])
         /\ \A o \in DOMAIN Answers(c) : Answers(c)[o] \in Texts
         /\ \A o \in Options : \A v : (o \in DOMAIN Answers(c) /\ Answers(c)[o] = v) <=> Holds(c, o[1], o[2], v)
<1> DEFINE D == {x \in Options : HasOption(c, x[1], x[2])}
           a == [o \in D |-> OptionAt(c, o[1], o[2])]
<1>1. c # NoConf
  BY ConfIs
<1>2. Answers(c) = a
  BY <1>1 DEF Answers
<1>3. ASSUME NEW o \in Options
      PROVE  /\ HasOption(c, o[1], o[2]) <=> \E v : Holds(c, o[1], o[2], v)
             /\ \A v : Holds(c, o[1], o[2], v) => OptionAt(c, o[1], o[2]) = v
             /\ HasOption(c, o[1], o[2]) =>
                  OptionAt(c, o[1], o[2]) \in Texts /\ Holds(c, o[1], o[2], OptionAt(c, o[1], o[2]))
  BY HasIs
<1>4. D \in SUBSET Options /\ DOMAIN a = D /\ \A o \in D : a[o] = OptionAt(c, o[1], o[2])
  OBVIOUS
<1>5. a \in [D -> Texts]
  BY <1>3
<1>6. a \in Abstract!Maps /\ a # NoConf
  BY <1>4, <1>5, ResourceAssumption DEF Abstract!Maps
<1>7. ASSUME NEW o \in Options, NEW v
      PROVE  (o \in DOMAIN a /\ a[o] = v) <=> Holds(c, o[1], o[2], v)
  <2>1. o \in DOMAIN a <=> HasOption(c, o[1], o[2])
    BY <1>4
  <2>2. o \in DOMAIN a => a[o] = OptionAt(c, o[1], o[2])
    BY <1>4
  <2> HIDE DEF a, D
  <2> QED
    BY <1>3, <2>1, <2>2
<1>8. \A o \in Options : o \in DOMAIN a <=> HasOption(c, o[1], o[2])
  BY <1>4
<1>9. \A o \in DOMAIN a : a[o] \in Texts
  BY <1>5
<1>10. DOMAIN a \subseteq Options
  BY <1>4
<1> HIDE DEF a, D
<1> QED
  BY <1>2, <1>6, <1>7, <1>8, <1>9, <1>10

LEMMA SameAnswers ==
  ASSUME NEW c, Sound(c), NEW S \in SUBSET Options, NEW f, f = [o \in S |-> f[o]],
         \A o \in S : Holds(c, o[1], o[2], f[o]),
         \A o \in Options : \A v : Holds(c, o[1], o[2], v) => o \in S
  PROVE  Answers(c) = f
<1> DEFINE a == Answers(c)
           D == DOMAIN a
<1>1. /\ D \subseteq Options
      /\ \A o \in Options : \A v : (o \in D /\ a[o] = v) <=> Holds(c, o[1], o[2], v)
  BY AnswersAre
<1>2. a = [o \in D |-> a[o]]
  <2>1. c # NoConf
    BY ConfIs
  <2> QED
    BY <2>1 DEF Answers
<1> HIDE DEF a, D
<1>3. \A o \in D : o \in S
  BY <1>1
<1>4. \A o \in S : o \in D /\ a[o] = f[o]
  BY <1>1
<1>5. D = S
  BY <1>3, <1>4
<1>6. a = f
  BY <1>2, <1>4, <1>5
<1> QED
  BY <1>6 DEF a

(* What is loaded from a file that was saved: everything, or, when it was  *)
(* cut off, some of it, without spaces.                                    *)
LEMMA ComesBack ==
  ASSUME NEW c, Sound(c), NEW cut \in BOOLEAN, NEW f \in Leaves(c, cut)
  PROVE  \E S \in SUBSET DOMAIN Answers(c) :
           /\ S = DOMAIN Answers(c) \/ cut
           /\ Answers(LoadConfig(f)) = [o \in S |-> Trimmed[Answers(c)[o]]]
<1> DEFINE lines == WrittenLines(c)
           n == Len(lines)
<1>1. lines \in Seq(Lines) /\ n \in Nat /\ c \in Config
  BY WrittenIs DEF Sound
<1>2. f \in File
  <2>1. f \in CutOff(lines) \cup {[lines |-> lines, ended |-> TRUE]}
    BY DEF Leaves
  <2> HIDE DEF lines
  <2> QED
    BY <1>1, <2>1, CutOffIs
<1>3. PICK off : Layout(c, lines, off)
  BY <1>1, LayoutIs
<1> HIDE DEF lines
<1>4. \E m \in 0..n : (m = n \/ cut) /\ WholeLines(f) = SubSeq(lines, 1, m)
  <2>1. CASE f = [lines |-> lines, ended |-> TRUE]
    <3>1. WholeLines(f) = lines
      BY <2>1 DEF WholeLines
    <3>2. SubSeq(lines, 1, n) = lines /\ n \in 0..n
      <4>1. n \in 0..n
        BY <1>1
      <4>2. \A k \in 1..n : SubSeq(lines, 1, n)[k] = lines[k]
        BY <1>1
      <4>3. SubSeq(lines, 1, n) \in Seq(Lines) /\ Len(SubSeq(lines, 1, n)) = Len(lines)
        BY <1>1
      <4> QED
        BY <1>1, <4>1, <4>2, <4>3, SeqEqual
    <3> QED
      BY <3>1, <3>2
  <2>2. ASSUME NEW m \in 0..n, f = [lines |-> SubSeq(lines, 1, m), ended |-> TRUE], cut
        PROVE  \E x \in 0..n : (x = n \/ cut) /\ WholeLines(f) = SubSeq(lines, 1, x)
    <3>1. WholeLines(f) = SubSeq(lines, 1, m)
      BY <2>2 DEF WholeLines
    <3> QED
      BY <2>2, <3>1
  <2>3. ASSUME NEW m \in DOMAIN lines, cut,
               f = [lines |-> SubSeq(lines, 1, m - 1) \o <<Bad>>, ended |-> FALSE]
        PROVE  \E x \in 0..n : (x = n \/ cut) /\ WholeLines(f) = SubSeq(lines, 1, x)
    <3> DEFINE s == SubSeq(lines, 1, m - 1)
               t == s \o <<Bad>>
    <3>1. m - 1 \in 0..n
      BY <1>1
    <3>2. s \in Seq(Lines) /\ Len(s) = m - 1 /\ Len(s) \in Nat
      BY <1>1, <3>1, Divided
    <3>3. WholeLines(f) = Front(t)
      BY <2>3 DEF WholeLines
    <3> HIDE DEF s
    <3>4. Bad \in Lines
      BY DEF Lines
    <3>5. <<Bad>> \in Seq(Lines) /\ Len(<<Bad>>) = 1
      <4> DEFINE b == Bad
      <4>1. b \in Lines
        BY <3>4
      <4> HIDE DEF b
      <4>2. <<b>> \in Seq(Lines) /\ Len(<<b>>) = 1
        BY <4>1
      <4> QED
        BY <4>2 DEF b
    <3>6. t \in Seq(Lines) /\ Len(t) = Len(s) + 1 /\ \A k \in 1..Len(s) : t[k] = s[k]
      <4> DEFINE b == <<Bad>>
      <4> HIDE DEF b
      <4>1. b \in Seq(Lines) /\ Len(b) = 1
        BY <3>5 DEF b
      <4>2. s \o b \in Seq(Lines) /\ Len(s \o b) = Len(s) + 1 /\ \A k \in 1..Len(s) : (s \o b)[k] = s[k]
        <5>1. /\ s \o b \in Seq(Lines) /\ Len(s \o b) = Len(s) + Len(b)
              /\ \A k \in 1..Len(s) : (s \o b)[k] = s[k]
          BY ONLY <3>2, <4>1, Places
        <5> QED
          BY ONLY <4>1, <5>1
      <4> QED
        BY <4>2 DEF b
    <3> HIDE DEF t
    <3>7. Front(t) = SubSeq(t, 1, Len(s))
      BY <3>2, <3>6 DEF Front
    <3>8. SubSeq(t, 1, Len(s)) = s
      <4>1. SubSeq(t, 1, Len(s)) \in Seq(Lines) /\ Len(SubSeq(t, 1, Len(s))) = Len(s)
        BY <3>2, <3>6
      <4>2. \A k \in 1..Len(s) : SubSeq(t, 1, Len(s))[k] = s[k]
        BY <3>2, <3>6
      <4> QED
        BY <3>2, <4>1, <4>2, SeqEqual
    <3> QED
      BY <2>3, <3>1, <3>3, <3>7, <3>8 DEF s
  <2> QED
    BY <2>1, <2>2, <2>3 DEF Leaves, CutOff, lines
<1>5. PICK m \in 0..n : (m = n \/ cut) /\ WholeLines(f) = SubSeq(lines, 1, m)
  BY <1>4
<1> DEFINE few == SubSeq(lines, 1, m)
           r == Reading(few)[m]
           d == r.config
<1>6. few \in Seq(Lines) /\ Len(few) = m
  BY <1>1, Divided
<1>7. PICK i, j : ReadTo(c, off, m, r, i, j)
  BY <1>3, ReadsBack
<1>8. f # NoFile
  BY <1>2, ResourceAssumption
<1>9. LoadConfig(f) = IF r.ok THEN r.config ELSE NoConf
  BY <1>5, <1>6, <1>8 DEF LoadConfig
<1> HIDE DEF r, few
<1>10. /\ i \in 0..Len(c.sections) /\ (i # 0 => j \in 0..Len(c.sections[i].entries))
       /\ Copies(c, d, i, j) /\ r.ok /\ Sound(d)
  BY <1>7, ReadingTypes DEF ReadTo
<1>11. LoadConfig(f) = d
  BY <1>9, <1>10
<1> HIDE DEF d
<1>12. /\ \A s, k, v : Holds(d, s, k, v) => \E w : Holds(c, s, k, w) /\ v = Trimmed[w]
       /\ m = n => \A s, k, w : Holds(c, s, k, w) => Holds(d, s, k, Trimmed[w])
  <2>1. m = n => i = Len(c.sections) /\ (i # 0 => j = Len(c.sections[i].entries))
    BY <1>3, <1>7, AllCopied
  <2>2. /\ \A s, k, v : Holds(d, s, k, v) => \E w : Holds(c, s, k, w) /\ v = Trimmed[w]
        /\ (i = Len(c.sections) /\ (i # 0 => j = Len(c.sections[i].entries))) =>
             \A s, k, w : Holds(c, s, k, w) => Holds(d, s, k, Trimmed[w])
    BY <1>10, CopyHolds
  <2> QED
    BY <2>1, <2>2
<1> DEFINE A == Answers(c)
           B == Answers(d)
           S == DOMAIN B
           g == [o \in S |-> Trimmed[A[o]]]
<1>13. /\ DOMAIN A \subseteq Options
       /\ \A o \in Options : \A v : (o \in DOMAIN A /\ A[o] = v) <=> Holds(c, o[1], o[2], v)
  BY AnswersAre
<1>14. /\ S \subseteq Options /\ B = [o \in S |-> B[o]]
       /\ \A o \in Options : \A v : (o \in S /\ B[o] = v) <=> Holds(d, o[1], o[2], v)
  <2>1. d # NoConf
    BY <1>10, ConfIs
  <2> QED
    BY <1>10, <2>1, AnswersAre DEF Answers
<1> HIDE DEF A, B
<1>15. ASSUME NEW o \in S PROVE o \in DOMAIN A /\ B[o] = Trimmed[A[o]]
  <2>1. o \in Options /\ Holds(d, o[1], o[2], B[o])
    BY <1>14
  <2>2. PICK w : Holds(c, o[1], o[2], w) /\ B[o] = Trimmed[w]
    BY <1>12, <2>1
  <2> QED
    BY <1>13, <2>1, <2>2
<1>16. ASSUME m = n, NEW o \in DOMAIN A PROVE o \in S
  <2>1. o \in Options /\ Holds(c, o[1], o[2], A[o])
    BY <1>13
  <2>2. Holds(d, o[1], o[2], Trimmed[A[o]])
    BY <1>12, <1>16, <2>1
  <2> QED
    BY <1>14, <2>1, <2>2
<1>17. B = g
  <2>1. \A o \in S : B[o] = g[o]
    BY <1>15
  <2> QED
    BY <1>14, <2>1
<1>18. S \in SUBSET DOMAIN A /\ (S = DOMAIN A \/ cut)
  <2>1. S \subseteq DOMAIN A
    BY <1>15
  <2>2. m = n => DOMAIN A \subseteq S
    BY <1>16
  <2> QED
    BY <1>5, <2>1, <2>2
<1> QED
  BY <1>11, <1>17, <1>18 DEF A, B
-------------------------------------------------------------------------------
(* What the history shows is what files and programs answer.               *)
ShownInv ==
  shown = [disk |-> WouldGet(file), system |-> WouldGet(sysFile), memory |-> Memory(conf)]

LEMMA WouldGetIs == \A f : WouldGet(f) = Answers(LoadConfig(f))
BY DEF WouldGet

LEMMA ShownIs ==
  ASSUME ShownInv
  PROVE  /\ shown.disk = Answers(LoadConfig(file)) /\ shown.system = Answers(LoadConfig(sysFile))
         /\ shown.memory = Memory(conf)
BY WouldGetIs DEF ShownInv

LEMMA ShownIsNext ==
  ASSUME ShownInv'
  PROVE  /\ shown'.disk = Answers(LoadConfig(file')) /\ shown'.system = Answers(LoadConfig(sysFile'))
         /\ shown'.memory = Memory(conf')
BY WouldGetIs DEF ShownInv

LEMMA ShownKeeps ==
  ASSUME ShownInv, ResourceNext
  PROVE  ShownInv'
<1>1. sysFile' = sysFile
  BY DEF ResourceNext, ResourceStep, ResourceLoad, ResourceClear, ResourceSet, ResourceGet, SaveCreate,
         SaveWrite, SaveRename, AppCrash, Edit
<1>2. shown' = [shown EXCEPT !.disk = IF file' = file THEN @ ELSE WouldGet(file'),
                             !.memory = IF conf' = conf THEN @ ELSE Memory(conf')]
  BY DEF ResourceNext
<1> DEFINE a == WouldGet(file)
           b == WouldGet(sysFile)
           m == Memory(conf)
           x == IF file' = file THEN a ELSE WouldGet(file')
           y == IF conf' = conf THEN m ELSE Memory(conf')
<1>3. x = WouldGet(file') /\ y = Memory(conf') /\ WouldGet(sysFile') = b
  BY <1>1
<1>4. shown = [disk |-> a, system |-> b, memory |-> m]
  BY DEF ShownInv
<1>5. shown' = [shown EXCEPT !.disk = x, !.memory = y]
  <2> HIDE DEF a, b, m
  <2>1. shown.disk = a /\ shown.memory = m
    BY <1>4
  <2> QED
    BY <1>2, <2>1
<1> HIDE DEF a, b, m, x, y
<1>6. shown' = [disk |-> x, system |-> b, memory |-> y]
  BY <1>4, <1>5
<1> QED
  BY <1>3, <1>6 DEF ShownInv

(* One program's configurations are others.                                *)
LEMMA MemoryPut ==
  ASSUME ResourceInv, NEW p \in Apps, NEW x, conf' = [conf EXCEPT ![p] = x]
  PROVE  Memory(conf') = [Memory(conf) EXCEPT ![p] = [user |-> Answers(x.user), sys |-> Answers(x.sys)]]
<1>1. conf \in [Apps -> Pairs]
  BY DEF ResourceInv
<1>2. \A q \in Apps : conf'[q] = IF q = p THEN x ELSE conf[q]
  BY <1>1
<1> QED
  BY <1>2 DEF Memory

LEMMA MemoryIs ==
  ASSUME NEW p \in Apps
  PROVE  /\ Memory(conf)[p] = [user |-> Answers(conf[p].user), sys |-> Answers(conf[p].sys)]
         /\ Memory(conf)[p].user = Answers(conf[p].user) /\ Memory(conf)[p].sys = Answers(conf[p].sys)
<1>1. Memory(conf)[p] = [user |-> Answers(conf[p].user), sys |-> Answers(conf[p].sys)]
  BY DEF Memory
<1> QED
  BY <1>1

LEMMA AnswersConf ==
  /\ Answers(NoConf) = NoConf
  /\ \A c \in Confs : Answers(c) \in Abstract!Maps \cup {NoConf} /\ (c # NoConf => Answers(c) # NoConf)
<1>1. Answers(NoConf) = NoConf
  BY DEF Answers
<1> QED
  BY <1>1, ConfIs, AnswersAre

LEMMA LoadRefines ==
  ASSUME ResourceInv, ShownInv, ShownInv', NEW p \in Apps, ResourceLoad(p)
  PROVE  Abstract!Load(p)
<1> DEFINE u == LoadConfig(file)
           s == LoadConfig(sysFile)
<1>1. /\ conf' = [conf EXCEPT ![p] = [user |-> u, sys |-> s]]
      /\ file' = file /\ sysFile' = sysFile /\ full' = full /\ edits' = edits
  BY DEF ResourceLoad
<1>2. /\ shown.disk = Answers(u) /\ shown.system = Answers(s) /\ shown.memory = Memory(conf)
      /\ shown'.disk = shown.disk /\ shown'.system = shown.system /\ shown'.memory = Memory(conf')
  BY <1>1, ShownIs, ShownIsNext
<1> HIDE DEF u, s
<1>3. Memory(conf') = [Memory(conf) EXCEPT ![p] = [user |-> Answers(u), sys |-> Answers(s)]]
  BY <1>1, MemoryPut
<1> QED
  BY <1>1, <1>2, <1>3 DEF Abstract!Load

LEMMA ForgetRefines ==
  ASSUME ResourceInv, ShownInv, ShownInv', NEW p \in Apps, ResourceClear(p) \/ AppCrash(p)
  PROVE  Abstract!Forget(p)
<1>1. /\ conf' = [conf EXCEPT ![p] = [user |-> NoConf, sys |-> NoConf]]
      /\ file' = file /\ sysFile' = sysFile /\ full' = full /\ edits' = edits
  BY DEF ResourceClear, AppCrash
<1>2. /\ shown.memory = Memory(conf) /\ shown'.disk = shown.disk /\ shown'.system = shown.system
      /\ shown'.memory = Memory(conf')
  BY <1>1, ShownIs, ShownIsNext
<1>3. Memory(conf') = [Memory(conf) EXCEPT ![p] = [user |-> Answers(NoConf), sys |-> Answers(NoConf)]]
  BY <1>1, MemoryPut
<1> QED
  BY <1>1, <1>2, <1>3, AnswersConf DEF Abstract!Forget, Abstract!Nothing

(* What set() does to the answers.                                         *)
LEMMA SetAnswers ==
  ASSUME NEW c \in Confs, NEW o \in Options, NEW v \in Given
  PROVE  Answers(ConfigSet(IF c = NoConf THEN EmptyConf ELSE c, o[1], o[2], v)) =
           IF Answers(c) = NoConf THEN [x \in {o} |-> v] ELSE Abstract!Put(Answers(c), o, v)
<1> DEFINE e == IF c = NoConf THEN EmptyConf ELSE c
           d == ConfigSet(e, o[1], o[2], v)
           A == Answers(c)
<1>1. v \in Texts /\ o[1] \in STRING /\ o[2] \in STRING /\ Sound(e) /\ Sound(d)
  BY OptionIs, SetKeeps, ResourceAssumption
<1>2. \A l, m, w : Holds(d, l, m, w) <=> IF l = o[1] /\ m = o[2] THEN w = v ELSE Holds(e, l, m, w)
  <2> DEFINE a == o[1]
             b == o[2]
             g == ConfigSet(e, a, b, v)
  <2>1. a \in STRING /\ b \in STRING /\ v \in Texts /\ Sound(e)
    BY <1>1
  <2> HIDE DEF a, b, e
  <2>2. \A l, m, w : Holds(g, l, m, w) <=> IF l = a /\ m = b THEN w = v ELSE Holds(e, l, m, w)
    BY ONLY <2>1, SetIs
  <2>3. d = g /\ a = o[1] /\ b = o[2]
    BY DEF a, b
  <2> HIDE DEF d, g
  <2> QED
    BY ONLY <2>2, <2>3
<1>3. \A x \in Options : x[1] = o[1] /\ x[2] = o[2] => x = o
  BY OptionIs
<1> HIDE DEF d
<1>4. CASE c = NoConf
  <2> DEFINE f == [x \in {o} |-> v]
  <2>1. \A l, m, w : Holds(d, l, m, w) <=> l = o[1] /\ m = o[2] /\ w = v
    BY <1>2, <1>4, StartIs
  <2>2. {o} \in SUBSET Options /\ f = [x \in {o} |-> f[x]] /\ f[o] = v
    OBVIOUS
  <2>3. \A x \in {o} : Holds(d, x[1], x[2], f[x])
    BY <2>1, <2>2
  <2>4. \A x \in Options : \A w : Holds(d, x[1], x[2], w) => x \in {o}
    BY <1>3, <2>1
  <2> HIDE DEF f
  <2>5. Answers(d) = f
    BY <1>1, <2>2, <2>3, <2>4, SameAnswers
  <2>6. A = NoConf
    BY <1>4, AnswersConf
  <2> QED
    BY <2>5, <2>6 DEF f, d
<1>5. CASE c # NoConf
  <2> DEFINE f == Abstract!Put(A, o, v)
             S == DOMAIN A \cup {o}
  <2>1. A # NoConf /\ e = c
    BY <1>5, AnswersConf
  <2>2. /\ DOMAIN A \subseteq Options
        /\ \A x \in Options : \A w : (x \in DOMAIN A /\ A[x] = w) <=> Holds(c, x[1], x[2], w)
    <3>1. Sound(c)
      BY <1>1, <2>1
    <3> QED
      BY ONLY <3>1, AnswersAre
  <2>3. f = [x \in S |-> IF x = o THEN v ELSE A[x]]
    BY DEF Abstract!Put
  <2> HIDE DEF A, f, e
  <2>4. S \in SUBSET Options
    BY <2>2
  <2>5. f = [x \in S |-> f[x]] /\ \A x \in S : f[x] = IF x = o THEN v ELSE A[x]
    BY <2>3
  <2> HIDE DEF S
  <2>6. ASSUME NEW x \in S PROVE Holds(d, x[1], x[2], f[x])
    <3>1. CASE x = o
      BY <1>2, <2>5, <3>1
    <3>2. CASE x # o
      <4>1. x \in DOMAIN A /\ x \in Options /\ f[x] = A[x]
        BY <2>4, <2>5, <3>2 DEF S
      <4>2. Holds(c, x[1], x[2], f[x]) /\ ~(x[1] = o[1] /\ x[2] = o[2])
        BY <1>3, <2>2, <3>2, <4>1
      <4> QED
        BY <1>2, <2>1, <4>2
    <3> QED
      BY <3>1, <3>2
  <2>7. ASSUME NEW x \in Options, NEW w, Holds(d, x[1], x[2], w) PROVE x \in S
    <3>1. CASE x = o
      BY <3>1 DEF S
    <3>2. CASE x # o
      <4>1. Holds(c, x[1], x[2], w)
        BY <1>2, <1>3, <2>1, <2>7, <3>2
      <4> QED
        BY <2>2, <4>1 DEF S
    <3> QED
      BY <3>1, <3>2
  <2>8. Answers(d) = f
    BY <1>1, <2>4, <2>5, <2>6, <2>7, SameAnswers
  <2> QED
    BY <2>1, <2>8 DEF f, d, e, A
<1> QED
  BY <1>4, <1>5

LEMMA SetRefines ==
  ASSUME ResourceInv, ShownInv, ShownInv', NEW p \in Apps, NEW o \in Options, NEW v \in Given,
         ResourceSet(p, o[1], o[2], v)
  PROVE  Abstract!Set(p, o, v)
<1> DEFINE c == conf[p].user
           d == ConfigSet(IF c = NoConf THEN EmptyConf ELSE c, o[1], o[2], v)
           x == [user |-> d, sys |-> conf[p].sys]
           M == Memory(conf)
           a == IF Answers(c) = NoConf THEN [y \in {o} |-> v] ELSE Abstract!Put(Answers(c), o, v)
<1>1. /\ conf' = [conf EXCEPT ![p].user = d]
      /\ file' = file /\ sysFile' = sysFile /\ full' = full /\ edits' = edits
  BY DEF ResourceSet
<1>2. /\ shown.memory = M /\ shown'.disk = shown.disk /\ shown'.system = shown.system
      /\ shown'.memory = Memory(conf')
  BY <1>1, ShownIs, ShownIsNext
<1>3. c \in Confs /\ conf[p] = [user |-> c, sys |-> conf[p].sys]
  BY PairIs
<1>4. Answers(d) = a
  BY <1>3, SetAnswers
<1>5. conf' = [conf EXCEPT ![p] = x]
  <2>1. conf' = [conf EXCEPT ![p] = [conf[p] EXCEPT !.user = d]]
    BY <1>1
  <2>2. [conf[p] EXCEPT !.user = d] = x
    <3> HIDE DEF d
    <3> DEFINE y == conf[p]
               z == y.sys
    <3>1. y \in Pairs /\ x = [user |-> d, sys |-> z]
      BY PairIs
    <3> HIDE DEF y, x
    <3>2. [y EXCEPT !.user = d] = [user |-> d, sys |-> z]
      BY <3>1 DEF Pairs
    <3> QED
      BY <3>1, <3>2 DEF y
  <2> QED
    BY <2>1, <2>2
<1>6. Memory(conf') = [M EXCEPT ![p] = [user |-> a, sys |-> Answers(conf[p].sys)]]
  <2>1. x.user = d /\ x.sys = conf[p].sys
    OBVIOUS
  <2> HIDE DEF x, d, a
  <2> QED
    BY <1>4, <1>5, <2>1, MemoryPut
<1>7. M[p] = [user |-> Answers(c), sys |-> Answers(conf[p].sys)] /\ M[p].user = Answers(c)
  BY MemoryIs
<1>8. [M[p] EXCEPT !.user = a] = [user |-> a, sys |-> Answers(conf[p].sys)]
  <2> HIDE DEF a, M
  <2> QED
    BY <1>7
<1>9. Memory(conf') = [M EXCEPT ![p].user = IF @ = NoConf THEN [y \in {o} |-> v] ELSE Abstract!Put(@, o, v)]
  <2> HIDE DEF M
  <2>1. Memory(conf') = [M EXCEPT ![p] = [M[p] EXCEPT !.user = a]]
    BY <1>6, <1>8
  <2> QED
    BY <1>7, <2>1
<1> QED
  BY <1>1, <1>2, <1>9 DEF Abstract!Set

(* What get() does to the answers of one configuration.                    *)
LEMMA GetAnswers ==
  ASSUME NEW c, Sound(c), NEW o \in Options, NEW truth \in BOOLEAN
  PROVE  Answers(ConfigGet(c, o[1], o[2], truth)) =
           IF truth /\ HasOption(c, o[1], o[2]) THEN [Answers(c) EXCEPT ![o] = Lowered[@]] ELSE Answers(c)
<1> DEFINE d == ConfigGet(c, o[1], o[2], truth)
           A == Answers(c)
           S == DOMAIN A
           u == OptionAt(c, o[1], o[2])
           low == truth /\ HasOption(c, o[1], o[2])
           f == [x \in S |-> IF low /\ x = o THEN Lowered[u] ELSE A[x]]
<1>1. o[1] \in STRING /\ o[2] \in STRING /\ \A x \in Options : x[1] = o[1] /\ x[2] = o[2] => x = o
  BY OptionIs
<1>2. /\ Sound(d)
      /\ \A l, m, w : Holds(d, l, m, w) <=>
           IF truth /\ l = o[1] /\ m = o[2] THEN HasOption(c, o[1], o[2]) /\ w = Lowered[u] ELSE Holds(c, l, m, w)
  <2> DEFINE a == o[1]
             b == o[2]
             g == ConfigGet(c, a, b, truth)
             h == HasOption(c, a, b)
             t == OptionAt(c, a, b)
  <2>1. a \in STRING /\ b \in STRING /\ truth \in BOOLEAN /\ Sound(c)
    BY <1>1
  <2> HIDE DEF a, b
  <2>2. /\ Sound(g)
        /\ \A l, m, w : Holds(g, l, m, w) <=>
             HoldsThen(c, a, b, truth, l, m, w)
    BY ONLY <2>1, GetIs
  <2>3. d = g /\ u = t /\ a = o[1] /\ b = o[2] /\ (h <=> HasOption(c, o[1], o[2]))
    BY DEF a, b
  <2> HIDE DEF d, g, u
  <2> QED
    BY ONLY <2>2, <2>3 DEF HoldsThen
<1>3. /\ S \subseteq Options
      /\ (o \in S <=> HasOption(c, o[1], o[2]))
      /\ \A x \in Options : \A v : (x \in S /\ A[x] = v) <=> Holds(c, x[1], x[2], v)
  BY AnswersAre
<1>4. HasOption(c, o[1], o[2]) => Holds(c, o[1], o[2], u)
  BY HasIs
<1>5. A = [x \in S |-> A[x]]
  <2>1. c # NoConf
    BY ConfIs
  <2> QED
    BY <2>1 DEF Answers
<1> HIDE DEF d, A, u, S
<1>6. f = [x \in S |-> f[x]] /\ \A x \in S : f[x] = IF low /\ x = o THEN Lowered[u] ELSE A[x]
  OBVIOUS
<1> HIDE DEF f
<1>7. ASSUME NEW x \in S PROVE Holds(d, x[1], x[2], f[x])
  <2>1. x \in Options /\ Holds(c, x[1], x[2], A[x])
    BY <1>3
  <2>2. CASE x = o /\ truth
    BY <1>2, <1>3, <1>6, <2>2
  <2>3. CASE x # o
    BY <1>1, <1>2, <1>6, <2>1, <2>3
  <2>4. CASE ~truth
    BY <1>2, <1>6, <2>1, <2>4
  <2> QED
    BY <2>2, <2>3, <2>4
<1>8. ASSUME NEW x \in Options, NEW w, Holds(d, x[1], x[2], w) PROVE x \in S
  <2>1. CASE x = o /\ truth
    BY <1>2, <1>3, <1>8, <2>1
  <2>2. CASE ~(x = o /\ truth)
    <3>1. Holds(c, x[1], x[2], w)
      BY <1>1, <1>2, <1>8, <2>2
    <3> QED
      BY <1>3, <3>1
  <2> QED
    BY <2>1, <2>2
<1>9. Answers(d) = f
  BY <1>2, <1>3, <1>6, <1>7, <1>8, SameAnswers
<1>10. CASE low
  <2>1. o \in S /\ A[o] = u
    BY <1>3, <1>4, <1>10
  <2>2. f = [A EXCEPT ![o] = Lowered[@]]
    BY <1>5, <1>6, <1>10, <2>1
  <2> QED
    BY <1>9, <1>10, <2>2 DEF d, A
<1>11. CASE ~low
  <2>1. f = A
    BY <1>5, <1>6, <1>11
  <2> QED
    BY <1>9, <1>11, <2>1 DEF d, A
<1> QED
  BY <1>10, <1>11

(* The orders in which the two are asked.                                  *)
LEMMA AsksAre ==
  ASSUME NEW rt \in DOMAIN Asks
  PROVE  /\ Asks[rt] \in Abstract!Orders /\ DOMAIN Asks[rt] \subseteq Nat \ {0}
         /\ \A i \in DOMAIN Asks[rt] : Asks[rt][i] \in {"user", "sys"} /\ 1..i \subseteq DOMAIN Asks[rt]
<1>1. Asks[rt] \in {<<"user">>, <<"sys">>, <<"user", "sys">>, <<"sys", "user">>}
  BY DEF Asks
<1> DEFINE q == Asks[rt]
<1> HIDE DEF q
<1>2. CASE q = <<"user">> \/ q = <<"sys">>
  <2>1. DOMAIN q = {1} /\ q[1] \in {"user", "sys"}
    BY <1>2
  <2> QED
    BY <1>1, <2>1 DEF Abstract!Orders, q
<1>3. CASE q = <<"user", "sys">> \/ q = <<"sys", "user">>
  <2>1. DOMAIN q = {1, 2} /\ q[1] \in {"user", "sys"} /\ q[2] \in {"user", "sys"}
    BY <1>3
  <2> QED
    BY <1>1, <2>1 DEF Abstract!Orders, q
<1> QED
  BY <1>1, <1>2, <1>3 DEF q

LEMMA GetRefines ==
  ASSUME ResourceInv, ShownInv, ShownInv', NEW p \in Apps, NEW o \in Options, NEW rt \in DOMAIN Asks,
         NEW truth \in BOOLEAN, ResourceGet(p, o[1], o[2], rt, truth)
  PROVE  UNCHANGED Abstract!vars \/ Abstract!Get(p, o, Asks[rt])
<1> DEFINE q == Asks[rt]
           has(w) == HasOption(conf[p][w], o[1], o[2])
           asked == Asked(p, o[1], o[2], rt)
           Got(w) == IF w \in asked THEN ConfigGet(conf[p][w], o[1], o[2], truth) ELSE conf[p][w]
           x == [user |-> Got("user"), sys |-> Got("sys")]
           M == Memory(conf)
           A(w) == Answers(conf[p][w])
           Low(w) == [A(w) EXCEPT ![o] = Lowered[@]]
           found(i) == has(q[i]) /\ \A j \in 1..(i - 1) : ~has(q[j])
           one(w) == IF truth /\ w \in asked /\ has(w) THEN Low(w) ELSE A(w)
<1>1. /\ conf' = [conf EXCEPT ![p] = x]
      /\ file' = file /\ sysFile' = sysFile /\ full' = full /\ edits' = edits
  BY DEF ResourceGet
<1>2. /\ shown.memory = M /\ shown'.disk = shown.disk /\ shown'.system = shown.system
      /\ shown'.memory = Memory(conf')
  BY <1>1, ShownIs, ShownIsNext
<1>3. /\ q \in Abstract!Orders /\ DOMAIN q \subseteq Nat \ {0}
      /\ \A i \in DOMAIN q : q[i] \in {"user", "sys"} /\ 1..i \subseteq DOMAIN q
  BY AsksAre
<1>4. \A w \in {"user", "sys"} : conf[p][w] \in Confs
  BY PairIs
<1>5. \A w : w \in asked => conf[p][w] # NoConf
  BY DEF Asked
<1>6. ASSUME NEW w PROVE w \in asked /\ has(w) <=> \E i \in DOMAIN q : q[i] = w /\ found(i)
  <2>1. w \in asked <=> \E i \in DOMAIN q : /\ w = q[i] /\ conf[p][q[i]] # NoConf
                                          /\ \A j \in 1..(i - 1) : ~has(q[j])
    BY DEF Asked
  <2>2. has(w) => conf[p][w] # NoConf
    BY DEF HasOption
  <2> HIDE DEF has, asked, q
  <2> QED
    BY <2>1, <2>2
<1>7. ASSUME NEW i \in DOMAIN q, NEW j \in DOMAIN q, found(i), found(j) PROVE i = j
  <2>1. i \in Nat /\ j \in Nat /\ i # 0 /\ j # 0
    BY <1>3
  <2>2. ~(i < j)
    <3> SUFFICES ASSUME i < j PROVE FALSE
      OBVIOUS
    <3>1. i \in 1..(j - 1)
      BY <2>1
    <3> HIDE DEF has, q
    <3> QED
      BY <1>7, <3>1
  <2>3. ~(j < i)
    <3> SUFFICES ASSUME j < i PROVE FALSE
      OBVIOUS
    <3>1. j \in 1..(i - 1)
      BY <2>1
    <3> HIDE DEF has, q
    <3> QED
      BY <1>7, <3>1
  <2> QED
    BY <2>1, <2>2, <2>3
<1>8. ASSUME NEW w \in {"user", "sys"} PROVE Answers(Got(w)) = one(w)
  <2>1. CASE w \in asked
    <3>1. Sound(conf[p][w])
      BY <1>4, <1>5, <2>1, ConfIs
    <3>2. Got(w) = ConfigGet(conf[p][w], o[1], o[2], truth)
      BY <2>1
    <3> HIDE DEF Got
    <3> QED
      BY <2>1, <3>1, <3>2, GetAnswers
  <2>2. CASE w \notin asked
    BY <2>2
  <2> QED
    BY <2>1, <2>2
<1>9. M[p] = [user |-> A("user"), sys |-> A("sys")]
  BY MemoryIs, PairIs
<1> DEFINE y == [user |-> one("user"), sys |-> one("sys")]
<1>10. Memory(conf') = [M EXCEPT ![p] = y]
  <2>1. x.user = Got("user") /\ x.sys = Got("sys")
    OBVIOUS
  <2>2. Answers(Got("user")) = one("user") /\ Answers(Got("sys")) = one("sys")
    BY <1>8
  <2> HIDE DEF x, Got, one
  <2>3. [user |-> Answers(x.user), sys |-> Answers(x.sys)] = y
    BY ONLY <2>1, <2>2
  <2> HIDE DEF y
  <2>4. Memory(conf') = [Memory(conf) EXCEPT ![p] = [user |-> Answers(x.user), sys |-> Answers(x.sys)]]
    BY <1>1, MemoryPut
  <2> QED
    BY <2>3, <2>4
<1>11. \A w \in {"user", "sys"} : M[p][w] = A(w) /\ (Abstract!Has(M[p][w], o) <=> has(w))
  <2>1. \A w \in {"user", "sys"} : M[p][w] = A(w)
    BY <1>9
  <2>2. ASSUME NEW w \in {"user", "sys"} PROVE Abstract!Has(A(w), o) <=> has(w)
    <3>1. CASE conf[p][w] = NoConf
      BY <3>1, AnswersConf DEF Abstract!Has, HasOption
    <3>2. CASE conf[p][w] # NoConf
      <4>1. Sound(conf[p][w])
        BY <1>4, <3>2, ConfIs
      <4> QED
        BY <4>1, AnswersAre DEF Abstract!Has
    <3> QED
      BY <3>1, <3>2
  <2> HIDE DEF M, has, A
  <2> QED
    BY <2>1, <2>2
<1>12. CASE ~truth \/ ~\E i \in DOMAIN q : found(i)
  <2>1. \A w \in {"user", "sys"} : one(w) = A(w)
    BY <1>6, <1>12
  <2> HIDE DEF one, A
  <2>2. y = M[p]
    BY <1>9, <2>1
  <2> HIDE DEF y
  <2>3. M \in [Apps -> {M[r] : r \in Apps}]
    BY DEF Memory
  <2> HIDE DEF M
  <2>4. Memory(conf') = M
    BY <1>10, <2>2, <2>3
  <2> QED
    BY <1>1, <1>2, <2>4 DEF Abstract!vars
<1>13. CASE truth /\ \E i \in DOMAIN q : found(i)
  <2>1. PICK i \in DOMAIN q : found(i)
    BY <1>13
  <2>2. q[i] \in {"user", "sys"} /\ \A j \in 1..(i - 1) : j \in DOMAIN q /\ q[j] \in {"user", "sys"}
    <3>1. i \in Nat /\ 1..i \subseteq DOMAIN q
      BY <1>3
    <3>2. \A j \in 1..(i - 1) : j \in DOMAIN q
      BY <3>1
    <3> HIDE DEF q
    <3> QED
      BY <1>3, <3>2
  <2>3. \A w \in {"user", "sys"} : one(w) = IF w = q[i] THEN Low(w) ELSE A(w)
    <3>1. ASSUME NEW w \in {"user", "sys"} PROVE w \in asked /\ has(w) <=> w = q[i]
      <4>1. (\E j \in DOMAIN q : q[j] = w /\ found(j)) <=> w = q[i]
        <5> HIDE DEF found, q
        <5> QED
          BY <1>7, <2>1
      <4> QED
        BY <1>6, <4>1
    <3> HIDE DEF asked, has, Low, A, q
    <3> QED
      BY <1>13, <3>1
  <2>4. Abstract!Has(M[p][q[i]], o) /\ \A j \in 1..(i - 1) : ~Abstract!Has(M[p][q[j]], o)
    <3> HIDE DEF M, q, has
    <3> QED
      BY <1>11, <2>1, <2>2
  <2>5. Memory(conf') = [M EXCEPT ![p][q[i]][o] = Lowered[@]]
    <3>1. \A w : Low(w) = [A(w) EXCEPT ![o] = Lowered[@]]
      OBVIOUS
    <3> HIDE DEF A, M, q, one
    <3>2. CASE q[i] = "user"
      <4>1. y = [user |-> Low("user"), sys |-> A("sys")]
        BY <2>3, <3>2
      <4>2. [M[p] EXCEPT !["user"] = [M[p]["user"] EXCEPT ![o] = Lowered[M[p]["user"][o]]]] = y
        <5>1. M[p]["user"] = A("user")
          BY <1>11
        <5> DEFINE a == A("user")
                   b == A("sys")
                   l == [a EXCEPT ![o] = Lowered[a[o]]]
                   m == M[p]
        <5>2. m = [user |-> a, sys |-> b] /\ y = [user |-> l, sys |-> b]
          BY <1>9, <4>1
        <5> HIDE DEF a, b, m, y
        <5>3. [m EXCEPT !["user"] = l] = y
          <6> HIDE DEF l
          <6> QED
            BY <5>2
        <5> QED
          BY <5>1, <5>3 DEF m, a
      <4> HIDE DEF y
      <4> QED
        BY <1>10, <3>2, <4>2
    <3>3. CASE q[i] = "sys"
      <4>1. y = [user |-> A("user"), sys |-> Low("sys")]
        BY <2>3, <3>3
      <4>2. [M[p] EXCEPT !["sys"] = [M[p]["sys"] EXCEPT ![o] = Lowered[M[p]["sys"][o]]]] = y
        <5>1. M[p]["sys"] = A("sys")
          BY <1>11
        <5> DEFINE a == A("user")
                   b == A("sys")
                   l == [b EXCEPT ![o] = Lowered[b[o]]]
                   m == M[p]
        <5>2. m = [user |-> a, sys |-> b] /\ y = [user |-> a, sys |-> l]
          BY <1>9, <4>1
        <5> HIDE DEF a, b, m, y
        <5>3. [m EXCEPT !["sys"] = l] = y
          <6> HIDE DEF l
          <6> QED
            BY <5>2
        <5> QED
          BY <5>1, <5>3 DEF m, b
      <4> HIDE DEF y
      <4> QED
        BY <1>10, <3>3, <4>2
    <3> QED
      BY <2>2, <3>2, <3>3
  <2>6. Abstract!Get(p, o, q)
    <3> HIDE DEF q, M
    <3> QED
      BY <1>1, <1>2, <2>4, <2>5 DEF Abstract!Get
  <2> QED
    BY <2>6
<1> QED
  BY <1>12, <1>13

LEMMA SaveRefines ==
  ASSUME ResourceInv, full \in BOOLEAN, ShownInv, ShownInv', NEW p \in Apps,
         SaveCreate(p) \/ SaveWrite(p) \/ SaveRename(p)
  PROVE  UNCHANGED Abstract!vars \/ Abstract!Save(p)
<1>1. conf' = conf /\ sysFile' = sysFile /\ full' = full /\ edits' = edits
  BY DEF SaveCreate, SaveWrite, SaveRename
<1>2. /\ shown.memory = Memory(conf) /\ shown'.memory = shown.memory /\ shown'.system = shown.system
      /\ shown.disk = Answers(LoadConfig(file)) /\ shown'.disk = Answers(LoadConfig(file'))
  BY <1>1, ShownIs, ShownIsNext
<1>3. CASE file' = file
  <2>1. shown'.disk = shown.disk
    BY <1>2, <1>3
  <2> QED
    BY <1>1, <1>2, <2>1 DEF Abstract!vars
<1>4. CASE file' # file
  <2>1. SaveRename(p) /\ file' = temp[p]
    BY <1>4 DEF SaveCreate, SaveWrite, SaveRename
  <2> DEFINE c == conf[p].user
  <2>2. temp[p] \in Leaves(c, full) /\ c # NoConf /\ c \in Confs
    BY <2>1, PairIs DEF SaveRename, ResourceInv, Saves
  <2>3. Sound(c)
    BY <2>2, ConfIs
  <2>4. PICK S \in SUBSET DOMAIN Answers(c) :
          /\ S = DOMAIN Answers(c) \/ full
          /\ Answers(LoadConfig(temp[p])) = [o \in S |-> Trimmed[Answers(c)[o]]]
    BY <2>2, <2>3, ComesBack
  <2>5. shown.memory[p].user = Answers(c) /\ Answers(c) # NoConf
    BY <1>2, <2>2, MemoryIs, AnswersConf
  <2> HIDE DEF c
  <2>6. shown'.disk = [o \in S |-> Trimmed[shown.memory[p].user[o]]]
    BY <1>2, <2>1, <2>4, <2>5
  <2> QED
    BY <1>1, <1>2, <2>4, <2>5, <2>6 DEF Abstract!Save
<1> QED
  BY <1>3, <1>4

LEMMA EditRefines ==
  ASSUME ResourceInv, ShownInv, ShownInv', Edit
  PROVE  Abstract!Edit
<1>1. /\ conf' = conf /\ sysFile' = sysFile /\ full' = full
      /\ edits < MaxEdits /\ edits' = edits + 1 /\ file' \in File \cup {NoFile}
  BY ResourceAssumption DEF Edit
<1>2. /\ shown'.memory = shown.memory /\ shown'.system = shown.system
      /\ shown'.disk = Answers(LoadConfig(file'))
  BY <1>1, ShownIs, ShownIsNext
<1>3. shown'.disk \in Abstract!Maps \cup {NoConf}
  BY <1>1, <1>2, ConfIs, AnswersConf
<1> QED
  BY <1>1, <1>2, <1>3 DEF Abstract!Edit

ConfigInv == ResourceInv /\ ShownInv /\ full \in BOOLEAN

LEMMA ConfigInvInit ==
  ASSUME ResourceInit
  PROVE  ConfigInv /\ Abstract!Init
<1>1. ResourceInv /\ ShownInv /\ full \in BOOLEAN
  BY ResourceInvInit DEF ResourceInit, ShownInv
<1>2. /\ shown.disk \in Abstract!Maps \cup {NoConf} /\ shown.system \in Abstract!Maps \cup {NoConf}
      /\ shown.memory = Memory(conf)
  BY <1>1, ShownIs, ConfIs, AnswersConf DEF ResourceInv
<1>3. Memory(conf) = [p \in Apps |-> Abstract!Nothing]
  BY AnswersConf DEF Memory, ResourceInit, Abstract!Nothing
<1> QED
  BY <1>1, <1>2, <1>3 DEF ConfigInv, Abstract!Init, ResourceInit

LEMMA ConfigInvStep ==
  ASSUME ConfigInv, [ResourceNext]_resourceVars
  PROVE  ConfigInv'
<1>1. ResourceInv'
  BY ResourceInvStep DEF ConfigInv
<1>2. full' = full
  BY DEF ResourceNext, ResourceStep, ResourceLoad, ResourceClear, ResourceSet, ResourceGet, SaveCreate,
         SaveWrite, SaveRename, AppCrash, Edit, resourceVars
<1>3. ShownInv'
  <2>1. CASE ResourceNext
    BY <2>1, ShownKeeps DEF ConfigInv
  <2>2. CASE UNCHANGED resourceVars
    BY <2>2 DEF resourceVars, ConfigInv, ShownInv
  <2> QED
    BY <2>1, <2>2
<1> QED
  BY <1>1, <1>2, <1>3 DEF ConfigInv

LEMMA ConfigRefines ==
  ASSUME ConfigInv, ConfigInv', [ResourceNext]_resourceVars
  PROVE  [Abstract!Next]_(Abstract!vars) /\ [CallsCount]_conf
<1>0. ResourceInv /\ ShownInv /\ ShownInv' /\ full \in BOOLEAN
  BY DEF ConfigInv
<1>1. CASE UNCHANGED resourceVars
  BY <1>1 DEF resourceVars, Abstract!vars
<1>2. CASE ResourceStep
  <2>1. ASSUME NEW p \in Apps, ResourceLoad(p) \/ ResourceClear(p) \/ AppCrash(p) PROVE Abstract!Next
    BY <1>0, <2>1, LoadRefines, ForgetRefines DEF Abstract!Next
  <2>2. ASSUME NEW p \in Apps, SaveCreate(p) \/ SaveWrite(p) \/ SaveRename(p) PROVE Abstract!Next
    BY <1>0, <2>2, SaveRefines DEF Abstract!Next
  <2>3. ASSUME NEW p \in Apps, NEW o \in Options, NEW v \in Given, ResourceSet(p, o[1], o[2], v)
        PROVE  Abstract!Next
    BY <1>0, <2>3, SetRefines, ResourceAssumption DEF Abstract!Next
  <2>4. ASSUME NEW p \in Apps, NEW o \in Options, NEW rt \in DOMAIN Asks, NEW truth \in BOOLEAN,
               ResourceGet(p, o[1], o[2], rt, truth)
        PROVE  Abstract!Next
    BY <1>0, <2>4, GetRefines, AsksAre DEF Abstract!Next
  <2>5. ASSUME Edit PROVE Abstract!Next
    BY <1>0, <2>5, EditRefines DEF Abstract!Next
  <2>6. Abstract!Next
    BY <1>2, <2>1, <2>2, <2>3, <2>4, <2>5 DEF ResourceStep
  <2>7. CallsCount
    BY <1>0, LoadRefines, SetRefines DEF CallsCount
  <2> QED
    BY <2>6, <2>7
<1> QED
  BY <1>1, <1>2 DEF ResourceNext

(* Through every load, set, get and save, with edits, full disks and ends  *)
(* of programs between any two steps, a configuration is the map it stands *)
(* for and the disk goes from one map to another (Config.cpp, Resource.cpp).*)
THEOREM ConfigurationsAreMaps == ResourceSpec => IsAConfiguration
<1>1. ConfigInv /\ [ResourceNext]_resourceVars => ConfigInv'
  BY ConfigInvStep
<1>2. ConfigInv /\ ConfigInv' /\ [ResourceNext]_resourceVars =>
        [Abstract!Next]_(Abstract!vars) /\ [CallsCount]_conf
  BY ConfigRefines
<1>3. ResourceInit => ConfigInv /\ Abstract!Init
  BY ConfigInvInit
<1> QED
  BY <1>1, <1>2, <1>3, PTL DEF ResourceSpec, IsAConfiguration, Abstract!Spec
===============================================================================
