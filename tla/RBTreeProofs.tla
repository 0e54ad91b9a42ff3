---------------------------- MODULE RBTreeProofs ----------------------------
(***************************************************************************)
(* What is proved of the red-black tree, for any number of nodes and any    *)
(* keys: every property that its run checks.                               *)
(*                                                                         *)
(* A position `at' numbers the nodes in the order of a walk of the tree, and *)
(* `end' says for each node where its subtree begins and ends in it; a      *)
(* rotation keeps the positions, an insertion and a deletion shift them,    *)
(* and the keys grow with them.  A black height `bh' counts the black nodes *)
(* below each node, where one is missing below the place that a deletion   *)
(* repairs.  The invariant says that such numbers exist.                   *)
(*                                                                         *)
(* The recursive functions of RBTree go down, or up, a tree that is as deep *)
(* as it happens to be.  What they compute is shown by the size of a        *)
(* subtree, as a rank: a set of ranks has a least member, hence induction  *)
(* over a given set of nodes, and hence a function with the equations of   *)
(* the recursive definition exists, so that CHOOSE has chosen one.         *)
(***************************************************************************)
EXTENDS RBTree, ListTheorems, WellFoundedInduction

\* A set of natural numbers has a least one.
LEMMA LeastNumber ==
    ASSUME NEW S \in SUBSET Nat, S # {}
    PROVE  \E k \in S : \A j \in S : k <= j
<1> DEFINE R == OpToRel(<, Nat)
<1>1. IsWellFoundedOn(R, Nat)
  BY NatLessThanWellFounded
<1>2. \A i, j \in Nat : i < j => <<i, j>> \in R
  BY DEF OpToRel
<1> HIDE DEF R
<1>3. PICK k \in S : \A j \in S : ~ (<<j, k>> \in R)
  <2>1. S \subseteq Nat
    OBVIOUS
  <2> QED
    BY <1>1, <2>1, WFMin, Zenon
<1>4. \A j \in S : ~ (j < k) /\ j \in Nat /\ k \in Nat
  BY <1>2, <1>3
<1> QED
  BY <1>4

\* Induction over the nodes, from the lowest rank up.
LEMMA RankInduction ==
    ASSUME NEW M, NEW rank \in [M -> Nat], NEW P,
           \A n \in M : (\A m \in M : rank[m] < rank[n] => m \in P) => n \in P
    PROVE  M \subseteq P
<1> DEFINE S == {rank[n] : n \in M \ P}
<1> SUFFICES ASSUME M \ P # {} PROVE FALSE
  OBVIOUS
<1>1. S \in SUBSET Nat /\ S # {}
  OBVIOUS
<1>2. PICK k \in S : \A j \in S : k <= j
  <2> HIDE DEF S
  <2> QED
    BY <1>1, LeastNumber
<1>3. PICK n \in M \ P : k = rank[n]
  BY <1>2
<1>4. ASSUME NEW m \in M, rank[m] < rank[n] PROVE m \in P
  <2> SUFFICES ASSUME m \notin P PROVE FALSE
    OBVIOUS
  <2>1. k <= rank[m] /\ rank[m] \in Nat /\ rank[n] \in Nat
    BY <1>2
  <2> QED
    BY <1>3, <1>4, <2>1
<1> QED
  BY <1>3, <1>4

\* A function of the nodes can be defined from what it is for their children.
Computes(g, D, nil, l, r, base, join) ==
    /\ g[nil] = base
    /\ \A n \in D : g[n] = join[<<n, g[l[n]], g[r[n]]>>]

LEMMA RankRecursion ==
    ASSUME NEW M, NEW rank \in [M -> Nat], NEW nil, nil \notin M,
           NEW l \in [M -> M \cup {nil}], NEW r \in [M -> M \cup {nil}],
           \A n \in M : /\ l[n] # nil => rank[l[n]] < rank[n]
                        /\ r[n] # nil => rank[r[n]] < rank[n],
           NEW V, NEW base \in V, NEW join \in [M \X V \X V -> V]
    PROVE  \E g \in [M \cup {nil} -> V] : Computes(g, M, nil, l, r, base, join)
<1> DEFINE D(k) == {n \in M : rank[n] < k}
           Solved(k, g) == /\ g \in [D(k) \cup {nil} -> V]
                           /\ Computes(g, D(k), nil, l, r, base, join)
           Bad == {k \in Nat : ~ \E g : Solved(k, g)}
<1>1. \A k \in Nat, n \in M : n \in D(k + 1) => /\ l[n] \in D(k) \cup {nil}
                                               /\ r[n] \in D(k) \cup {nil}
  OBVIOUS
<1>2. \A k \in Nat : \E g : Solved(k, g)
  <2> SUFFICES ASSUME Bad # {} PROVE FALSE
    OBVIOUS
  <2>1. PICK k \in Bad : \A j \in Bad : k <= j
    <3>1. Bad \in SUBSET Nat
      OBVIOUS
    <3> HIDE DEF Bad
    <3> QED
      BY <3>1, LeastNumber
  <2>2. k # 0
    <3>1. D(0) = {}
      OBVIOUS
    <3> DEFINE g == [n \in {nil} |-> base]
    <3>2. Solved(0, g)
      BY <3>1 DEF Computes
    <3> HIDE DEF Solved, g
    <3> QED
      BY <3>2
  <2>3. k - 1 \in Nat /\ k - 1 \notin Bad /\ k = (k - 1) + 1
    <3>1. Bad \subseteq Nat
      OBVIOUS
    <3> HIDE DEF Bad
    <3>2. k \in Nat /\ k - 1 \in Nat /\ k = (k - 1) + 1 /\ ~ (k <= k - 1)
      BY <2>1, <2>2, <3>1
    <3> QED
      BY <2>1, <3>2
  <2>4. PICK g : Solved(k - 1, g)
    BY <2>3
  <2> DEFINE h == [n \in D(k) \cup {nil} |->
                      IF n = nil THEN base ELSE join[<<n, g[l[n]], g[r[n]]>>]]
  <2>5. \A n \in D(k) : /\ l[n] \in D(k - 1) \cup {nil} /\ r[n] \in D(k - 1) \cup {nil}
                        /\ n \in M /\ n # nil
    BY <1>1, <2>3
  <2>6. /\ h \in [D(k) \cup {nil} -> V] /\ h[nil] = base
        /\ \A n \in D(k) : h[n] = join[<<n, g[l[n]], g[r[n]]>>]
    <3>1. \A n \in D(k) : g[l[n]] \in V /\ g[r[n]] \in V /\ n \in M /\ n # nil
      BY <2>4, <2>5
    <3> HIDE DEF D
    <3>2. \A n \in D(k) : join[<<n, g[l[n]], g[r[n]]>>] \in V
      BY <3>1
    <3> QED
      BY <3>1, <3>2
  <2>7. \A n \in D(k - 1) \cup {nil} : h[n] = g[n]
    <3>1. \A n \in D(k - 1) : n \in D(k)
      BY <2>3
    <3>2. g[nil] = base /\ \A n \in D(k - 1) : g[n] = join[<<n, g[l[n]], g[r[n]]>>]
      BY <2>4 DEF Computes
    <3> HIDE DEF D, h
    <3> QED
      BY <2>6, <3>1, <3>2
  <2>8. Solved(k, h)
    <3> HIDE DEF D, h
    <3>1. \A n \in D(k) : h[n] = join[<<n, h[l[n]], h[r[n]]>>]
      BY <2>5, <2>6, <2>7
    <3> QED
      BY <2>6, <3>1 DEF Computes
  <2> HIDE DEF Solved, h
  <2> QED
    BY <2>1, <2>8
<1> DEFINE G(k) == CHOOSE g : Solved(k, g)
<1>3. \A k \in Nat : Solved(k, G(k))
  <2> HIDE DEF Solved
  <2> QED
    BY <1>2
<1>4. ASSUME NEW j \in Nat, NEW k \in Nat
      PROVE  \A n \in M : n \in D(j) /\ n \in D(k) => G(j)[n] = G(k)[n]
  <2> DEFINE P == {n \in M : n \in D(j) /\ n \in D(k) => G(j)[n] = G(k)[n]}
  <2>1. Computes(G(j), D(j), nil, l, r, base, join) /\ Computes(G(k), D(k), nil, l, r, base, join)
    BY <1>3
  <2> HIDE DEF G
  <2>2. ASSUME NEW n \in M, \A m \in M : rank[m] < rank[n] => m \in P PROVE n \in P
    <3> SUFFICES ASSUME n \in D(j), n \in D(k) PROVE G(j)[n] = G(k)[n]
      OBVIOUS
    <3>1. \A m \in {l[n], r[n]} : m = nil \/ (m \in D(j) /\ m \in D(k) /\ m \in P)
      BY <2>2
    <3>2. \A m \in {l[n], r[n]} : G(j)[m] = G(k)[m]
      BY <2>1, <3>1 DEF Computes
    <3> QED
      BY <2>1, <3>2 DEF Computes
  <2>3. M \subseteq P
    <3> HIDE DEF P
    <3> QED
      BY <2>2, RankInduction
  <2> QED
    BY <2>3
<1> DEFINE f == [n \in M \cup {nil} |-> IF n = nil THEN base ELSE G(rank[n] + 1)[n]]
<1>5. \A n \in M : n \in D(rank[n] + 1) /\ rank[n] + 1 \in Nat
  OBVIOUS
<1>6. f \in [M \cup {nil} -> V] /\ f[nil] = base /\ \A n \in M : f[n] = G(rank[n] + 1)[n]
  <2>1. \A n \in M : G(rank[n] + 1)[n] \in V /\ n # nil
    BY <1>3, <1>5
  <2> HIDE DEF G
  <2> QED
    BY <2>1
<1>7. ASSUME NEW n \in M PROVE f[n] = join[<<n, f[l[n]], f[r[n]]>>]
  <2> DEFINE g == G(rank[n] + 1)
  <2>1. /\ g[nil] = base /\ g[n] = join[<<n, g[l[n]], g[r[n]]>>]
    BY <1>3, <1>5 DEF Computes
  <2>2. \A m \in {l[n], r[n]} : m = nil \/ (m \in M /\ m \in D(rank[n] + 1))
    OBVIOUS
  <2>3. ASSUME NEW m \in {l[n], r[n]} PROVE f[m] = g[m]
    <3>1. CASE m = nil
      BY <1>6, <2>1, <3>1
    <3>2. CASE m \in M /\ m \in D(rank[n] + 1)
      <4>1. f[m] = G(rank[m] + 1)[m] /\ m \in D(rank[m] + 1)
        BY <1>5, <1>6, <3>2
      <4> HIDE DEF D, G, f
      <4> QED
        BY <1>4, <1>5, <3>2, <4>1 DEF g
    <3> QED
      BY <2>2, <3>1, <3>2
  <2> QED
    BY <1>6, <2>1, <2>3
<1> QED
  BY <1>6, <1>7 DEF Computes

Trees == [root: Node \cup {Nil},
          child: [Side -> [Node -> Node \cup {Nil, NoNode}]],
          parent: [Node \cup {Nil} -> Node \cup {NoNode}],
          color: [Node \cup {Nil} -> {"red", "black"}]]

\* What a rotation leaves in each field.
RotatedChild(t, s, n, z, m) ==
    LET up == t.child[Other(s)][n] IN
    IF m = n /\ z = Other(s) THEN t.child[s][up]
    ELSE IF m = up /\ z = s THEN n
    ELSE IF n # t.root /\ m = t.parent[n] /\ z = SideOf(t, n) THEN up
    ELSE t.child[z][m]

RotatedParent(t, s, n, m) ==
    LET up == t.child[Other(s)][n] IN
    IF m = n THEN up
    ELSE IF m = up THEN t.parent[n]
    ELSE IF m = t.child[s][up] /\ m # Nil THEN n
    ELSE t.parent[m]

LEMMA Sides ==
    /\ \A s \in Side : Other(s) \in Side /\ Other(s) # s /\ Other(Other(s)) = s
    /\ \A s, z \in Side : z = s \/ z = Other(s)
  BY DEF Side, Other

\* u is t but for one field.
ChildSets(t, u, z, m, c) ==
    /\ u \in Trees /\ u.root = t.root /\ u.parent = t.parent /\ u.color = t.color
    /\ \A y \in Side, k \in Node :
          u.child[y][k] = IF y = z /\ k = m THEN c ELSE t.child[y][k]

ParentSets(t, u, m, p) ==
    /\ u \in Trees /\ u.root = t.root /\ u.child = t.child /\ u.color = t.color
    /\ \A k \in Node \cup {Nil} : u.parent[k] = IF k = m THEN p ELSE t.parent[k]

ReplacedSets(t, u, n, new) ==
    /\ u \in Trees /\ u.parent = t.parent /\ u.color = t.color
    /\ u.root = IF n = t.root THEN new ELSE t.root
    /\ \A z \in Side, m \in Node :
          u.child[z][m] = IF n # t.root /\ m = t.parent[n] /\ z = SideOf(t, n)
                          THEN new ELSE t.child[z][m]

AdoptedSets(t, u, m, p) ==
    /\ u \in Trees /\ u.root = t.root /\ u.child = t.child /\ u.color = t.color
    /\ \A k \in Node \cup {Nil} :
          u.parent[k] = IF k = m /\ m # Nil THEN p ELSE t.parent[k]

ColorSets(t, u, m, c) ==
    /\ u \in Trees /\ u.root = t.root /\ u.child = t.child /\ u.parent = t.parent
    /\ \A k \in Node \cup {Nil} : u.color[k] = IF k = m THEN c ELSE t.color[k]

RotatedSets(t, u, s, n) ==
    /\ u \in Trees /\ u.color = t.color
    /\ u.root = IF n = t.root THEN t.child[Other(s)][n] ELSE t.root
    /\ \A z \in Side, m \in Node : u.child[z][m] = RotatedChild(t, s, n, z, m)
    /\ \A m \in Node \cup {Nil} : u.parent[m] = RotatedParent(t, s, n, m)

LEMMA ChildSet ==
    ASSUME NEW t \in Trees, NEW z \in Side, NEW m \in Node, NEW c \in Node \cup {Nil, NoNode}
    PROVE  ChildSets(t, WithChild(t, z, m, c), z, m, c)
  BY DEF Trees, WithChild, ChildSets

LEMMA ParentSet ==
    ASSUME NEW t \in Trees, NEW m \in Node \cup {Nil}, NEW p \in Node \cup {NoNode}
    PROVE  ParentSets(t, WithParent(t, m, p), m, p)
  BY DEF Trees, WithParent, ParentSets

LEMMA ColorSet ==
    ASSUME NEW t \in Trees, NEW m \in Node \cup {Nil}, NEW c \in {"red", "black"}
    PROVE  ColorSets(t, Painted(t, m, c), m, c)
  BY DEF Trees, Painted, ColorSets

LEMMA RootSet ==
    ASSUME NEW t \in Trees, NEW r \in Node \cup {Nil}
    PROVE  LET u == [t EXCEPT !.root = r] IN
           /\ u \in Trees /\ u.root = r /\ u.child = t.child
           /\ u.parent = t.parent /\ u.color = t.color
  BY DEF Trees

\* n can be rotated to side s: the nodes that move are different ones.
Turnable(t, s, n) ==
    LET up     == t.child[Other(s)][n]
        middle == t.child[s][up]
    IN /\ up \in Node \ {n} /\ middle \in (Node \cup {Nil}) \ {n, up}
       /\ n # t.root => t.parent[n] \in Node \ {n, up}

LEMMA ReplacedFields ==
    ASSUME NEW t \in Trees, NEW n \in Node, NEW new \in Node \cup {Nil},
           n # t.root => t.parent[n] \in Node
    PROVE  ReplacedSets(t, Replaced(t, n, new), n, new)
<1>1. CASE n = t.root
  BY <1>1, RootSet DEF Replaced, ReplacedSets
<1>2. CASE n # t.root
  <2>1. SideOf(t, n) \in Side
    BY DEF SideOf, Side
  <2>2. Replaced(t, n, new) = WithChild(t, SideOf(t, n), t.parent[n], new)
    BY <1>2 DEF Replaced
  <2>3. new \in Node \cup {Nil, NoNode} /\ t.parent[n] \in Node
    BY <1>2
  <2>4. ChildSets(t, Replaced(t, n, new), SideOf(t, n), t.parent[n], new)
    BY <2>1, <2>2, <2>3, ChildSet, Zenon
  <2> QED
    BY <1>2, <2>4 DEF ChildSets, ReplacedSets
<1> QED
  BY <1>1, <1>2

LEMMA AdoptedFields ==
    ASSUME NEW t \in Trees, NEW m \in Node \cup {Nil}, NEW p \in Node
    PROVE  AdoptedSets(t, Adopted(t, m, p), m, p)
<1>1. CASE m = Nil
  BY <1>1 DEF Adopted, AdoptedSets
<1>2. CASE m # Nil
  <2>1. Adopted(t, m, p) = WithParent(t, m, p)
    BY <1>2 DEF Adopted
  <2>2. p \in Node \cup {NoNode}
    OBVIOUS
  <2>3. ParentSets(t, Adopted(t, m, p), m, p)
    BY <2>1, <2>2, ParentSet, Zenon
  <2> QED
    BY <1>2, <2>3 DEF ParentSets, AdoptedSets
<1> QED
  BY <1>1, <1>2

LEMMA RotatedFields ==
    ASSUME NEW t \in Trees, NEW s \in Side, NEW n \in Node, Turnable(t, s, n)
    PROVE  RotatedSets(t, Rotated(t, s, n), s, n)
<1> DEFINE up     == t.child[Other(s)][n]
           middle == t.child[s][up]
           t0     == WithChild(t, Other(s), n, middle)
           t1     == Adopted(t0, middle, n)
           ta     == WithParent(t1, up, t.parent[n])
           t2     == Replaced(ta, n, up)
           t3     == WithChild(t2, s, up, n)
           t4     == WithParent(t3, n, up)
<1>1. /\ up \in Node \ {n} /\ middle \in (Node \cup {Nil}) \ {n, up}
      /\ n # t.root => t.parent[n] \in Node \ {n, up}
      /\ Other(s) \in Side /\ Other(s) # s
  BY Sides DEF Turnable
<1>2. /\ up \in Node /\ up \in Node \cup {Nil} /\ up \in Node \cup {NoNode}
      /\ n \in Node \cup {Nil} /\ n \in Node \cup {Nil, NoNode}
      /\ middle \in Node \cup {Nil} /\ middle \in Node \cup {Nil, NoNode}
      /\ t.parent[n] \in Node \cup {NoNode}
  BY <1>1 DEF Trees
<1>3. Rotated(t, s, n) = t4
  BY Zenon DEF Rotated
<1>4. ChildSets(t, t0, Other(s), n, middle)
  BY <1>1, <1>2, ChildSet, Zenon
<1> HIDE DEF t0
<1>5. AdoptedSets(t0, t1, middle, n)
  <2>1. t0 \in Trees
    BY <1>4 DEF ChildSets
  <2> QED
    BY <1>2, <2>1, AdoptedFields, Zenon
<1> HIDE DEF t1
<1>6. ParentSets(t1, ta, up, t.parent[n])
  <2>1. t1 \in Trees
    BY <1>5 DEF AdoptedSets
  <2> QED
    BY <1>2, <2>1, ParentSet, Zenon
<1> HIDE DEF ta
<1>7. /\ ta \in Trees /\ ta.root = t.root /\ ta.child = t0.child /\ ta.color = t.color
      /\ \A k \in Node \cup {Nil} :
            ta.parent[k] = IF k = up THEN t.parent[n]
                           ELSE IF k = middle /\ middle # Nil THEN n ELSE t.parent[k]
      /\ \A y \in Side, k \in Node :
            ta.child[y][k] = IF y = Other(s) /\ k = n THEN middle ELSE t.child[y][k]
  BY <1>4, <1>5, <1>6 DEF ChildSets, AdoptedSets, ParentSets
<1>8. ta.parent[n] = t.parent[n] /\ (n # t.root => SideOf(ta, n) = SideOf(t, n))
  <2>1. ta.parent[n] = t.parent[n]
    BY <1>1, <1>7
  <2>2. n # t.root => ta.child["left"][t.parent[n]] = t.child["left"][t.parent[n]]
    BY <1>1, <1>7 DEF Side
  <2> QED
    BY <2>1, <2>2 DEF SideOf
<1>9. ReplacedSets(ta, t2, n, up)
  <2>1. ta \in Trees /\ (n # ta.root => ta.parent[n] \in Node)
    BY <1>1, <1>7, <1>8
  <2> QED
    BY <1>2, <2>1, ReplacedFields, Zenon
<1> HIDE DEF t2
<1>10. ChildSets(t2, t3, s, up, n)
  <2>1. t2 \in Trees
    BY <1>9 DEF ReplacedSets
  <2> QED
    BY <1>2, <2>1, ChildSet, Zenon
<1> HIDE DEF t3
<1>11. ParentSets(t3, t4, n, up)
  <2>1. t3 \in Trees
    BY <1>10 DEF ChildSets
  <2> QED
    BY <1>2, <2>1, ParentSet, Zenon
<1> HIDE DEF t4
<1>12. /\ t4 \in Trees /\ t4.color = t.color
       /\ t4.root = IF n = t.root THEN up ELSE t.root
  BY <1>7, <1>9, <1>10, <1>11 DEF ReplacedSets, ChildSets, ParentSets
<1>13. \A z \in Side, m \in Node :
          t2.child[z][m] = IF n # t.root /\ m = t.parent[n] /\ z = SideOf(t, n)
                           THEN up ELSE ta.child[z][m]
  BY <1>7, <1>8, <1>9 DEF ReplacedSets
<1>14. \A z \in Side, m \in Node :
          t4.child[z][m] = IF z = s /\ m = up THEN n ELSE t2.child[z][m]
  BY <1>10, <1>11 DEF ChildSets, ParentSets
<1>15. \A z \in Side, m \in Node : t4.child[z][m] = RotatedChild(t, s, n, z, m)
  BY <1>1, <1>7, <1>13, <1>14 DEF RotatedChild
<1>16. \A m \in Node \cup {Nil} : t4.parent[m] = RotatedParent(t, s, n, m)
  <2>1. \A m \in Node \cup {Nil} : t4.parent[m] = IF m = n THEN up ELSE ta.parent[m]
    BY <1>9, <1>10, <1>11 DEF ReplacedSets, ChildSets, ParentSets
  <2> QED
    BY <1>1, <1>7, <2>1 DEF RotatedParent
<1> QED
  BY <1>3, <1>12, <1>15, <1>16 DEF RotatedSets

(***************************************************************************)
(* The numbers of the nodes: at[n] is the place of n in the order, and the  *)
(* nodes below n have the places from end["left"][n] to end["right"][n].    *)
(***************************************************************************)
Numbers == [Node -> Int]
Ends == [Side -> [Node -> Int]]
Step(s) == IF s = "left" THEN -1 ELSE 1

\* The places on side s of n are those of its child.
Below(t, M, at, end, n, s) ==
    LET c == t.child[s][n] IN
    \/ c = Nil /\ end[s][n] = at[n]
    \/ /\ c \in M /\ t.parent[c] = n
       /\ end[s][c] = end[s][n] /\ end[Other(s)][c] = at[n] + Step(s)

Hangs(t, M, n) ==
    t.parent[n] \in M /\ \E s \in Side : t.child[s][t.parent[n]] = n

Within(at, end, m, n) == end["left"][n] <= at[m] /\ at[m] <= end["right"][n]

Spanned(t, M, at, end) ==
    /\ t \in Trees /\ M \subseteq Node /\ at \in Numbers /\ end \in Ends
    /\ IF M = {} THEN t.root = Nil ELSE t.root \in M
    /\ \A n \in M : Within(at, end, n, n) /\ Within(at, end, n, t.root)
    /\ \A n \in M, s \in Side : Below(t, M, at, end, n, s)
    /\ \A n \in M \ {t.root} : Hangs(t, M, n)

\* No node is a child twice, the root is none, and nobody is below itself.
Separate(t, M) ==
    /\ \A n, m \in M, s, z \in Side :
          t.child[s][n] # Nil /\ t.child[s][n] = t.child[z][m] => n = m /\ s = z
    /\ \A n \in M, s \in Side : t.child[s][n] # n /\ t.child[s][n] # t.root
    /\ \A n, m \in M, s, z \in Side : t.child[s][n] = m => t.child[z][m] # n
    /\ \A n \in M \ {t.root} : /\ SideOf(t, n) \in Side /\ t.parent[n] \in M \ {n}
                               /\ t.child[SideOf(t, n)][t.parent[n]] = n

LEMMA SpannedApart ==
    ASSUME NEW t, NEW M, NEW at, NEW end, Spanned(t, M, at, end)
    PROVE  Separate(t, M)
<1>0. M \subseteq Node /\ at \in Numbers /\ end \in Ends /\ (M # {} => t.root \in M)
  BY DEF Spanned
<1>1. \A n \in M : n \in Node /\ n # Nil /\ at[n] \in Int
  BY <1>0, RBTreeAssumption DEF Numbers
<1>2. \A n \in M, s \in Side : end[s][n] \in Int
  BY <1>0 DEF Ends
<1>3. "left" \in Side /\ "right" \in Side /\ \A s \in Side : s = "left" \/ s = "right"
  BY DEF Side
<1>4. \A n, c \in M, s \in Side :
          t.child[s][n] = c =>
              /\ t.parent[c] = n
              /\ IF s = "left" THEN end["left"][c] = end["left"][n] /\ end["right"][c] = at[n] - 1
                 ELSE end["right"][c] = end["right"][n] /\ end["left"][c] = at[n] + 1
  BY <1>1, <1>3 DEF Spanned, Below, Step, Other
<1>5. \A n \in M : /\ end["left"][n] <= at[n] /\ at[n] <= end["right"][n]
                   /\ end["left"][t.root] <= at[n] /\ at[n] <= end["right"][t.root]
  BY DEF Spanned, Within
<1>6. \A n \in M, s \in Side : t.child[s][n] \in M \/ t.child[s][n] = Nil
  BY DEF Spanned, Below
<1>7. \A n, m \in M, s, z \in Side :
          t.child[s][n] # Nil /\ t.child[s][n] = t.child[z][m] => n = m /\ s = z
  <2> SUFFICES ASSUME NEW n \in M, NEW m \in M, NEW s \in Side, NEW z \in Side,
                      t.child[s][n] # Nil, t.child[s][n] = t.child[z][m]
               PROVE  n = m /\ s = z
    OBVIOUS
  <2> DEFINE c == t.child[s][n]
  <2>1. c \in M /\ n = m
    BY <1>4, <1>6
  <2> HIDE DEF c
  <2>2. s = z
    <3>1. c = t.child[s][n] /\ c = t.child[z][n]
      BY <2>1 DEF c
    <3> QED
      BY <1>1, <1>2, <1>3, <1>4, <1>5, <2>1, <3>1
  <2> QED
    BY <2>1, <2>2
<1>8. \A n \in M, s \in Side : t.child[s][n] # n /\ t.child[s][n] # t.root
  <2> SUFFICES ASSUME NEW n \in M, NEW s \in Side, t.child[s][n] \in M
               PROVE  t.child[s][n] # n /\ t.child[s][n] # t.root
    BY <1>0, <1>1, <1>6
  <2> QED
    BY <1>1, <1>2, <1>3, <1>4, <1>5
<1>9. \A n, m \in M, s, z \in Side : t.child[s][n] = m => t.child[z][m] # n
  BY <1>1, <1>2, <1>3, <1>4, <1>5
<1>10. ASSUME NEW n \in M \ {t.root}
       PROVE  /\ SideOf(t, n) \in Side /\ t.parent[n] \in M \ {n}
              /\ t.child[SideOf(t, n)][t.parent[n]] = n
  <2>1. t.parent[n] \in M /\ \E s \in Side : t.child[s][t.parent[n]] = n
    BY DEF Spanned, Hangs
  <2> QED
    BY <1>3, <1>8, <2>1 DEF SideOf
<1> QED
  BY <1>7, <1>8, <1>9, <1>10 DEF Separate

\* The facts of Spanned, on either side of a node.
Facts(t, M, at, end) ==
    /\ t \in Trees /\ M \subseteq Node /\ at \in Numbers /\ end \in Ends
    /\ \A n \in M : n \in Node /\ n # Nil /\ at[n] \in Int
    /\ \A n \in M, s \in Side : end[s][n] \in Int
    /\ \A n \in M : /\ end["left"][n] <= at[n] /\ at[n] <= end["right"][n]
                    /\ end["left"][t.root] <= at[n] /\ at[n] <= end["right"][t.root]
    /\ \A n, c \in M, s \in Side :
          t.child[s][n] = c =>
              t.parent[c] = n /\ end[s][c] = end[s][n] /\ end[Other(s)][c] = at[n] + Step(s)
    /\ \A n \in M, s \in Side : t.child[s][n] = Nil => end[s][n] = at[n]
    /\ \A n \in M, s \in Side : t.child[s][n] \in M \/ t.child[s][n] = Nil
    /\ M # {} => t.root \in M

LEMMA SpannedFacts ==
    ASSUME NEW t, NEW M, NEW at, NEW end, Spanned(t, M, at, end)
    PROVE  Facts(t, M, at, end)
  BY RBTreeAssumption DEF Numbers, Ends, Spanned, Below, Within, Facts

LEMMA RotationTurns ==
    ASSUME NEW t, NEW M, NEW at, NEW end, Spanned(t, M, at, end),
           NEW s \in Side, NEW n \in M, t.child[Other(s)][n] \in M
    PROVE  Turnable(t, s, n)
<1> DEFINE up     == t.child[Other(s)][n]
           middle == t.child[s][up]
<1>1. Other(s) \in Side /\ Other(Other(s)) = s /\ Other(s) # s
  BY Sides
<1>a. Separate(t, M) /\ Facts(t, M, at, end)
  BY SpannedApart, SpannedFacts, Zenon
<1>2. up \in M /\ up # n /\ middle # n /\ middle # up
  BY <1>1, <1>a DEF Separate
<1>3. middle \in M \cup {Nil} /\ up # Nil /\ n # Nil
  BY <1>2, <1>a DEF Facts
<1>4. ASSUME n # t.root PROVE t.parent[n] \in M \ {n, up}
  <2>1. /\ t.parent[n] \in M \ {n} /\ SideOf(t, n) \in Side
        /\ t.child[SideOf(t, n)][t.parent[n]] = n
    BY <1>4, <1>a DEF Separate
  <2>2. t.parent[n] # up
    BY <1>1, <1>2, <2>1, <1>a DEF Separate
  <2> QED
    BY <2>1, <2>2
<1> QED
  BY <1>2, <1>3, <1>4, <1>a DEF Turnable, Facts

\* The ends after a rotation: n loses a side, and up takes the one of n.
TurnedEnds(t, at, end, s, n) ==
    LET up == t.child[Other(s)][n] IN
    [z \in Side |-> [m \in Node |->
        IF m = n /\ z = Other(s) THEN at[up] + Step(s)
        ELSE IF m = up /\ z = s THEN end[s][n] ELSE end[z][m]]]

SpansAs(t, u, M, at, end, new) ==
    /\ Spanned(u, M, at, new)
    /\ \A z \in Side : new[z][u.root] = end[z][t.root]

LEMMA RotationSpans ==
    ASSUME NEW t, NEW M, NEW at, NEW end, Spanned(t, M, at, end),
           NEW s \in Side, NEW n \in M, t.child[Other(s)][n] \in M,
           NEW u, RotatedSets(t, u, s, n)
    PROVE  SpansAs(t, u, M, at, end, TurnedEnds(t, at, end, s, n))
<1> DEFINE o      == Other(s)
           up     == t.child[o][n]
           middle == t.child[s][up]
           new    == TurnedEnds(t, at, end, s, n)
<1>a. Separate(t, M) /\ Facts(t, M, at, end) /\ Turnable(t, s, n)
  BY SpannedApart, SpannedFacts, RotationTurns, Zenon
<1>b. /\ s \in Side /\ o \in Side /\ Other(o) = s /\ o # s /\ \A z \in Side : z = s \/ z = o
      /\ Step(o) = - Step(s) /\ Step(s) \in Int
  BY Sides DEF Side, Step, Other
<1>1. /\ up \in M /\ up # n /\ middle # n /\ middle # up /\ middle \in M \cup {Nil}
      /\ n \in Node /\ up \in Node
      /\ n # t.root => t.parent[n] \in M \ {n, up}
      /\ t.root \in M
  <2>1. up \in M /\ n \in Node /\ up \in Node /\ t.root \in M /\ middle \in M \cup {Nil}
    BY <1>a, <1>b DEF Facts
  <2>2. up # n /\ middle # n /\ middle # up
    BY <1>a DEF Turnable
  <2>3. n # t.root => t.parent[n] \in M \ {n, up}
    BY <1>a DEF Turnable, Separate
  <2> QED
    BY <2>1, <2>2, <2>3
<1>3. /\ new \in Ends
      /\ \A z \in Side, m \in Node :
            new[z][m] = IF m = n /\ z = o THEN at[up] + Step(s)
                        ELSE IF m = up /\ z = s THEN end[s][n] ELSE end[z][m]
  <2> DEFINE val(z, m) == IF m = n /\ z = o THEN at[up] + Step(s)
                          ELSE IF m = up /\ z = s THEN end[s][n] ELSE end[z][m]
  <2>1. new = [z \in Side |-> [m \in Node |-> val(z, m)]]
    BY Zenon DEF TurnedEnds
  <2>2. at[up] \in Int /\ \A z \in Side, m \in Node : end[z][m] \in Int
    BY <1>1, <1>a DEF Facts, Ends
  <2>3. \A z \in Side, m \in Node : val(z, m) \in Int
    BY <1>1, <1>b, <2>2
  <2>4. \A z \in Side, m \in Node :
            val(z, m) = IF m = n /\ z = o THEN at[up] + Step(s)
                        ELSE IF m = up /\ z = s THEN end[s][n] ELSE end[z][m]
    OBVIOUS
  <2> HIDE DEF val, new
  <2> QED
    BY <2>1, <2>3, <2>4 DEF Ends
<1>4. /\ \A z \in Side, m \in M :
            u.child[z][m] = IF m = n /\ z = o THEN middle
                            ELSE IF m = up /\ z = s THEN n
                            ELSE IF n # t.root /\ m = t.parent[n] /\ z = SideOf(t, n) THEN up
                            ELSE t.child[z][m]
      /\ \A m \in M :
            u.parent[m] = IF m = n THEN up ELSE IF m = up THEN t.parent[n]
                          ELSE IF m = middle THEN n ELSE t.parent[m]
      /\ u.root = IF n = t.root THEN up ELSE t.root
  <2>1. \A m \in M : m \in Node /\ m # Nil
    BY <1>a DEF Facts
  <2> QED
    BY <2>1 DEF RotatedSets, RotatedChild, RotatedParent
<1> HIDE DEF new
<1>6. /\ \A z \in Side, m \in M : t.child[z][m] = up => m = n /\ z = o
      /\ \A z \in Side, m \in M : t.child[z][m] = middle /\ middle # Nil => m = up /\ z = s
      /\ up # t.root /\ middle # t.root
      /\ n # t.root => t.child[SideOf(t, n)][t.parent[n]] = n /\ SideOf(t, n) \in Side
  <2>1. up # Nil /\ t.root # Nil
    BY <1>1, <1>a DEF Facts
  <2> QED
    BY <1>1, <1>a, <1>b, <2>1 DEF Separate
<1>c. /\ \A c \in M, k \in M, z \in Side : t.child[z][k] = c =>
            t.parent[c] = k /\ end[z][c] = end[z][k] /\ end[Other(z)][c] = at[k] + Step(z)
      /\ end[s][up] = at[n] + Step(o) /\ end[o][up] = end[o][n]
      /\ middle = Nil => end[s][up] = at[up]
      /\ at[n] \in Int /\ at[up] \in Int
      /\ n # Nil /\ up # Nil
  BY <1>1, <1>a, <1>b DEF Facts
<1>d. \A k \in M : k \in Node /\ k # Nil
  BY <1>a DEF Facts
<1>7. \A z \in Side, m \in M : t.child[z][m] = n =>
            n # t.root /\ m = t.parent[n] /\ z = SideOf(t, n)
  <2>1. n # Nil /\ \A z \in Side, m \in M : t.child[z][m] # t.root
    BY <1>1, <1>a DEF Facts, Separate
  <2> QED
    BY <1>1, <1>a, <1>6, <2>1 DEF Separate
<1> HIDE DEF o, up, middle
<1>11. \A z \in Side : new[z][u.root] = end[z][t.root]
  BY <1>1, <1>3, <1>4, <1>6, <1>b, <1>c, <1>d
<1>8. ASSUME NEW m \in M, NEW z \in Side PROVE Below(u, M, at, new, m, z)
  <2>1. CASE m = n /\ z = o
    <3>1. u.child[z][m] = middle /\ new[z][m] = at[up] + Step(s)
      BY <2>1, <1>3, <1>4, <1>d
    <3>2. CASE middle = Nil
      BY <2>1, <3>1, <3>2, <1>c, <1>b DEF Below
    <3>3. CASE middle \in M
      <4>1. u.parent[middle] = n /\ end[s][middle] = end[s][up] /\ end[o][middle] = at[up] + Step(s)
        BY <1>1, <1>b, <1>c, <1>4, <3>3 DEF middle, o
      <4>2. new[s][middle] = end[s][middle] /\ new[o][middle] = end[o][middle]
        BY <1>1, <1>3, <1>b, <1>d, <3>3
      <4> QED
        BY <2>1, <3>1, <3>3, <4>1, <4>2, <1>b, <1>c DEF Below
    <3> QED
      BY <1>1, <3>2, <3>3
  <2>2. CASE m = up /\ z = s
    <3>1. u.child[z][m] = n /\ u.parent[n] = up
      BY <2>2, <1>1, <1>4, <1>b
    <3>2. new[s][up] = end[s][n] /\ new[s][n] = end[s][n] /\ new[o][n] = at[up] + Step(s)
      BY <1>1, <1>3, <1>b
    <3> QED
      BY <2>2, <3>1, <3>2, <1>1, <1>b DEF Below, o
  <2>3. CASE n # t.root /\ m = t.parent[n] /\ z = SideOf(t, n)
    <3>1. u.child[z][m] = up /\ u.parent[up] = m /\ m # n /\ m # up
      BY <2>3, <1>1, <1>4
    <3>2. end[z][n] = end[z][m] /\ end[Other(z)][n] = at[m] + Step(z)
      BY <2>3, <1>1, <1>6, <1>c
    <3>3. new[z][m] = end[z][m] /\ new[s][up] = end[s][n] /\ new[o][up] = end[o][n]
      BY <3>1, <1>1, <1>3, <1>b, <1>c, <1>d
    <3>4. Other(z) \in Side /\ (z = s => Other(z) = o) /\ (z = o => Other(z) = s)
      BY <1>b DEF o
    <3>5. new[z][up] = new[z][m] /\ new[Other(z)][up] = at[m] + Step(z)
      BY <3>2, <3>3, <3>4, <1>b, <1>c
    <3> QED
      BY <1>1, <3>1, <3>5 DEF Below
  <2>4. CASE /\ ~ (m = n /\ z = o) /\ ~ (m = up /\ z = s)
             /\ ~ (n # t.root /\ m = t.parent[n] /\ z = SideOf(t, n))
    <3> DEFINE c == t.child[z][m]
    <3>1. u.child[z][m] = c /\ (c = Nil \/ c \in M) /\ c # n /\ c # up
      BY <2>4, <1>4, <1>6, <1>7, <1>a DEF Facts
    <3>2. new[z][m] = end[z][m]
      BY <2>4, <1>3, <1>d
    <3>3. CASE c = Nil
      BY <1>a, <3>1, <3>2, <3>3 DEF Facts, Below
    <3>4. CASE c \in M
      <4>1. c # middle /\ t.parent[c] = m /\ end[z][c] = end[z][m] /\ end[Other(z)][c] = at[m] + Step(z)
        BY <2>4, <3>4, <1>6, <1>c, <1>d
      <4>2. u.parent[c] = m /\ new[z][c] = end[z][c] /\ new[Other(z)][c] = end[Other(z)][c]
        <5>1. Other(z) \in Side
          BY Sides
        <5> QED
          BY <3>1, <3>4, <4>1, <1>3, <1>4, <1>d, <5>1
      <4> QED
        BY <3>1, <3>2, <3>4, <4>1, <4>2 DEF Below
    <3> QED
      BY <3>1, <3>3, <3>4
  <2> QED
    BY <2>1, <2>2, <2>3, <2>4
<1>9. ASSUME NEW m \in M PROVE Within(at, new, m, m) /\ Within(at, new, m, u.root)
  <2>1. Within(at, new, m, u.root)
    BY <1>11, <1>a DEF Facts, Within, Side
  <2>2. new["left"][m] <= at[m] /\ at[m] <= new["right"][m]
    <3>1. /\ end["left"][m] <= at[m] /\ at[m] <= end["right"][m]
          /\ end["left"][n] <= at[n] /\ at[n] <= end["right"][n]
          /\ end["left"][up] <= at[up] /\ at[up] <= end["right"][up]
          /\ \A z \in Side : end[z][m] \in Int /\ end[z][n] \in Int /\ end[z][up] \in Int
          /\ at[m] \in Int
      BY <1>1, <1>a DEF Facts
    <3>2. CASE s = "left"
      <4>1. Step(s) = -1 /\ o = "right" /\ Step(o) = 1
        BY <3>2 DEF Step, Other, o
      <4> QED
        BY <3>1, <3>2, <4>1, <1>1, <1>3, <1>b, <1>c, <1>d
    <3>3. CASE s = "right"
      <4>1. Step(s) = 1 /\ o = "left" /\ Step(o) = -1
        BY <3>3 DEF Step, Other, o
      <4> QED
        BY <3>1, <3>3, <4>1, <1>1, <1>3, <1>b, <1>c, <1>d
    <3> QED
      BY <3>2, <3>3, <1>b DEF Side
  <2> QED
    BY <2>1, <2>2 DEF Within
<1>10. ASSUME NEW m \in M, m # u.root PROVE Hangs(u, M, m)
  <2>1. CASE m = n
    BY <2>1, <1>1, <1>4, <1>b DEF Hangs
  <2>2. CASE m = up
    BY <2>2, <1>1, <1>4, <1>6, <1>10 DEF Hangs
  <2>3. CASE m = middle
    BY <2>3, <1>1, <1>4, <1>b DEF Hangs
  <2>4. CASE m # n /\ m # up /\ m # middle
    <3>1. m # t.root
      BY <2>4, <1>4, <1>10
    <3>2. PICK z \in Side : t.parent[m] \in M /\ t.child[z][t.parent[m]] = m
      BY <3>1 DEF Spanned, Hangs
    <3>3. u.parent[m] = t.parent[m]
      BY <2>4, <1>4
    <3>4. u.child[z][t.parent[m]] = m
      BY <2>4, <3>2, <1>4, <1>6 DEF middle, up
    <3> QED
      BY <3>2, <3>3, <3>4 DEF Hangs
  <2> QED
    BY <2>1, <2>2, <2>3, <2>4
<1>12. u \in Trees /\ M \subseteq Node /\ at \in Numbers /\ u.root \in M
  BY <1>1, <1>4, <1>a DEF Facts, RotatedSets
<1>13. Spanned(u, M, at, new)
  BY <1>3, <1>8, <1>9, <1>10, <1>12 DEF Spanned
<1> QED
  BY <1>11, <1>13 DEF new, SpansAs

(***************************************************************************)
(* Induction over the tree, and functions that follow it down.             *)
(***************************************************************************)
\* The number of places below a node gets smaller on the way down.
LEMMA SpannedRank ==
    ASSUME NEW t, NEW M, NEW at, NEW end, Spanned(t, M, at, end)
    PROVE  \E rank \in [M -> Nat] :
              \A n \in M, s \in Side : t.child[s][n] # Nil => /\ t.child[s][n] \in M
                                                             /\ rank[t.child[s][n]] < rank[n]
<1> DEFINE rank == [n \in M |-> end["right"][n] - end["left"][n]]
<1>1. Facts(t, M, at, end)
  BY SpannedFacts, Zenon
<1>2. \A n \in M : /\ end["left"][n] \in Int /\ end["right"][n] \in Int /\ at[n] \in Int
                   /\ end["left"][n] <= at[n] /\ at[n] <= end["right"][n]
  BY <1>1 DEF Facts, Side
<1>3. rank \in [M -> Nat]
  BY <1>2
<1>4. ASSUME NEW n \in M, NEW s \in Side, t.child[s][n] # Nil
      PROVE  t.child[s][n] \in M /\ rank[t.child[s][n]] < rank[n]
  <2> DEFINE c == t.child[s][n]
  <2>1. c \in M /\ end[s][c] = end[s][n] /\ end[Other(s)][c] = at[n] + Step(s)
    BY <1>1, <1>4 DEF Facts
  <2>2. CASE s = "left"
    BY <1>2, <2>1, <2>2 DEF Other, Step
  <2>3. CASE s = "right"
    BY <1>2, <2>1, <2>3 DEF Other, Step
  <2> QED
    BY <2>2, <2>3 DEF Side
<1> QED
  BY <1>3, <1>4

LEMMA TreeInduction ==
    ASSUME NEW t, NEW M, NEW at, NEW end, Spanned(t, M, at, end), NEW P,
           \A n \in M : (\A s \in Side : t.child[s][n] \in M => t.child[s][n] \in P) => n \in P
    PROVE  M \subseteq P
<1>1. PICK rank \in [M -> Nat] :
          \A n \in M, s \in Side : t.child[s][n] # Nil => /\ t.child[s][n] \in M
                                                         /\ rank[t.child[s][n]] < rank[n]
  BY SpannedRank, Zenon
<1>2. Nil \notin M
  BY RBTreeAssumption DEF Spanned
<1>3. \A n \in M : (\A m \in M : rank[m] < rank[n] => m \in P) => n \in P
  BY <1>1, <1>2
<1> QED
  BY <1>3, RankInduction

\* A function of the nodes that is what join makes of it for the children.
Joins(g, t, M, V, base, join) ==
    /\ g \in [M \cup {Nil} -> V] /\ g[Nil] = base
    /\ \A n \in M : g[n] = join[<<n, g[t.child["left"][n]], g[t.child["right"][n]]>>]

LEMMA TreeRecursion ==
    ASSUME NEW t, NEW M, NEW at, NEW end, Spanned(t, M, at, end),
           NEW V, NEW base \in V, NEW join \in [M \X V \X V -> V]
    PROVE  \E g : Joins(g, t, M, V, base, join)
<1> DEFINE l == [n \in M |-> t.child["left"][n]]
           r == [n \in M |-> t.child["right"][n]]
<1>1. PICK rank \in [M -> Nat] :
          \A n \in M, s \in Side : t.child[s][n] # Nil => /\ t.child[s][n] \in M
                                                         /\ rank[t.child[s][n]] < rank[n]
  BY SpannedRank, Zenon
<1>2. Nil \notin M
  BY RBTreeAssumption DEF Spanned
<1>3. /\ l \in [M -> M \cup {Nil}] /\ r \in [M -> M \cup {Nil}]
      /\ \A n \in M : /\ l[n] = t.child["left"][n] /\ r[n] = t.child["right"][n]
                      /\ l[n] # Nil => rank[l[n]] < rank[n]
                      /\ r[n] # Nil => rank[r[n]] < rank[n]
  BY <1>1 DEF Side
<1> HIDE DEF l, r
<1>4. PICK g \in [M \cup {Nil} -> V] : Computes(g, M, Nil, l, r, base, join)
  BY <1>1, <1>2, <1>3, RankRecursion, Zenon
<1>5. g[Nil] = base /\ \A n \in M : g[n] = join[<<n, g[l[n]], g[r[n]]>>]
  BY <1>4 DEF Computes
<1>6. Joins(g, t, M, V, base, join)
  BY <1>3, <1>4, <1>5 DEF Joins
<1> QED
  BY <1>6

\* A way down: from each node to its child on some side, until it stops.
Follows(g, t, M, side, Stop) ==
    /\ g \in [M \cup {Nil} -> M \cup {Nil}] /\ g[Nil] = Nil
    /\ \A n \in M : g[n] = IF n \in Stop THEN n ELSE g[t.child[side[n]][n]]

LEMMA PathRecursion ==
    ASSUME NEW t, NEW M, NEW at, NEW end, Spanned(t, M, at, end),
           NEW side \in [M -> Side], NEW Stop
    PROVE  \E g : Follows(g, t, M, side, Stop)
<1> DEFINE V == M \cup {Nil}
           choice(n, a, b) == IF n \in Stop THEN n ELSE IF side[n] = "left" THEN a ELSE b
           join == [x \in M \X V \X V |-> choice(x[1], x[2], x[3])]
<1>1. join \in [M \X V \X V -> V]
  OBVIOUS
<1>2. \A n \in M, a, b \in V : join[<<n, a, b>>] = choice(n, a, b)
  OBVIOUS
<1> HIDE DEF join
<1>3. PICK g : Joins(g, t, M, V, Nil, join)
  <2>1. Nil \in V
    OBVIOUS
  <2> HIDE DEF V
  <2> QED
    BY <1>1, <2>1, TreeRecursion, Zenon
<1>4. ASSUME NEW n \in M
      PROVE  g[n] = IF n \in Stop THEN n ELSE g[t.child[side[n]][n]]
  <2>1. t.child["left"][n] \in V /\ t.child["right"][n] \in V
    BY DEF Spanned, Below, Side
  <2>a. /\ g[n] = join[<<n, g[t.child["left"][n]], g[t.child["right"][n]]>>]
        /\ g[t.child["left"][n]] \in V /\ g[t.child["right"][n]] \in V
    BY <1>3, <2>1 DEF Joins
  <2> HIDE DEF choice, V
  <2>2. g[n] = choice(n, g[t.child["left"][n]], g[t.child["right"][n]])
    BY <1>2, <2>a
  <2>3. side[n] = "left" \/ side[n] = "right"
    BY DEF Side
  <2> QED
    BY <2>2, <2>3 DEF choice
<1> QED
  BY <1>3, <1>4 DEF Follows, Joins

\* What holds on the way down holds where it stops.
KeptDown(S, t, side, Stop) ==
    \A n \in S : n \in Stop \/ t.child[side[n]][n] = Nil \/ t.child[side[n]][n] \in S

EndsIn(g, S, Stop) == \A n \in S : g[n] = Nil \/ (g[n] \in S /\ g[n] \in Stop)

LEMMA PathInvariant ==
    ASSUME NEW t, NEW M, NEW at, NEW end, Spanned(t, M, at, end),
           NEW side, NEW Stop, NEW g, Follows(g, t, M, side, Stop), side \in [M -> Side],
           NEW S, S \subseteq M, KeptDown(S, t, side, Stop)
    PROVE  EndsIn(g, S, Stop)
<1> DEFINE P == {n \in M : n \in S => g[n] = Nil \/ (g[n] \in S /\ g[n] \in Stop)}
<1>1. ASSUME NEW n \in M, \A s \in Side : t.child[s][n] \in M => t.child[s][n] \in P
      PROVE  n \in P
  <2> SUFFICES ASSUME n \in S PROVE g[n] = Nil \/ (g[n] \in S /\ g[n] \in Stop)
    OBVIOUS
  <2> DEFINE c == t.child[side[n]][n]
  <2>1. g[n] = (IF n \in Stop THEN n ELSE g[c]) /\ g[Nil] = Nil
    BY DEF Follows
  <2>2. c = Nil \/ n \in Stop \/ (c \in S /\ c \in P)
    BY <1>1 DEF KeptDown
  <2> QED
    BY <2>1, <2>2
<1>2. M \subseteq P
  <2> HIDE DEF P
  <2> QED
    BY <1>1, TreeInduction, Zenon
<1> QED
  BY <1>2 DEF EndsIn

(***************************************************************************)
(* The order: the places of the nodes are 1, 2, ... in the order of keys.   *)
(***************************************************************************)
Ranked(t, M, at, end) ==
    M # {} =>
        /\ end["left"][t.root] = 1
        /\ \A i \in 1 .. end["right"][t.root] : \E n \in M : at[n] = i
        /\ \A n, m \in M : /\ at[n] = at[m] => n = m
                           /\ at[n] < at[m] => KeyOf[n] <= KeyOf[m]

Numbered(t, M, at, end) == Spanned(t, M, at, end) /\ Ranked(t, M, at, end)

\* A node that does not belong below p is on the right side of it.
Bounds(M, at, end, n, p) ==
    \A m \in M : /\ at[m] < end["left"][p] => KeyOf[m] <= KeyOf[n]
                 /\ end["right"][p] < at[m] => KeyOf[n] <= KeyOf[m]

\* rbt_bst_insert finds the place of a new node.
LEMMA LeafFound ==
    ASSUME NEW at, NEW end, Spanned(tree, members, at, end), Ranked(tree, members, at, end),
           members # {}, NEW n \in Node
    PROVE  /\ Leaf(n) \in members /\ tree.child[SideBelow(n, Leaf(n))][Leaf(n)] = Nil
           /\ Bounds(members, at, end, n, Leaf(n))
<1> DEFINE side == [p \in members |-> SideBelow(n, p)]
           Stop == {p \in members : tree.child[SideBelow(n, p)][p] = Nil}
           S    == {p \in members : Bounds(members, at, end, n, p)}
           Way(g) == g = [p \in members |->
                             IF tree.child[SideBelow(n, p)][p] = Nil THEN p
                             ELSE g[tree.child[SideBelow(n, p)][p]]]
           down == CHOOSE g : Way(g)
<1>1. Facts(tree, members, at, end) /\ tree.root \in members /\ Nil \notin members
  BY SpannedFacts, RBTreeAssumption DEF Spanned
<1>2. side \in [members -> Side] /\ \A p \in members : SideBelow(n, p) \in Side
  BY DEF SideBelow, Side
<1>3. \A p \in members \ Stop : tree.child[SideBelow(n, p)][p] \in members
  BY <1>1, <1>2 DEF Facts
<1>4. \E g : Way(g)
  <2>1. PICK g : Follows(g, tree, members, side, Stop)
    <3> HIDE DEF side, Stop
    <3> QED
      BY <1>2, PathRecursion, Zenon
  <2> DEFINE h == [p \in members |-> g[p]]
  <2>2. ASSUME NEW p \in members
        PROVE  h[p] = IF tree.child[SideBelow(n, p)][p] = Nil THEN p
                      ELSE h[tree.child[SideBelow(n, p)][p]]
    BY <1>3, <2>1 DEF Follows
  <2>3. h = [p \in members |-> h[p]]
    OBVIOUS
  <2>4. Way(h)
    <3> HIDE DEF h
    <3> QED
      BY <2>2, <2>3
  <2> QED
    BY <2>4
<1>5. Way(down)
  <2> HIDE DEF Way
  <2> QED
    BY <1>4
<1>6. Leaf(n) = down[tree.root]
  BY Zenon DEF Leaf
<1> HIDE DEF down
<1> DEFINE g == [p \in members \cup {Nil} |-> IF p = Nil THEN Nil ELSE down[p]]
<1>7. \A p \in members : down[p] = IF p \in Stop THEN p
                                   ELSE down[tree.child[SideBelow(n, p)][p]]
  BY <1>5
<1>8. \A p \in members : down[p] \in members
  <2> DEFINE P == {p \in members : down[p] \in members}
  <2>1. ASSUME NEW p \in members,
               \A s \in Side : tree.child[s][p] \in members => tree.child[s][p] \in P
        PROVE  p \in P
    BY <1>2, <1>3, <1>7, <2>1
  <2>2. members \subseteq P
    <3> HIDE DEF P
    <3> QED
      BY <2>1, TreeInduction, Zenon
  <2> QED
    BY <2>2
<1>9. Follows(g, tree, members, side, Stop)
  BY <1>1, <1>3, <1>7, <1>8 DEF Follows
<1>10. tree.root \in S
  <2>1. \A m \in members : /\ at[m] \in Int /\ end["left"][tree.root] <= at[m]
                           /\ at[m] <= end["right"][tree.root]
                           /\ end["left"][tree.root] \in Int /\ end["right"][tree.root] \in Int
    BY <1>1 DEF Facts, Side
  <2> QED
    BY <1>1, <2>1 DEF Bounds
<1>11. ASSUME NEW p \in S, p \notin Stop PROVE tree.child[side[p]][p] \in S
  <2> DEFINE s == SideBelow(n, p)
             c == tree.child[s][p]
  <2>1. c \in members /\ side[p] = s /\ s \in Side
    BY <1>2, <1>3, <1>11
  <2>2. /\ end[s][c] = end[s][p] /\ end[Other(s)][c] = at[p] + Step(s)
        /\ \A m \in members : at[m] \in Int /\ at[p] \in Int
        /\ \A m \in members : KeyOf[m] \in Int /\ KeyOf[n] \in Int
    BY <1>1, <2>1, RBTreeAssumption DEF Facts
  <2>3. /\ \A m \in members : at[m] < at[p] => KeyOf[m] <= KeyOf[p]
        /\ \A m \in members : at[p] < at[m] => KeyOf[p] <= KeyOf[m]
        /\ \A m \in members : at[p] = at[m] => p = m
    BY DEF Ranked
  <2>4. Bounds(members, at, end, n, p)
    OBVIOUS
  <2>5. CASE s = "left"
    <3>1. /\ end["left"][c] = end["left"][p] /\ end["right"][c] = at[p] - 1
          /\ KeyOf[n] <= KeyOf[p]
      BY <2>2, <2>5 DEF Other, Step, SideBelow
    <3>2. \A m \in members : at[p] - 1 < at[m] => KeyOf[n] <= KeyOf[m]
      BY <2>2, <2>3, <3>1
    <3> QED
      BY <2>1, <2>4, <3>1, <3>2 DEF Bounds
  <2>6. CASE s = "right"
    <3>1. /\ end["right"][c] = end["right"][p] /\ end["left"][c] = at[p] + 1
          /\ KeyOf[p] <= KeyOf[n]
      BY <2>2, <2>6 DEF Other, Step, SideBelow
    <3>2. \A m \in members : at[m] < at[p] + 1 => KeyOf[m] <= KeyOf[n]
      BY <2>2, <2>3, <3>1
    <3> QED
      BY <2>1, <2>4, <3>1, <3>2 DEF Bounds
  <2> QED
    BY <2>1, <2>5, <2>6 DEF Side
<1>12. g[tree.root] \in S /\ g[tree.root] \in Stop
  <2>1. S \subseteq members /\ g[tree.root] \in members
    BY <1>1, <1>8
  <2> HIDE DEF S, Stop, side, g
  <2>2. KeptDown(S, tree, side, Stop)
    BY <1>11 DEF KeptDown
  <2>3. EndsIn(g, S, Stop)
    BY <1>2, <1>9, <2>1, <2>2, PathInvariant, Zenon
  <2> QED
    BY <1>1, <1>10, <2>1, <2>3 DEF EndsIn
<1> QED
  BY <1>1, <1>6, <1>12

(***************************************************************************)
(* A node is added below p, where p has no child.                          *)
(***************************************************************************)
AddedSets(t, u, z, p, n) ==
    /\ u \in Trees /\ u.root = t.root
    /\ \A y \in Side, k \in Node :
          u.child[y][k] = IF k = p /\ y = z THEN n ELSE IF k = n THEN Nil ELSE t.child[y][k]
    /\ \A k \in Node \cup {Nil} : u.parent[k] = IF k = n THEN p ELSE t.parent[k]
    /\ \A k \in Node \cup {Nil} : u.color[k] = IF k = n THEN "red" ELSE t.color[k]

LEMMA ChildlessFields ==
    ASSUME NEW t \in Trees, NEW n \in Node, NEW none \in {Nil, NoNode}
    PROVE  LET u == Childless(t, n, none) IN
           /\ u \in Trees /\ u.root = t.root /\ u.parent = t.parent /\ u.color = t.color
           /\ \A y \in Side, k \in Node :
                 u.child[y][k] = IF k = n THEN none ELSE t.child[y][k]
<1> DEFINE t1 == WithChild(t, "left", n, none)
           t2 == WithChild(t1, "right", n, none)
<1>1. "left" \in Side /\ "right" \in Side /\ none \in Node \cup {Nil, NoNode}
  BY DEF Side
<1>2. ChildSets(t, t1, "left", n, none)
  BY <1>1, ChildSet, Zenon
<1> HIDE DEF t1
<1>3. ChildSets(t1, t2, "right", n, none)
  <2>1. t1 \in Trees
    BY <1>2 DEF ChildSets
  <2> QED
    BY <1>1, <2>1, ChildSet, Zenon
<1>4. Childless(t, n, none) = t2
  BY Zenon DEF Childless, t1
<1> HIDE DEF t2
<1>5. \A y \in Side : y = "left" \/ y = "right"
  BY DEF Side
<1> QED
  BY <1>2, <1>3, <1>4, <1>5 DEF ChildSets

LEMMA AddedFields ==
    ASSUME NEW t \in Trees, NEW z \in Side, NEW p \in Node, NEW n \in Node \ {p}
    PROVE  AddedSets(t, Painted(WithParent(WithChild(Childless(t, n, Nil), z, p, n), n, p),
                                n, "red"), z, p, n)
<1> DEFINE t1 == Childless(t, n, Nil)
           t2 == WithChild(t1, z, p, n)
           t3 == WithParent(t2, n, p)
           t4 == Painted(t3, n, "red")
<1>1. /\ t1 \in Trees /\ t1.root = t.root /\ t1.parent = t.parent /\ t1.color = t.color
      /\ \A y \in Side, k \in Node :
            t1.child[y][k] = IF k = n THEN Nil ELSE t.child[y][k]
  BY ChildlessFields
<1> HIDE DEF t1
<1>2. n \in Node \cup {Nil} /\ n \in Node \cup {Nil, NoNode} /\ p \in Node \cup {NoNode}
      /\ "red" \in {"red", "black"}
  OBVIOUS
<1>3. ChildSets(t1, t2, z, p, n)
  BY <1>1, <1>2, ChildSet, Zenon
<1> HIDE DEF t2
<1>4. ParentSets(t2, t3, n, p)
  <2>1. t2 \in Trees
    BY <1>3 DEF ChildSets
  <2> QED
    BY <1>2, <2>1, ParentSet, Zenon
<1> HIDE DEF t3
<1>5. ColorSets(t3, t4, n, "red")
  <2>1. t3 \in Trees
    BY <1>4 DEF ParentSets
  <2> QED
    BY <1>2, <2>1, ColorSet, Zenon
<1>6. t4 = Painted(WithParent(WithChild(Childless(t, n, Nil), z, p, n), n, p), n, "red")
  BY DEF t1, t2, t3, t4
<1> HIDE DEF t4
<1>7. AddedSets(t, t4, z, p, n)
  BY <1>1, <1>3, <1>4, <1>5 DEF ChildSets, ParentSets, ColorSets, AddedSets
<1> QED
  BY <1>6, <1>7

\* The new node's place, and the others' after it.
PlaceBelow(at, z, p) == IF z = "left" THEN at[p] ELSE at[p] + 1
MovedUp(at, z, p, n) ==
    [m \in Node |-> IF m = n THEN PlaceBelow(at, z, p)
                    ELSE IF at[m] >= PlaceBelow(at, z, p) THEN at[m] + 1 ELSE at[m]]
EndsMovedUp(at, end, z, p, n) ==
    [y \in Side |-> [m \in Node |->
        IF m = n THEN PlaceBelow(at, z, p)
        ELSE IF y = "left"
             THEN IF end[y][m] > at[p] THEN end[y][m] + 1 ELSE end[y][m]
             ELSE IF end[y][m] >= at[p] THEN end[y][m] + 1 ELSE end[y][m]]]

LEMMA AddedSpans ==
    ASSUME NEW t, NEW M, NEW at, NEW end, Spanned(t, M, at, end), Ranked(t, M, at, end),
           NEW p \in M, NEW n \in Node \ M, NEW z \in Side, t.child[z][p] = Nil,
           Bounds(M, at, end, n, p), SideBelow(n, p) = z,
           NEW u, AddedSets(t, u, z, p, n)
    PROVE  Numbered(u, M \cup {n}, MovedUp(at, z, p, n), EndsMovedUp(at, end, z, p, n))
<1> DEFINE at2 == MovedUp(at, z, p, n)
           end2 == EndsMovedUp(at, end, z, p, n)
           place == PlaceBelow(at, z, p)
<1>1. Facts(t, M, at, end) /\ Separate(t, M)
  BY SpannedFacts, SpannedApart, Zenon
<1>2. /\ \A m \in M : m \in Node /\ m # Nil /\ m # n /\ at[m] \in Int
      /\ \A m \in M, y \in Side : end[y][m] \in Int
      /\ t.root \in M /\ n \in Node /\ n # Nil
      /\ z = "left" \/ z = "right"
  BY <1>1, RBTreeAssumption DEF Facts, Side
<1>3. place \in Int /\ (z = "left" => place = at[p]) /\ (z = "right" => place = at[p] + 1)
  BY <1>2 DEF PlaceBelow
<1> HIDE DEF place
<1>4. /\ at2 \in Numbers /\ at2[n] = place
      /\ \A m \in M : at2[m] = IF at[m] >= place THEN at[m] + 1 ELSE at[m]
  <2> DEFINE val(m) == IF m = n THEN place ELSE IF at[m] >= place THEN at[m] + 1 ELSE at[m]
  <2>1. at2 = [m \in Node |-> val(m)]
    BY Zenon DEF MovedUp, place
  <2>2. \A m \in Node : val(m) \in Int
    BY <1>1, <1>3 DEF Facts, Numbers
  <2>3. val(n) = place /\ \A m \in M : val(m) = IF at[m] >= place THEN at[m] + 1 ELSE at[m]
    BY <1>2
  <2> HIDE DEF val, at2
  <2> QED
    BY <1>2, <2>1, <2>2, <2>3 DEF Numbers
<1>5. /\ end2 \in Ends /\ \A y \in Side : end2[y][n] = place
      /\ \A m \in M : /\ end2["left"][m] = IF end["left"][m] > at[p] THEN end["left"][m] + 1
                                           ELSE end["left"][m]
                      /\ end2["right"][m] = IF end["right"][m] >= at[p] THEN end["right"][m] + 1
                                            ELSE end["right"][m]
  <2> DEFINE val(y, m) == IF m = n THEN place
                          ELSE IF y = "left"
                               THEN IF end[y][m] > at[p] THEN end[y][m] + 1 ELSE end[y][m]
                               ELSE IF end[y][m] >= at[p] THEN end[y][m] + 1 ELSE end[y][m]
  <2>1. end2 = [y \in Side |-> [m \in Node |-> val(y, m)]]
    BY Zenon DEF EndsMovedUp, place
  <2>2. \A y \in Side, m \in Node : val(y, m) \in Int
    BY <1>1, <1>2, <1>3 DEF Facts, Ends
  <2>3. /\ \A y \in Side : val(y, n) = place
        /\ \A m \in M : /\ val("left", m) = IF end["left"][m] > at[p] THEN end["left"][m] + 1
                                              ELSE end["left"][m]
                        /\ val("right", m) = IF end["right"][m] >= at[p] THEN end["right"][m] + 1
                                               ELSE end["right"][m]
    BY <1>2
  <2>4. "left" \in Side /\ "right" \in Side
    BY DEF Side
  <2> HIDE DEF val, end2
  <2> QED
    BY <1>2, <2>1, <2>2, <2>3, <2>4 DEF Ends
<1>6. /\ u.root = t.root /\ u \in Trees
      /\ \A y \in Side, m \in M : u.child[y][m] = IF m = p /\ y = z THEN n ELSE t.child[y][m]
      /\ \A y \in Side : u.child[y][n] = Nil
      /\ \A m \in M : u.parent[m] = t.parent[m]
      /\ u.parent[n] = p
  BY <1>2 DEF AddedSets
<1> HIDE DEF at2, end2
<1>7. /\ \A m \in M : at[m] = at[p] => m = p
      /\ \A m, k \in M : at[m] = at[k] => m = k
      /\ end["left"][t.root] = 1
      /\ \A i \in 1 .. end["right"][t.root] : \E m \in M : at[m] = i
      /\ \A m, k \in M : at[m] < at[k] => KeyOf[m] <= KeyOf[k]
  BY DEF Ranked
<1>8. ASSUME NEW m \in M, NEW y \in Side PROVE Below(u, M \cup {n}, at2, end2, m, y)
  <2> DEFINE c == t.child[y][m]
  <2>1. CASE m = p /\ y = z
    <3>1. end[z][p] = at[p]
      BY <1>1 DEF Facts
    <3>2. end2[z][p] = place /\ at2[p] + Step(z) = place
      BY <1>2, <1>3, <1>4, <1>5, <3>1 DEF Step
    <3> QED
      BY <1>2, <1>5, <1>6, <2>1, <3>2, Sides DEF Below
  <2>2. CASE ~ (m = p /\ y = z) /\ c = Nil
    <3>1. end[y][m] = at[m]
      BY <1>1, <2>2 DEF Facts
    <3>2. end2[y][m] = at2[m]
      BY <1>2, <1>3, <1>4, <1>5, <1>7, <2>2, <3>1 DEF Side
    <3> QED
      BY <1>6, <2>2, <3>2 DEF Below
  <2>3. CASE ~ (m = p /\ y = z) /\ c \in M
    <3>1. end[y][c] = end[y][m] /\ end[Other(y)][c] = at[m] + Step(y) /\ t.parent[c] = m
      BY <1>1, <2>3 DEF Facts
    <3>2. end2[y][c] = end2[y][m] /\ end2[Other(y)][c] = at2[m] + Step(y)
      <4>1. CASE y = "left"
        BY <1>2, <1>3, <1>4, <1>5, <1>7, <2>3, <3>1, <4>1 DEF Other, Step
      <4>2. CASE y = "right"
        BY <1>2, <1>3, <1>4, <1>5, <1>7, <2>3, <3>1, <4>2 DEF Other, Step
      <4> QED
        BY <4>1, <4>2 DEF Side
    <3> QED
      BY <1>6, <2>3, <3>1, <3>2 DEF Below
  <2> QED
    BY <1>1, <2>1, <2>2, <2>3 DEF Facts
<1>9. ASSUME NEW y \in Side PROVE Below(u, M \cup {n}, at2, end2, n, y)
  BY <1>4, <1>5, <1>6 DEF Below
<1>10. ASSUME NEW m \in M \cup {n}
       PROVE  Within(at2, end2, m, m) /\ Within(at2, end2, m, u.root)
  <2>1. \A k \in M : /\ end["left"][k] <= at[k] /\ at[k] <= end["right"][k]
                     /\ end["left"][t.root] <= at[k] /\ at[k] <= end["right"][t.root]
                     /\ end["left"][k] \in Int /\ end["right"][k] \in Int
    BY <1>1, <1>2 DEF Facts, Side
  <2>2. Within(at2, end2, m, m)
    BY <1>2, <1>3, <1>4, <1>5, <2>1 DEF Within, Side
  <2>3. Within(at2, end2, m, t.root)
    BY <1>2, <1>3, <1>4, <1>5, <2>1 DEF Within
  <2> QED
    BY <2>2, <2>3, <1>6
<1>11. ASSUME NEW m \in M \cup {n}, m # u.root PROVE Hangs(u, M \cup {n}, m)
  <2>1. CASE m = n
    BY <1>6, <2>1 DEF Hangs
  <2>2. CASE m \in M
    <3>1. t.parent[m] \in M /\ \E s \in Side : t.child[s][t.parent[m]] = m
      BY <1>6, <1>11, <2>2 DEF Spanned, Hangs
    <3> QED
      BY <1>2, <1>6, <2>2, <3>1 DEF Hangs
  <2> QED
    BY <2>1, <2>2
<1>12. Spanned(u, M \cup {n}, at2, end2)
  <2>1. M \cup {n} \subseteq Node /\ u.root \in M \cup {n}
    BY <1>2, <1>6
  <2>2. u \in Trees /\ at2 \in Numbers /\ end2 \in Ends /\ M \cup {n} # {}
    BY <1>4, <1>5, <1>6
  <2>3. \A m \in M \cup {n} : Within(at2, end2, m, m) /\ Within(at2, end2, m, u.root)
    BY <1>10
  <2>4. \A m \in M \cup {n}, y \in Side : Below(u, M \cup {n}, at2, end2, m, y)
    BY <1>8, <1>9
  <2>5. \A m \in (M \cup {n}) \ {u.root} : Hangs(u, M \cup {n}, m)
    BY <1>11
  <2> DEFINE N == M \cup {n}
  <2> HIDE DEF N
  <2>6. Spanned(u, N, at2, end2)
    BY <2>1, <2>2, <2>3, <2>4, <2>5 DEF Spanned, N
  <2> QED
    BY <2>6 DEF N
<1>a. 1 <= at[p] /\ at[p] <= end["right"][t.root] /\ end["right"][t.root] \in Int
  BY <1>1, <1>2, <1>7 DEF Facts, Side
<1>13. end2["left"][u.root] = 1 /\ end2["right"][u.root] = end["right"][t.root] + 1
  BY <1>2, <1>5, <1>6, <1>7, <1>a
<1>14. ASSUME NEW i \in 1 .. end2["right"][u.root]
       PROVE  \E m \in M \cup {n} : at2[m] = i
  <2>1. CASE i = place
    BY <1>4, <2>1
  <2>2. CASE i < place
    <3>1. i \in 1 .. end["right"][t.root]
      BY <1>2, <1>3, <1>a, <2>2
    <3>2. PICK m \in M : at[m] = i
      BY <1>7, <3>1
    <3> QED
      BY <1>2, <1>3, <1>4, <2>2, <3>2
  <2>3. CASE i > place
    <3>1. i - 1 \in 1 .. end["right"][t.root] /\ i - 1 >= place /\ i = (i - 1) + 1
      BY <1>2, <1>3, <1>13, <1>a, <2>3
    <3>2. PICK m \in M : at[m] = i - 1
      BY <1>7, <3>1
    <3> QED
      BY <1>4, <3>1, <3>2
  <2> QED
    BY <1>3, <2>1, <2>2, <2>3
<1>b. \A m \in M : /\ at[m] < place => KeyOf[m] <= KeyOf[n]
                   /\ at[m] >= place => KeyOf[n] <= KeyOf[m]
  <2>1. \A m \in M \cup {n} : KeyOf[m] \in Int
    BY <1>2, RBTreeAssumption
  <2>2. /\ z = "left" => end["left"][p] = at[p] /\ KeyOf[n] <= KeyOf[p]
        /\ z = "right" => end["right"][p] = at[p] /\ KeyOf[p] <= KeyOf[n]
    BY <1>1, <2>1 DEF Facts, SideBelow
  <2>3. \A m \in M : at[m] < at[p] \/ m = p \/ at[p] < at[m]
    BY <1>2, <1>7
  <2>4. CASE z = "left"
    BY <1>2, <1>3, <1>7, <2>1, <2>2, <2>3, <2>4 DEF Bounds
  <2>5. CASE z = "right"
    <3>1. ASSUME NEW m \in M, at[m] < place PROVE KeyOf[m] <= KeyOf[n]
      <4>1. at[m] <= at[p]
        BY <1>2, <1>3, <2>5, <3>1
      <4>2. KeyOf[m] <= KeyOf[p]
        BY <1>2, <1>7, <2>1, <2>3, <4>1
      <4> QED
        BY <2>1, <2>2, <2>5, <4>2
    <3>2. ASSUME NEW m \in M, at[m] >= place PROVE KeyOf[n] <= KeyOf[m]
      BY <1>2, <1>3, <2>2, <2>5, <3>2 DEF Bounds
    <3> QED
      BY <3>1, <3>2
  <2> QED
    BY <1>2, <2>4, <2>5
<1>15. ASSUME NEW m \in M \cup {n}, NEW k \in M \cup {n}
       PROVE  /\ at2[m] = at2[k] => m = k
              /\ at2[m] < at2[k] => KeyOf[m] <= KeyOf[k]
  <2>1. CASE m \in M /\ k \in M
    BY <1>2, <1>3, <1>4, <1>7, <2>1
  <2>2. CASE m = n /\ k \in M
    BY <1>2, <1>3, <1>4, <1>b, <2>2
  <2>3. CASE m \in M /\ k = n
    BY <1>2, <1>3, <1>4, <1>b, <2>3
  <2>4. CASE m = n /\ k = n
    BY <1>3, <1>4, <2>4
  <2> QED
    BY <2>1, <2>2, <2>3, <2>4
<1>16. Ranked(u, M \cup {n}, at2, end2)
  BY <1>13, <1>14, <1>15 DEF Ranked
<1> QED
  BY <1>12, <1>16 DEF at2, end2, Numbered

(***************************************************************************)
(* A node x that has at most one child, h, leaves its place to it.         *)
(***************************************************************************)
Cuts(t, u, M, x, h) ==
    /\ u \in Trees /\ u.root = IF x = t.root THEN h ELSE t.root
    /\ \A y \in Side, k \in M \ {x} :
          u.child[y][k] = IF x # t.root /\ k = t.parent[x] /\ y = SideOf(t, x) THEN h
                          ELSE t.child[y][k]
    /\ \A k \in M \ {x, h} : u.parent[k] = t.parent[k]
    /\ x # t.root /\ h # Nil => u.parent[h] = t.parent[x]

MovedDown(at, x) == [m \in Node |-> IF at[m] > at[x] THEN at[m] - 1 ELSE at[m]]
EndsMovedDown(at, end, x) ==
    [y \in Side |-> [m \in Node |->
        IF y = "left" THEN IF end[y][m] > at[x] THEN end[y][m] - 1 ELSE end[y][m]
        ELSE IF end[y][m] >= at[x] THEN end[y][m] - 1 ELSE end[y][m]]]

LEMMA CutSpans ==
    ASSUME NEW t, NEW M, NEW at, NEW end, Spanned(t, M, at, end), Ranked(t, M, at, end),
           NEW x \in M, NEW z \in Side, t.child[z][x] = Nil,
           NEW u, Cuts(t, u, M, x, t.child[Other(z)][x])
    PROVE  Numbered(u, M \ {x}, MovedDown(at, x), EndsMovedDown(at, end, x))
<1> DEFINE at2 == MovedDown(at, x)
           end2 == EndsMovedDown(at, end, x)
           o == Other(z)
           h == t.child[o][x]
           b == at[x]
<1>1. Facts(t, M, at, end) /\ Separate(t, M)
  BY SpannedFacts, SpannedApart, Zenon
<1>2. /\ \A m \in M : m \in Node /\ m # Nil /\ at[m] \in Int
      /\ \A m \in M, y \in Side : end[y][m] \in Int
      /\ t.root \in M /\ b \in Int /\ x # Nil
      /\ z = "left" \/ z = "right"
      /\ o \in Side /\ Other(o) = z /\ o # z
      /\ h \in M \/ h = Nil
      /\ h # x /\ h # t.root
      /\ x # t.root => /\ SideOf(t, x) \in Side /\ t.parent[x] \in M \ {x}
                       /\ t.child[SideOf(t, x)][t.parent[x]] = x
  <2>1. o \in Side /\ Other(o) = z /\ o # z
    BY Sides
  <2>2. h # x /\ h # t.root /\ (h \in M \/ h = Nil)
    BY <1>1, <2>1 DEF Facts, Separate
  <2> QED
    BY <1>1, <2>1, <2>2, RBTreeAssumption DEF Facts, Separate, Side
<1>4. at2 \in Numbers /\ \A m \in M : at2[m] = IF at[m] > b THEN at[m] - 1 ELSE at[m]
  <2> DEFINE val(m) == IF at[m] > b THEN at[m] - 1 ELSE at[m]
  <2>1. at2 = [m \in Node |-> val(m)]
    BY Zenon DEF MovedDown
  <2>2. \A m \in Node : val(m) \in Int
    BY <1>1, <1>2 DEF Facts, Numbers
  <2>3. \A m \in M : val(m) = IF at[m] > b THEN at[m] - 1 ELSE at[m]
    OBVIOUS
  <2> HIDE DEF val, at2
  <2> QED
    BY <1>2, <2>1, <2>2, <2>3 DEF Numbers
<1>5. /\ end2 \in Ends
      /\ \A m \in M : /\ end2["left"][m] = IF end["left"][m] > b THEN end["left"][m] - 1
                                           ELSE end["left"][m]
                      /\ end2["right"][m] = IF end["right"][m] >= b THEN end["right"][m] - 1
                                            ELSE end["right"][m]
  <2> DEFINE val(y, m) == IF y = "left"
                          THEN IF end[y][m] > b THEN end[y][m] - 1 ELSE end[y][m]
                          ELSE IF end[y][m] >= b THEN end[y][m] - 1 ELSE end[y][m]
  <2>1. end2 = [y \in Side |-> [m \in Node |-> val(y, m)]]
    BY Zenon DEF EndsMovedDown
  <2>2. \A y \in Side, m \in Node : val(y, m) \in Int
    BY <1>1, <1>2 DEF Facts, Ends
  <2>3. \A m \in M : /\ val("left", m) = IF end["left"][m] > b THEN end["left"][m] - 1
                                         ELSE end["left"][m]
                     /\ val("right", m) = IF end["right"][m] >= b THEN end["right"][m] - 1
                                          ELSE end["right"][m]
    OBVIOUS
  <2>4. "left" \in Side /\ "right" \in Side
    BY DEF Side
  <2> HIDE DEF val, end2
  <2> QED
    BY <1>2, <2>1, <2>2, <2>3, <2>4 DEF Ends
<1>6. /\ u \in Trees /\ u.root = IF x = t.root THEN h ELSE t.root
      /\ \A y \in Side, k \in M \ {x} :
            u.child[y][k] = IF x # t.root /\ k = t.parent[x] /\ y = SideOf(t, x) THEN h
                            ELSE t.child[y][k]
      /\ \A k \in M \ {x, h} : u.parent[k] = t.parent[k]
      /\ x # t.root /\ h # Nil => u.parent[h] = t.parent[x]
  BY Zenon DEF Cuts
<1> HIDE DEF at2, end2
<1>7. /\ \A m, k \in M : at[m] = at[k] => m = k
      /\ end["left"][t.root] = 1
      /\ \A i \in 1 .. end["right"][t.root] : \E m \in M : at[m] = i
      /\ \A m, k \in M : at[m] < at[k] => KeyOf[m] <= KeyOf[k]
      /\ \A m \in M : m # x => at[m] # b
  BY DEF Ranked
<1>8. /\ end[z][x] = b /\ (h = Nil => end[o][x] = b)
      /\ h # Nil => /\ end[o][h] = end[o][x] /\ end[z][h] = b + Step(o)
                    /\ end["left"][h] <= at[h] /\ at[h] <= end["right"][h]
      /\ \A m \in M : /\ end["left"][m] <= at[m] /\ at[m] <= end["right"][m]
                      /\ end["left"][t.root] <= at[m] /\ at[m] <= end["right"][t.root]
  BY <1>1, <1>2 DEF Facts
<1>a. \A m \in M, y \in Side : t.child[y][m] = x => x # t.root /\ m = t.parent[x] /\ y = SideOf(t, x)
  BY <1>1, <1>2 DEF Separate
<1>b. \A m \in M, y \in Side : t.child[y][m] = h /\ h # Nil => m = x /\ y = o
  BY <1>1, <1>2 DEF Separate
<1>c. \/ z = "left" /\ o = "right" /\ Step(o) = 1
      \/ z = "right" /\ o = "left" /\ Step(o) = -1
  BY <1>2 DEF Other, Step
<1> HIDE DEF o, h, b
<1>9. ASSUME NEW m \in M \ {x}, NEW y \in Side PROVE Below(u, M \ {x}, at2, end2, m, y)
  <2> DEFINE c == t.child[y][m]
  <2>1. CASE c = x
    <3>1. u.child[y][m] = h /\ end[y][x] = end[y][m] /\ end[Other(y)][x] = at[m] + Step(y)
          /\ (h # Nil => u.parent[h] = m)
      BY <1>1, <1>2, <1>6, <1>a, <2>1 DEF Facts
    <3>2. CASE h = Nil
      <4>1. end2[y][m] = at2[m]
        <5>1. end["left"][x] = b /\ end["right"][x] = b
          BY <1>8, <1>c, <3>2
        <5>2. CASE y = "left"
          BY <1>2, <1>4, <1>5, <3>1, <5>1, <5>2 DEF Other, Step
        <5>3. CASE y = "right"
          BY <1>2, <1>4, <1>5, <3>1, <5>1, <5>3 DEF Other, Step
        <5> QED
          BY <5>2, <5>3 DEF Side
      <4> QED
        BY <3>1, <3>2, <4>1 DEF Below
    <3>3. CASE h \in M
      <4>1. end2[y][h] = end2[y][m] /\ end2[Other(y)][h] = at2[m] + Step(y)
        <5>1. /\ h # Nil /\ end["left"][h] \in Int /\ end["right"][h] \in Int /\ at[h] \in Int
              /\ end["left"][m] \in Int /\ end["right"][m] \in Int /\ at[m] \in Int /\ m \in M
          BY <1>2, <3>3 DEF Side
        <5>2. CASE y = "left"
          BY <1>2, <1>4, <1>5, <1>8, <1>c, <3>1, <3>3, <5>1, <5>2 DEF Other, Step
        <5>3. CASE y = "right"
          BY <1>2, <1>4, <1>5, <1>8, <1>c, <3>1, <3>3, <5>1, <5>3 DEF Other, Step
        <5> QED
          BY <5>2, <5>3 DEF Side
      <4> QED
        BY <1>2, <3>1, <3>3, <4>1 DEF Below
    <3> QED
      BY <1>2, <3>2, <3>3
  <2>2. CASE c = Nil
    <3>1. end[y][m] = at[m] /\ u.child[y][m] = Nil
      BY <1>1, <1>2, <1>6, <2>2 DEF Facts
    <3>2. end2[y][m] = at2[m]
      BY <1>2, <1>4, <1>5, <1>7, <3>1 DEF Side
    <3> QED
      BY <3>1, <3>2 DEF Below
  <2>3. CASE c \in M \ {x}
    <3>1. end[y][c] = end[y][m] /\ end[Other(y)][c] = at[m] + Step(y) /\ t.parent[c] = m
      BY <1>1, <2>3 DEF Facts
    <3>2. end2[y][c] = end2[y][m] /\ end2[Other(y)][c] = at2[m] + Step(y)
      <4>1. CASE y = "left"
        BY <1>2, <1>4, <1>5, <1>7, <2>3, <3>1, <4>1 DEF Other, Step
      <4>2. CASE y = "right"
        BY <1>2, <1>4, <1>5, <1>7, <2>3, <3>1, <4>2 DEF Other, Step
      <4> QED
        BY <4>1, <4>2 DEF Side
    <3>3. u.child[y][m] = c /\ u.parent[c] = m
      BY <1>2, <1>6, <1>a, <1>b, <2>3, <3>1
    <3> QED
      BY <2>3, <3>2, <3>3 DEF Below
  <2> QED
    BY <1>1, <2>1, <2>2, <2>3 DEF Facts
<1>d. \A m \in M, y \in Side : end[y][m] \in Int /\ "left" \in Side /\ "right" \in Side
  BY <1>2 DEF Side
<1>e. ASSUME x = t.root, h = Nil PROVE M = {x}
  <2>1. end["left"][t.root] = b /\ end["right"][t.root] = b
    BY <1>8, <1>c, <1>e
  <2>2. \A m \in M : at[m] = b
    BY <1>2, <1>8, <2>1
  <2> QED
    BY <1>7, <2>2
<1>10. ASSUME NEW m \in M \ {x}
       PROVE  Within(at2, end2, m, m) /\ Within(at2, end2, m, u.root)
  <2>1. Within(at2, end2, m, m)
    BY <1>2, <1>4, <1>5, <1>7, <1>8, <1>d DEF Within
  <2>2. Within(at2, end2, m, u.root)
    <3>1. CASE x # t.root
      <4>1. u.root = t.root
        BY <1>6, <3>1
      <4> QED
        BY <1>2, <1>4, <1>5, <1>7, <1>8, <1>d, <4>1 DEF Within
    <3>2. CASE x = t.root
      <4>1. h \in M /\ u.root = h /\ h # Nil
        BY <1>2, <1>6, <1>e, <3>2
      <4>2. CASE z = "left"
        BY <1>2, <1>4, <1>5, <1>7, <1>8, <1>c, <1>d, <3>2, <4>1, <4>2 DEF Within
      <4>3. CASE z = "right"
        BY <1>2, <1>4, <1>5, <1>7, <1>8, <1>c, <1>d, <3>2, <4>1, <4>3 DEF Within
      <4> QED
        BY <1>2, <4>2, <4>3
    <3> QED
      BY <3>1, <3>2
  <2> QED
    BY <2>1, <2>2
<1>11. ASSUME NEW m \in M \ {x}, m # u.root PROVE Hangs(u, M \ {x}, m)
  <2>1. CASE m = h
    BY <1>2, <1>6, <1>11, <2>1 DEF Hangs
  <2>2. CASE m # h
    <3>1. m # t.root
      BY <1>6, <1>11
    <3>2. PICK y \in Side : t.parent[m] \in M /\ t.child[y][t.parent[m]] = m
      BY <3>1 DEF Spanned, Hangs
    <3>3. t.parent[m] # x
      <4>1. y = z \/ y = o
        BY <1>2, <1>c DEF Side
      <4> QED
        BY <1>2, <2>2, <3>2, <4>1 DEF h
    <3>4. u.parent[m] = t.parent[m]
      BY <1>6, <2>2
    <3>5. u.child[y][t.parent[m]] = m
      BY <1>2, <1>6, <3>2, <3>3
    <3> QED
      BY <3>2, <3>3, <3>4, <3>5 DEF Hangs
  <2> QED
    BY <2>1, <2>2
<1>12. IF M \ {x} = {} THEN u.root = Nil ELSE u.root \in M \ {x}
  <2>1. CASE x # t.root
    BY <1>2, <1>6, <2>1
  <2>2. CASE x = t.root /\ h = Nil
    BY <1>6, <1>e, <2>2
  <2>3. CASE x = t.root /\ h \in M
    BY <1>2, <1>6, <2>3
  <2> QED
    BY <1>2, <2>1, <2>2, <2>3
<1>13. Spanned(u, M \ {x}, at2, end2)
  <2>1. M \ {x} \subseteq Node
    BY <1>2
  <2> QED
    BY <1>4, <1>5, <1>6, <1>9, <1>10, <1>11, <1>12, <2>1 DEF Spanned
<1>14. ASSUME M \ {x} # {}
       PROVE  end2["left"][u.root] = 1 /\ end2["right"][u.root] = end["right"][t.root] - 1
  <2>1. CASE x # t.root
    <3>1. u.root = t.root
      BY <1>6, <2>1
    <3> QED
      BY <1>2, <1>5, <1>7, <1>8, <1>d, <3>1 DEF b
  <2>2. CASE x = t.root
    <3>1. h \in M /\ u.root = h /\ h # Nil
      BY <1>2, <1>6, <1>e, <1>14, <2>2
    <3>2. CASE z = "left"
      BY <1>2, <1>5, <1>7, <1>8, <1>c, <1>d, <2>2, <3>1, <3>2
    <3>3. CASE z = "right"
      BY <1>2, <1>5, <1>7, <1>8, <1>c, <1>d, <2>2, <3>1, <3>3
    <3> QED
      BY <1>2, <3>2, <3>3
  <2> QED
    BY <2>1, <2>2
<1>15. ASSUME NEW i \in 1 .. (end["right"][t.root] - 1)
       PROVE  \E m \in M \ {x} : at2[m] = i
  <2>1. end["right"][t.root] \in Int /\ i \in Int /\ 1 <= i /\ i <= end["right"][t.root] - 1
    BY <1>2, <1>d
  <2>2. CASE i < b
    <3>1. PICK m \in M : at[m] = i
      BY <1>7, <2>1
    <3>2. m # x /\ at2[m] = i
      BY <1>2, <1>4, <2>1, <2>2, <3>1 DEF b
    <3> QED
      BY <3>2
  <2>3. CASE i >= b
    <3>1. i + 1 \in 1 .. end["right"][t.root]
      BY <2>1
    <3>2. PICK m \in M : at[m] = i + 1
      BY <1>7, <3>1
    <3>3. m # x /\ at2[m] = i
      BY <1>2, <1>4, <2>1, <2>3, <3>2 DEF b
    <3> QED
      BY <3>3
  <2> QED
    BY <1>2, <2>1, <2>2, <2>3
<1>16. ASSUME NEW m \in M \ {x}, NEW k \in M \ {x}
       PROVE  /\ at2[m] = at2[k] => m = k
              /\ at2[m] < at2[k] => KeyOf[m] <= KeyOf[k]
  BY <1>2, <1>4, <1>7
<1>17. Ranked(u, M \ {x}, at2, end2)
  BY <1>14, <1>15, <1>16 DEF Ranked
<1> QED
  BY <1>13, <1>17 DEF at2, end2, Numbered

(***************************************************************************)
(* A node x that is not in the tree takes the place of n.                  *)
(***************************************************************************)
Renames(t, u, M, n, x) ==
    /\ u \in Trees /\ u.root = IF n = t.root THEN x ELSE t.root
    /\ \A y \in Side, k \in M \ {n} :
          u.child[y][k] = IF t.child[y][k] = n THEN x ELSE t.child[y][k]
    /\ \A y \in Side : u.child[y][x] = t.child[y][n]
    /\ \A k \in M \ {n, t.root} : u.parent[k] = IF t.parent[k] = n THEN x ELSE t.parent[k]
    /\ n # t.root => u.parent[x] = t.parent[n]

Renamed(at, n, x) == [m \in Node |-> IF m = x THEN at[n] ELSE at[m]]
EndsRenamed(end, n, x) == [y \in Side |-> Renamed(end[y], n, x)]

\* x fits in where n is.
Fits(at, M, n, x) ==
    \A m \in M \ {n} : /\ at[m] < at[n] => KeyOf[m] <= KeyOf[x]
                       /\ at[n] < at[m] => KeyOf[x] <= KeyOf[m]

LEMMA RenameSpans ==
    ASSUME NEW t, NEW M, NEW at, NEW end, Spanned(t, M, at, end), Ranked(t, M, at, end),
           NEW n \in M, NEW x \in Node \ M, Fits(at, M, n, x),
           NEW u, Renames(t, u, M, n, x)
    PROVE  Numbered(u, (M \ {n}) \cup {x}, Renamed(at, n, x), EndsRenamed(end, n, x))
<1> DEFINE N == (M \ {n}) \cup {x}
           at2 == Renamed(at, n, x)
           end2 == EndsRenamed(end, n, x)
           name(k) == IF k = n THEN x ELSE k
<1>1. Facts(t, M, at, end) /\ Separate(t, M)
  BY SpannedFacts, SpannedApart, Zenon
<1>2. /\ \A m \in M : m \in Node /\ m # Nil /\ at[m] \in Int /\ m # x
      /\ \A m \in M, y \in Side : end[y][m] \in Int
      /\ t.root \in M /\ x \in Node /\ x # Nil /\ x # n
      /\ \A y \in Side : Other(y) \in Side
      /\ "left" \in Side /\ "right" \in Side
  BY <1>1, Sides, RBTreeAssumption DEF Facts, Side
<1>3. /\ at2 \in Numbers /\ end2 \in Ends
      /\ \A m \in M : at2[name(m)] = at[m]
      /\ \A m \in M, y \in Side : end2[y][name(m)] = end[y][m]
  <2>1. at \in Numbers /\ end \in Ends
    BY <1>1 DEF Facts
  <2>2. \A a \in Numbers : /\ Renamed(a, n, x) \in Numbers
                           /\ \A m \in M : Renamed(a, n, x)[name(m)] = a[m]
    BY <1>2 DEF Renamed, Numbers
  <2>3. \A y \in Side : end[y] \in Numbers
    BY <2>1 DEF Ends, Numbers
  <2>4. end2 = [y \in Side |-> Renamed(end[y], n, x)]
    BY Zenon DEF EndsRenamed
  <2> HIDE DEF name, end2
  <2> QED
    BY <2>1, <2>2, <2>3, <2>4 DEF Ends, Numbers
<1>4. /\ N = {name(m) : m \in M}
      /\ \A m, k \in M : name(m) = name(k) => m = k
      /\ \A m \in M : name(m) \in N /\ name(m) # Nil
      /\ u.root = name(t.root) /\ u \in Trees
      /\ \A m \in M, y \in Side : t.child[y][m] \in M => u.child[y][name(m)] = name(t.child[y][m])
      /\ \A m \in M, y \in Side : t.child[y][m] = Nil => u.child[y][name(m)] = Nil
      /\ \A m \in M \ {t.root} : u.parent[name(m)] = name(t.parent[m])
  <2>1. /\ u \in Trees /\ u.root = IF n = t.root THEN x ELSE t.root
        /\ \A y \in Side, k \in M \ {n} :
              u.child[y][k] = IF t.child[y][k] = n THEN x ELSE t.child[y][k]
        /\ \A y \in Side : u.child[y][x] = t.child[y][n]
        /\ \A k \in M \ {n, t.root} : u.parent[k] = IF t.parent[k] = n THEN x ELSE t.parent[k]
        /\ n # t.root => u.parent[x] = t.parent[n]
    BY Zenon DEF Renames
  <2>2. \A y \in Side : t.child[y][n] # n
    BY <1>1 DEF Separate
  <2>3. \A m \in M \ {t.root} : t.parent[m] \in M \ {m}
    BY <1>1 DEF Separate
  <2>4. ASSUME NEW m \in M, NEW y \in Side
        PROVE  /\ t.child[y][m] \in M => u.child[y][name(m)] = name(t.child[y][m])
               /\ t.child[y][m] = Nil => u.child[y][name(m)] = Nil
    BY <1>2, <2>1, <2>2
  <2>5. ASSUME NEW m \in M \ {t.root} PROVE u.parent[name(m)] = name(t.parent[m])
    BY <1>2, <2>1, <2>3
  <2> QED
    BY <1>2, <2>1, <2>4, <2>5
<1> HIDE DEF N, at2, end2, name
<1>5. ASSUME NEW k \in N, NEW y \in Side PROVE Below(u, N, at2, end2, k, y)
  <2>1. PICK m \in M : k = name(m)
    BY <1>4
  <2>2. CASE t.child[y][m] = Nil
    BY <1>1, <1>3, <1>4, <2>1, <2>2 DEF Facts, Below
  <2>3. CASE t.child[y][m] \in M
    <3> DEFINE c == t.child[y][m]
    <3>1. t.parent[c] = m /\ end[y][c] = end[y][m] /\ end[Other(y)][c] = at[m] + Step(y)
          /\ c # t.root
      BY <1>1, <2>3 DEF Facts, Separate
    <3>2. /\ u.child[y][k] = name(c) /\ name(c) \in N /\ u.parent[name(c)] = k
          /\ end2[y][name(c)] = end2[y][k] /\ end2[Other(y)][name(c)] = at2[k] + Step(y)
      BY <1>2, <1>3, <1>4, <2>1, <2>3, <3>1
    <3> QED
      BY <3>2 DEF Below
  <2> QED
    BY <1>1, <2>2, <2>3 DEF Facts
<1>6. ASSUME NEW k \in N PROVE Within(at2, end2, k, k) /\ Within(at2, end2, k, u.root)
  <2>1. PICK m \in M : k = name(m)
    BY <1>4
  <2> QED
    BY <1>1, <1>2, <1>3, <1>4, <2>1 DEF Facts, Within
<1>7. ASSUME NEW k \in N, k # u.root PROVE Hangs(u, N, k)
  <2>1. PICK m \in M : k = name(m)
    BY <1>4
  <2>2. m # t.root
    BY <1>4, <1>7, <2>1
  <2>3. PICK y \in Side : t.parent[m] \in M /\ t.child[y][t.parent[m]] = m
    BY <2>2 DEF Spanned, Hangs
  <2> QED
    BY <1>4, <2>1, <2>2, <2>3 DEF Hangs
<1>8. Spanned(u, N, at2, end2)
  <2>1. N \subseteq Node /\ N # {} /\ u.root \in N
    BY <1>2, <1>4 DEF N
  <2> QED
    BY <1>3, <1>4, <1>5, <1>6, <1>7, <2>1 DEF Spanned
<1>9. Ranked(u, N, at2, end2)
  <2>1. end2["left"][u.root] = 1 /\ end2["right"][u.root] = end["right"][t.root]
    BY <1>2, <1>3, <1>4 DEF Ranked
  <2>2. ASSUME NEW i \in 1 .. end["right"][t.root] PROVE \E k \in N : at2[k] = i
    <3>1. PICK m \in M : at[m] = i
      BY DEF Ranked
    <3> QED
      BY <1>3, <1>4, <3>1
  <2>3. ASSUME NEW k \in N, NEW j \in N
        PROVE  /\ at2[k] = at2[j] => k = j
               /\ at2[k] < at2[j] => KeyOf[k] <= KeyOf[j]
    <3>1. PICK m \in M, l \in M : k = name(m) /\ j = name(l)
      BY <1>4
    <3>2. /\ at[m] = at[l] => m = l
          /\ at[m] < at[l] => KeyOf[m] <= KeyOf[l]
      BY DEF Ranked
    <3>3. at2[k] = at[m] /\ at2[j] = at[l] /\ at[m] \in Int /\ at[l] \in Int
      BY <1>2, <1>3, <3>1
    <3>4. ASSUME at[m] < at[l] PROVE KeyOf[k] <= KeyOf[j]
      <4>1. m # l
        BY <3>3, <3>4
      <4> QED
        BY <3>1, <3>2, <3>4, <4>1 DEF Fits, name
    <3> QED
      BY <3>1, <3>2, <3>3, <3>4
  <2> QED
    BY <2>1, <2>2, <2>3 DEF Ranked
<1> QED
  BY <1>8, <1>9 DEF N, at2, end2, Numbered

(***************************************************************************)
(* A tree of the nodes M, whose places are not named any more.              *)
(***************************************************************************)
Placed(t, M) == \E at, end : Numbered(t, M, at, end)

Shaped(t, M) ==
    /\ t \in Trees /\ M \subseteq Node /\ Nil \notin M /\ Separate(t, M)
    /\ IF M = {} THEN t.root = Nil ELSE t.root \in M
    /\ \A n \in M, s \in Side : t.child[s][n] \in M \cup {Nil}
    /\ \A n \in M, s \in Side : t.child[s][n] \in M => t.parent[t.child[s][n]] = n

LEMMA PlacedShape ==
    ASSUME NEW t, NEW M, Placed(t, M)
    PROVE  Shaped(t, M)
<1>1. PICK at, end : Spanned(t, M, at, end)
  BY DEF Placed, Numbered
<1>2. Facts(t, M, at, end) /\ Separate(t, M)
  BY <1>1, SpannedFacts, SpannedApart, Zenon
<1>3. IF M = {} THEN t.root = Nil ELSE t.root \in M
  BY <1>1 DEF Spanned
<1> QED
  BY <1>2, <1>3 DEF Facts, Shaped

\* The tree after a rotation, and what moved.
Turned(t, u, M, s, n) ==
    LET o      == Other(s)
        up     == t.child[o][n]
        middle == t.child[s][up]
    IN /\ u \in Trees /\ u.color = t.color
       /\ o \in Side /\ o # s /\ Other(o) = s /\ \A z \in Side : z = s \/ z = o
       /\ up \in M \ {n} /\ middle \in (M \cup {Nil}) \ {n, up}
       /\ u.root = IF n = t.root THEN up ELSE t.root
       /\ \A z \in Side, m \in M :
             u.child[z][m] = IF m = n /\ z = o THEN middle
                             ELSE IF m = up /\ z = s THEN n
                             ELSE IF t.child[z][m] = n THEN up
                             ELSE t.child[z][m]
       /\ \A m \in M \cup {Nil} :
             u.parent[m] = IF m = n THEN up ELSE IF m = up THEN t.parent[n]
                           ELSE IF m = middle /\ m # Nil THEN n ELSE t.parent[m]
       /\ \A z \in Side, m \in M : /\ t.child[z][m] = up => m = n /\ z = o
                                   /\ t.child[z][m] = middle /\ middle # Nil => m = up /\ z = s
                                   /\ t.child[z][m] = n => m # n /\ m # up

LEMMA RotationTurned ==
    ASSUME NEW t, NEW M, Placed(t, M), NEW s \in Side, NEW n \in M, t.child[Other(s)][n] \in M
    PROVE  /\ Turned(t, Rotated(t, s, n), M, s, n) /\ Placed(Rotated(t, s, n), M)
<1> DEFINE u == Rotated(t, s, n)
<1>1. PICK at, end : Spanned(t, M, at, end) /\ Ranked(t, M, at, end)
  BY DEF Placed, Numbered
<1>2. Shaped(t, M)
  BY PlacedShape
<1>3. Turnable(t, s, n)
  BY <1>1, RotationTurns, Zenon
<1>4. RotatedSets(t, u, s, n)
  <2>1. t \in Trees /\ n \in Node
    BY <1>2 DEF Shaped
  <2> QED
    BY <1>3, <2>1, RotatedFields, Zenon
<1> HIDE DEF u
<1>5. Placed(u, M)
  <2> DEFINE new == TurnedEnds(t, at, end, s, n)
  <2>1. SpansAs(t, u, M, at, end, new)
    BY <1>1, <1>4, RotationSpans, Zenon
  <2> HIDE DEF new
  <2>2. Ranked(u, M, at, new)
    BY <1>1, <2>1 DEF Ranked, Side, SpansAs
  <2> QED
    BY <2>1, <2>2 DEF Placed, Numbered, SpansAs
<1>6. Turned(t, u, M, s, n)
  <2> DEFINE o      == Other(s)
             up     == t.child[o][n]
             middle == t.child[s][up]
  <2>1. o \in Side /\ o # s /\ Other(o) = s /\ \A z \in Side : z = s \/ z = o
    BY Sides
  <2>2. /\ \A m \in M : m \in Node /\ m # Nil
        /\ up \in M \ {n} /\ middle \in (M \cup {Nil}) \ {n, up} /\ t.root \in M
    BY <1>2, <1>3 DEF Shaped, Turnable
  <2>3. \A z \in Side, m \in M : /\ t.child[z][m] = up => m = n /\ z = o
                                 /\ t.child[z][m] = middle /\ middle # Nil => m = up /\ z = s
                                 /\ t.child[z][m] = n => m # n /\ m # up
    BY <1>2, <2>1, <2>2 DEF Shaped, Separate
  <2>4. \A z \in Side, m \in M :
           n # t.root /\ m = t.parent[n] /\ z = SideOf(t, n) <=> t.child[z][m] = n
    BY <1>2, <2>2, SMTT(30) DEF Shaped, Separate
  <2>5. /\ u \in Trees /\ u.color = t.color
        /\ u.root = IF n = t.root THEN up ELSE t.root
        /\ \A z \in Side, m \in Node : u.child[z][m] = RotatedChild(t, s, n, z, m)
        /\ \A m \in Node \cup {Nil} : u.parent[m] = RotatedParent(t, s, n, m)
    BY <1>4, Zenon DEF RotatedSets
  <2>6. \A z \in Side, m \in M :
           u.child[z][m] = IF m = n /\ z = o THEN middle
                           ELSE IF m = up /\ z = s THEN n
                           ELSE IF t.child[z][m] = n THEN up
                           ELSE t.child[z][m]
    <3> SUFFICES ASSUME NEW z \in Side, NEW m \in M
                 PROVE  u.child[z][m] = IF m = n /\ z = o THEN middle
                                        ELSE IF m = up /\ z = s THEN n
                                        ELSE IF t.child[z][m] = n THEN up
                                        ELSE t.child[z][m]
      OBVIOUS
    <3>1. u.child[z][m] = RotatedChild(t, s, n, z, m)
      BY <2>2, <2>5
    <3> QED
      BY <2>4, <3>1 DEF RotatedChild
  <2>7. \A m \in M \cup {Nil} :
           u.parent[m] = IF m = n THEN up ELSE IF m = up THEN t.parent[n]
                         ELSE IF m = middle /\ m # Nil THEN n ELSE t.parent[m]
    <3>1. \A m \in M \cup {Nil} : u.parent[m] = RotatedParent(t, s, n, m)
      BY <2>2, <2>5
    <3> QED
      BY <3>1, Zenon DEF RotatedParent
  <2> HIDE DEF o, up, middle
  <2>8. /\ u \in Trees /\ u.color = t.color
        /\ o \in Side /\ o # s /\ Other(o) = s /\ \A z \in Side : z = s \/ z = o
        /\ up \in M \ {n} /\ middle \in (M \cup {Nil}) \ {n, up}
        /\ u.root = IF n = t.root THEN up ELSE t.root
    BY <2>1, <2>2, <2>5
  <2> QED
    BY <2>3, <2>6, <2>7, <2>8, Zenon DEF Turned, o, up, middle
<1> QED
  BY <1>5, <1>6 DEF u

\* A color changes nothing.
LEMMA PaintedPlaced ==
    ASSUME NEW t, NEW M, Placed(t, M), NEW m \in Node \cup {Nil}, NEW c \in {"red", "black"}
    PROVE  Placed(Painted(t, m, c), M) /\ ColorSets(t, Painted(t, m, c), m, c)
<1> DEFINE u == Painted(t, m, c)
<1>1. PICK at, end : Spanned(t, M, at, end) /\ Ranked(t, M, at, end)
  BY DEF Placed, Numbered
<1>2. ColorSets(t, u, m, c)
  <2>1. t \in Trees
    BY <1>1 DEF Spanned
  <2> QED
    BY <2>1, ColorSet, Zenon
<1> HIDE DEF u
<1>3. u \in Trees /\ u.root = t.root /\ u.child = t.child /\ u.parent = t.parent
  BY <1>2 DEF ColorSets
<1>4. Spanned(u, M, at, end) /\ Ranked(u, M, at, end)
  BY <1>1, <1>3 DEF Spanned, Ranked, Below, Hangs
<1>5. Placed(u, M)
  BY <1>4 DEF Placed, Numbered
<1> QED
  BY <1>2, <1>5 DEF u

\* The first node.
LEMMA FirstPlaced ==
    ASSUME NEW n \in Node, NEW u \in Trees, u.root = n, \A y \in Side : u.child[y][n] = Nil
    PROVE  Placed(u, {n})
<1> DEFINE at == [m \in Node |-> 1]
           end == [y \in Side |-> [m \in Node |-> 1]]
<1>1. /\ at \in Numbers /\ end \in Ends
      /\ at[n] = 1 /\ \A y \in Side : end[y][n] = 1
  BY DEF Numbers, Ends
<1> HIDE DEF at, end
<1>2. "left" \in Side /\ "right" \in Side
  BY DEF Side
<1>3. Spanned(u, {n}, at, end)
  BY <1>1, <1>2 DEF Spanned, Within, Below, Hangs
<1>4. Ranked(u, {n}, at, end)
  BY <1>1, <1>2 DEF Ranked
<1> QED
  BY <1>3, <1>4 DEF Placed, Numbered

\* The leftmost node below n has the first place below n.
LEMMA LeastFound ==
    ASSUME NEW at, NEW end, Spanned(tree, members, at, end), NEW n \in members
    PROVE  /\ Least(n) \in members /\ tree.child["left"][Least(n)] = Nil
           /\ at[Least(n)] = end["left"][n] /\ end["left"][Least(n)] = end["left"][n]
<1> DEFINE side == [p \in members |-> "left"]
           Stop == {p \in members : tree.child["left"][p] = Nil}
           S    == {p \in members : end["left"][p] = end["left"][n]}
           Way(g) == g = [p \in members |-> IF tree.child["left"][p] = Nil THEN p
                                            ELSE g[tree.child["left"][p]]]
           down == CHOOSE g : Way(g)
<1>1. Facts(tree, members, at, end) /\ Nil \notin members /\ "left" \in Side
  BY SpannedFacts, RBTreeAssumption DEF Spanned, Side
<1>2. side \in [members -> Side]
  BY <1>1
<1>3. \A p \in members \ Stop : tree.child["left"][p] \in members
  BY <1>1 DEF Facts
<1>4. \E g : Way(g)
  <2>1. PICK g : Follows(g, tree, members, side, Stop)
    <3> HIDE DEF side, Stop
    <3> QED
      BY <1>2, PathRecursion, Zenon
  <2> DEFINE h == [p \in members |-> g[p]]
  <2>2. ASSUME NEW p \in members
        PROVE  h[p] = IF tree.child["left"][p] = Nil THEN p ELSE h[tree.child["left"][p]]
    BY <1>3, <2>1 DEF Follows
  <2>3. h = [p \in members |-> h[p]]
    OBVIOUS
  <2>4. Way(h)
    <3> HIDE DEF h
    <3> QED
      BY <2>2, <2>3
  <2> QED
    BY <2>4
<1>5. Way(down)
  <2> HIDE DEF Way
  <2> QED
    BY <1>4
<1>6. Least(n) = down[n]
  BY Zenon DEF Least
<1> HIDE DEF down
<1> DEFINE g == [p \in members \cup {Nil} |-> IF p = Nil THEN Nil ELSE down[p]]
<1>7. \A p \in members : down[p] = IF p \in Stop THEN p ELSE down[tree.child["left"][p]]
  BY <1>5
<1>8. \A p \in members : down[p] \in members
  <2> DEFINE P == {p \in members : down[p] \in members}
  <2>1. ASSUME NEW p \in members,
               \A s \in Side : tree.child[s][p] \in members => tree.child[s][p] \in P
        PROVE  p \in P
    BY <1>1, <1>3, <1>7, <2>1
  <2>2. members \subseteq P
    <3> HIDE DEF P
    <3> QED
      BY <2>1, TreeInduction, Zenon
  <2> QED
    BY <2>2
<1>9. Follows(g, tree, members, side, Stop)
  BY <1>1, <1>3, <1>7, <1>8 DEF Follows
<1>10. KeptDown(S, tree, side, Stop)
  BY <1>1, <1>3 DEF KeptDown, Facts
<1>11. g[n] \in S /\ g[n] \in Stop
  <2>1. S \subseteq members /\ g[n] \in members /\ n \in S
    BY <1>8
  <2> HIDE DEF S, Stop, side, g
  <2>2. EndsIn(g, S, Stop)
    BY <1>2, <1>9, <1>10, <2>1, PathInvariant, Zenon
  <2> QED
    BY <1>1, <2>1, <2>2 DEF EndsIn
<1> QED
  BY <1>1, <1>6, <1>11 DEF Facts

(***************************************************************************)
(* What scraft_rbt_delete leaves in each field.                            *)
(***************************************************************************)
FreedSets(t, u, n) ==
    /\ u \in Trees /\ u.root = t.root
    /\ \A y \in Side, k \in Node : u.child[y][k] = IF k = n THEN NoNode ELSE t.child[y][k]
    /\ \A k \in Node \cup {Nil} : u.parent[k] = IF k = n THEN NoNode ELSE t.parent[k]
    /\ \A k \in Node \cup {Nil} : u.color[k] = IF k = n THEN "black" ELSE t.color[k]

LEMMA FreedFields ==
    ASSUME NEW t \in Trees, NEW n \in Node
    PROVE  FreedSets(t, Freed(t, n), n)
<1> DEFINE t1 == Childless(t, n, NoNode)
           t2 == WithParent(t1, n, NoNode)
           t3 == Painted(t2, n, "black")
<1>1. /\ t1 \in Trees /\ t1.root = t.root /\ t1.parent = t.parent /\ t1.color = t.color
      /\ \A y \in Side, k \in Node :
            t1.child[y][k] = IF k = n THEN NoNode ELSE t.child[y][k]
  BY ChildlessFields
<1>2. n \in Node \cup {Nil} /\ NoNode \in Node \cup {NoNode} /\ "black" \in {"red", "black"}
  OBVIOUS
<1>3. Freed(t, n) = t3
  BY Zenon DEF Freed
<1> HIDE DEF t1
<1>4. ParentSets(t1, t2, n, NoNode)
  BY <1>1, <1>2, ParentSet, Zenon
<1> HIDE DEF t2
<1>5. ColorSets(t2, t3, n, "black")
  <2>1. t2 \in Trees
    BY <1>4 DEF ParentSets
  <2> QED
    BY <1>2, <2>1, ColorSet, Zenon
<1> HIDE DEF t3
<1>6. FreedSets(t, t3, n)
  BY <1>1, <1>4, <1>5 DEF ParentSets, ColorSets, FreedSets
<1> QED
  BY <1>3, <1>6

UnlinkedSets(t, v, x, tmp, p) ==
    /\ v \in Trees /\ v.root = t.root /\ v.color = t.color
    /\ \A y \in Side, k \in Node :
          v.child[y][k] = IF k = t.parent[x] /\ y = SideOf(t, x) THEN tmp ELSE t.child[y][k]
    /\ \A k \in Node \cup {Nil} : v.parent[k] = IF k = tmp THEN p ELSE t.parent[k]

LEMMA UnlinkedFields ==
    ASSUME NEW t \in Trees, NEW x \in Node, x # t.root, t.parent[x] \in Node,
           NEW tmp \in Node \cup {Nil}, NEW p \in Node
    PROVE  UnlinkedSets(t, WithParent(Replaced(t, x, tmp), tmp, p), x, tmp, p)
<1> DEFINE t1 == Replaced(t, x, tmp)
           t2 == WithParent(t1, tmp, p)
<1>1. ReplacedSets(t, t1, x, tmp)
  BY ReplacedFields, Zenon
<1> HIDE DEF t1
<1>2. ParentSets(t1, t2, tmp, p)
  <2>1. t1 \in Trees /\ p \in Node \cup {NoNode}
    BY <1>1 DEF ReplacedSets
  <2> QED
    BY <2>1, ParentSet, Zenon
<1> HIDE DEF t2
<1>3. UnlinkedSets(t, t2, x, tmp, p)
  BY <1>1, <1>2 DEF ReplacedSets, ParentSets, UnlinkedSets
<1> QED
  BY <1>3 DEF t1, t2

\* v is the tree in which tmp is in the place of x.
ExchangedSets(v, e, n, x) ==
    /\ e \in Trees /\ e.root = IF n = v.root THEN x ELSE v.root
    /\ \A y \in Side, k \in Node :
          e.child[y][k] = IF n # v.root /\ k = v.parent[n] /\ y = SideOf(v, n) THEN x
                          ELSE IF k = x THEN v.child[y][n] ELSE v.child[y][k]
    /\ \A k \in Node \cup {Nil} :
          e.parent[k] = IF k # Nil /\ (k = v.child["left"][n] \/ k = v.child["right"][n]) THEN x
                        ELSE IF k = x THEN v.parent[n] ELSE v.parent[k]
    /\ \A k \in Node \cup {Nil} : e.color[k] = IF k = x THEN v.color[n] ELSE v.color[k]

\* The second half of the exchange.
Installed(t1, n, x) ==
    LET t2 == WithChild(WithChild(t1, "left", x, t1.child["left"][n]),
                        "right", x, t1.child["right"][n])
        t3 == Replaced(Painted(WithParent(t2, x, t1.parent[n]), x, t1.color[n]), n, x)
    IN Adopted(Adopted(t3, t3.child["left"][x], x), t3.child["right"][x], x)

LEMMA InstalledFields ==
    ASSUME NEW v \in Trees, NEW x \in Node, NEW n \in Node \ {x},
           \A y \in Side : v.child[y][n] \in (Node \cup {Nil}) \ {x},
           n # v.root => v.parent[n] \in Node \ {x}
    PROVE  ExchangedSets(v, Installed(v, n, x), n, x)
<1> DEFINE l  == v.child["left"][n]
           r  == v.child["right"][n]
           ta == WithChild(v, "left", x, l)
           t2 == WithChild(ta, "right", x, r)
           tb == WithParent(t2, x, v.parent[n])
           tc == Painted(tb, x, v.color[n])
           t3 == Replaced(tc, n, x)
           lx == t3.child["left"][x]
           rx == t3.child["right"][x]
           td == Adopted(t3, lx, x)
           te == Adopted(td, rx, x)
<1>1. /\ "left" \in Side /\ "right" \in Side /\ \A y \in Side : y = "left" \/ y = "right"
      /\ x \in Node \cup {Nil}
      /\ l \in Node \cup {Nil, NoNode} /\ r \in Node \cup {Nil, NoNode}
      /\ l \in (Node \cup {Nil}) \ {x} /\ r \in (Node \cup {Nil}) \ {x}
      /\ v.parent[n] \in Node \cup {NoNode} /\ v.color[n] \in {"red", "black"}
  BY DEF Side, Trees
<1>2. Installed(v, n, x) = te
  BY Zenon DEF Installed
<1>3. ChildSets(v, ta, "left", x, l)
  BY <1>1, ChildSet, Zenon
<1> HIDE DEF ta
<1>4. ChildSets(ta, t2, "right", x, r)
  <2>1. ta \in Trees
    BY <1>3 DEF ChildSets
  <2> QED
    BY <1>1, <2>1, ChildSet, Zenon
<1> HIDE DEF t2
<1>5. ParentSets(t2, tb, x, v.parent[n])
  <2>1. t2 \in Trees
    BY <1>4 DEF ChildSets
  <2> QED
    BY <1>1, <2>1, ParentSet, Zenon
<1> HIDE DEF tb
<1>6. ColorSets(tb, tc, x, v.color[n])
  <2>1. tb \in Trees
    BY <1>5 DEF ParentSets
  <2> QED
    BY <1>1, <2>1, ColorSet, Zenon
<1> HIDE DEF tc
<1>7. /\ tc \in Trees /\ tc.root = v.root
      /\ \A y \in Side, k \in Node :
            tc.child[y][k] = IF k = x THEN v.child[y][n] ELSE v.child[y][k]
      /\ \A k \in Node \cup {Nil} : tc.parent[k] = IF k = x THEN v.parent[n] ELSE v.parent[k]
      /\ \A k \in Node \cup {Nil} : tc.color[k] = IF k = x THEN v.color[n] ELSE v.color[k]
  BY <1>1, <1>3, <1>4, <1>5, <1>6 DEF ChildSets, ParentSets, ColorSets
<1>8. /\ tc.parent[n] = v.parent[n]
      /\ n # v.root => SideOf(tc, n) = SideOf(v, n)
  BY <1>1, <1>7 DEF SideOf
<1>9. ReplacedSets(tc, t3, n, x)
  <2>1. n # tc.root => tc.parent[n] \in Node
    BY <1>7, <1>8
  <2> QED
    BY <1>1, <1>7, <2>1, ReplacedFields, Zenon
<1> HIDE DEF t3
<1>10. /\ t3 \in Trees /\ t3.root = IF n = v.root THEN x ELSE v.root
       /\ t3.parent = tc.parent /\ t3.color = tc.color
       /\ \A y \in Side, k \in Node :
             t3.child[y][k] = IF n # v.root /\ k = v.parent[n] /\ y = SideOf(v, n) THEN x
                              ELSE tc.child[y][k]
  BY <1>7, <1>8, <1>9 DEF ReplacedSets
<1>11. lx = l /\ rx = r
  BY <1>1, <1>7, <1>10
<1> HIDE DEF lx, rx, l, r
<1>12. AdoptedSets(t3, td, lx, x)
  <2>1. lx \in Node \cup {Nil}
    BY <1>1, <1>11
  <2> QED
    BY <1>10, <2>1, AdoptedFields, Zenon
<1> HIDE DEF td
<1>13. AdoptedSets(td, te, rx, x)
  <2>1. rx \in Node \cup {Nil} /\ td \in Trees
    BY <1>1, <1>11, <1>12 DEF AdoptedSets
  <2> QED
    BY <2>1, AdoptedFields, Zenon
<1> HIDE DEF te
<1>14. /\ te \in Trees /\ te.root = t3.root /\ te.child = t3.child /\ te.color = t3.color
       /\ \A k \in Node \cup {Nil} :
             te.parent[k] = IF k # Nil /\ (k = l \/ k = r) THEN x ELSE t3.parent[k]
  BY <1>11, <1>12, <1>13 DEF AdoptedSets
<1>15. ExchangedSets(v, te, n, x)
  BY <1>1, <1>7, <1>10, <1>14 DEF ExchangedSets, l, r
<1> QED
  BY <1>2, <1>15

\* x has a child at most, and its heir is that child or the sentinel.
GivesWay(x) ==
    \E z \in Side : tree.child[z][x] = Nil /\ Heir(x) = tree.child[Other(z)][x]

LEMMA SubstFound ==
    ASSUME NEW at, NEW end, Spanned(tree, members, at, end), NEW n \in members
    PROVE  /\ Subst(n) \in members /\ GivesWay(Subst(n))
           /\ Subst(n) # n =>
                 /\ at[Subst(n)] = at[n] + 1
                 /\ tree.child["left"][Subst(n)] = Nil
                 /\ Heir(Subst(n)) = tree.child["right"][Subst(n)]
<1>1. Facts(tree, members, at, end)
  BY SpannedFacts, Zenon
<1>2. "left" \in Side /\ "right" \in Side /\ Other("left") = "right" /\ Other("right") = "left"
      /\ \A s \in Side : s = "left" \/ s = "right"
  BY DEF Side, Other
<1>3. \A x \in members : (\E z \in Side : tree.child[z][x] = Nil) => GivesWay(x)
  BY <1>2 DEF GivesWay, Heir
<1>4. CASE \E s \in Side : tree.child[s][n] = Nil
  BY <1>3, <1>4 DEF Subst
<1>5. CASE ~ \E s \in Side : tree.child[s][n] = Nil
  <2> DEFINE c == tree.child["right"][n]
  <2>1. c \in members /\ end["left"][c] = at[n] + 1
    BY <1>1, <1>2, <1>5 DEF Facts, Step
  <2>2. Subst(n) = Least(c)
    BY <1>5 DEF Subst
  <2> HIDE DEF c
  <2>3. /\ Least(c) \in members /\ tree.child["left"][Least(c)] = Nil
        /\ at[Least(c)] = end["left"][c]
    BY <2>1, LeastFound
  <2>4. Heir(Subst(n)) = tree.child["right"][Subst(n)]
    BY <2>2, <2>3 DEF Heir
  <2> QED
    BY <1>2, <1>3, <2>1, <2>2, <2>3, <2>4
<1> QED
  BY <1>4, <1>5

\* The node x below the root gives way to its heir.
LEMMA UnlinkedCuts ==
    ASSUME NEW t, NEW M, Shaped(t, M), NEW x \in M, x # t.root, NEW z \in Side,
           NEW h, h = t.child[z][x],
           NEW v, UnlinkedSets(t, v, x, h, t.parent[x])
    PROVE  Cuts(t, v, M, x, h)
<1>1. M \subseteq Node /\ h \in M \cup {Nil} /\ h # x /\ Nil \notin M
  BY DEF Shaped, Separate
<1> QED
  BY <1>1 DEF UnlinkedSets, Cuts

LEMMA FreedCuts ==
    ASSUME NEW t, NEW M, NEW x \in M, M \subseteq Node, NEW h, h # x, h \in Node \cup {Nil},
           NEW v, Cuts(t, v, M, x, h), NEW u, FreedSets(v, u, x)
    PROVE  Cuts(t, u, M, x, h)
  BY DEF FreedSets, Cuts

\* u is t without n, whose place x has taken, and the place of x its heir h.
Exchanges(t, u, M, n, x, h) ==
    /\ \E v : /\ Cuts(t, v, M, x, h) /\ v.color = t.color
              /\ Renames(v, u, M \ {x}, n, x)
    /\ \A k \in (M \ {n}) \cup {Nil} :
          u.color[k] = IF k = x THEN t.color[n] ELSE t.color[k]
    /\ u.parent[h] = IF t.parent[x] = n THEN x ELSE t.parent[x]

LEMMA ExchangedFits ==
    ASSUME NEW at, NEW end, Spanned(tree, members, at, end), Ranked(tree, members, at, end),
           NEW n \in members, Subst(n) # n, Subst(n) # tree.root
    PROVE  /\ Exchanges(tree, Freed(Exchanged(n, Subst(n), Heir(Subst(n))), n),
                        members, n, Subst(n), Heir(Subst(n)))
           /\ Placed(Freed(Exchanged(n, Subst(n), Heir(Subst(n))), n), members \ {n})
<1> DEFINE x  == Subst(n)
           h  == tree.child["right"][x]
           q  == tree.parent[x]
           p  == IF q = n THEN x ELSE q
           t1 == WithParent(Replaced(tree, x, h), h, p)
           v  == WithParent(Replaced(tree, x, h), h, q)
           e  == Installed(t1, n, x)
           u  == Freed(e, n)
           M  == members \ {x}
<1>1. /\ x \in members /\ tree.child["left"][x] = Nil /\ at[x] = at[n] + 1
      /\ Heir(x) = h
  BY SubstFound
<1>2. u = Freed(Exchanged(n, Subst(n), Heir(Subst(n))), n)
  <2>1. e = Exchanged(n, x, h)
    BY Zenon DEF Exchanged, Installed, Parent
  <2> QED
    BY <1>1, <2>1, Zenon
<1> HIDE DEF x, u, e
<1>3. Facts(tree, members, at, end) /\ Separate(tree, members) /\ Shaped(tree, members)
  BY SpannedFacts, SpannedApart, PlacedShape, Zenon DEF Placed, Numbered
<1>4. "left" \in Side /\ "right" \in Side /\ Other("left") = "right" /\ Other("right") = "left"
      /\ \A y \in Side : y = "left" \/ y = "right"
  BY DEF Side, Other
<1>5. /\ x # n /\ x # tree.root /\ h \in members \cup {Nil} /\ h # x /\ h # tree.root
      /\ q \in members /\ q # x /\ tree.child[SideOf(tree, x)][q] = x /\ SideOf(tree, x) \in Side
      /\ members \subseteq Node /\ Nil \notin members /\ n \in members /\ x \in members
      /\ tree \in Trees
  BY <1>1, <1>3, <1>4 DEF x, Separate, Shaped
<1>6. h # n
  <2> SUFFICES ASSUME h = n PROVE FALSE
    OBVIOUS
  <2>1. end["left"][n] = at[x] + 1
    BY <1>3, <1>4, <1>5 DEF Facts, Step
  <2>2. end["left"][n] <= at[n] /\ end["left"][n] \in Int /\ at[n] \in Int
    BY <1>3, <1>4, <1>5 DEF Facts
  <2> QED
    BY <1>1, <2>1, <2>2
<1> HIDE DEF h
<1>7. \A y \in Side : tree.child[y][x] # n
  BY <1>4, <1>1, <1>5, <1>6 DEF h
<1>8. UnlinkedSets(tree, t1, x, h, p) /\ UnlinkedSets(tree, v, x, h, q)
  <2>1. x \in Node /\ q \in Node /\ p \in Node /\ h \in Node \cup {Nil}
    BY <1>5
  <2> HIDE DEF p, q
  <2>2. tree.parent[x] \in Node
    BY <2>1 DEF q
  <2> QED
    BY <1>5, <2>1, <2>2, UnlinkedFields, Zenon
<1> HIDE DEF t1, v
<1>9. Cuts(tree, v, members, x, h)
  <2>1. h = tree.child["right"][x]
    BY DEF h
  <2> QED
    BY <1>3, <1>4, <1>5, <1>8, <2>1, UnlinkedCuts, Zenon DEF q
<1> DEFINE at2 == MovedDown(at, x)
           end2 == EndsMovedDown(at, end, x)
<1>10. Numbered(v, M, at2, end2)
  <2>1. Cuts(tree, v, members, x, tree.child[Other("left")][x])
    BY <1>4, <1>9 DEF h
  <2> QED
    BY <1>1, <1>4, <1>5, <2>1, CutSpans, Zenon DEF at2, end2, M
<1>11. Shaped(v, M)
  BY <1>10, PlacedShape, Zenon DEF Placed
<1>12. /\ t1.child = v.child /\ t1.root = v.root /\ t1.color = tree.color /\ v.color = tree.color
       /\ t1 \in Trees /\ v \in Trees
       /\ \A k \in Node \cup {Nil} : t1.parent[k] = IF k = h THEN p ELSE v.parent[k]
       /\ v.parent[h] = q /\ v.root = tree.root
  <2>1. /\ t1.child \in [Side -> [Node -> Node \cup {Nil, NoNode}]]
        /\ v.child \in [Side -> [Node -> Node \cup {Nil, NoNode}]]
        /\ \A y \in Side, k \in Node : t1.child[y][k] = v.child[y][k]
    BY <1>8 DEF UnlinkedSets, Trees
  <2>2. t1.child = v.child
    BY <2>1
  <2> QED
    BY <1>5, <1>8, <2>2 DEF UnlinkedSets
<1>13. /\ \A y \in Side : v.child[y][n] \in M \cup {Nil}
       /\ n \in M /\ n # Nil
       /\ n # v.root => v.parent[n] \in M \ {n} /\ v.child[SideOf(v, n)][v.parent[n]] = n
                        /\ SideOf(v, n) \in Side
       /\ v.root \in M
  BY <1>5, <1>11 DEF Shaped, Separate
<1>14. /\ t1.parent[n] = v.parent[n]
       /\ n # v.root => SideOf(t1, n) = SideOf(v, n)
  BY <1>5, <1>6, <1>12 DEF SideOf
<1>15. ExchangedSets(t1, e, n, x)
  <2>1. \A y \in Side : t1.child[y][n] \in (Node \cup {Nil}) \ {x}
    BY <1>5, <1>12, <1>13
  <2>2. n # t1.root => t1.parent[n] \in Node \ {x}
    BY <1>5, <1>12, <1>13, <1>14
  <2>3. x \in Node /\ n \in Node \ {x} /\ t1 \in Trees
    BY <1>5, <1>12
  <2> QED
    BY <2>1, <2>2, <2>3, InstalledFields, Zenon DEF e
<1>16. FreedSets(e, u, n)
  BY <1>5, <1>15, FreedFields DEF u, ExchangedSets
<1>17. /\ u \in Trees /\ u.root = IF n = v.root THEN x ELSE v.root
       /\ \A y \in Side, k \in Node \ {n} :
             u.child[y][k] = IF n # v.root /\ k = v.parent[n] /\ y = SideOf(v, n) THEN x
                             ELSE IF k = x THEN v.child[y][n] ELSE v.child[y][k]
       /\ \A k \in (Node \cup {Nil}) \ {n} :
             u.parent[k] = IF k # Nil /\ (k = v.child["left"][n] \/ k = v.child["right"][n]) THEN x
                           ELSE IF k = x THEN v.parent[n] ELSE t1.parent[k]
       /\ \A k \in (Node \cup {Nil}) \ {n} :
             u.color[k] = IF k = x THEN tree.color[n] ELSE tree.color[k]
  <2> HIDE DEF p, q
  <2>1. /\ e \in Trees /\ e.root = IF n = v.root THEN x ELSE v.root
        /\ \A y \in Side, k \in Node :
              e.child[y][k] = IF n # v.root /\ k = v.parent[n] /\ y = SideOf(v, n) THEN x
                              ELSE IF k = x THEN v.child[y][n] ELSE v.child[y][k]
    BY <1>12, <1>14, <1>15 DEF ExchangedSets
  <2>2. \A k \in Node \cup {Nil} :
           e.parent[k] = IF k # Nil /\ (k = v.child["left"][n] \/ k = v.child["right"][n]) THEN x
                         ELSE IF k = x THEN v.parent[n] ELSE t1.parent[k]
    BY <1>12, <1>14, <1>15 DEF ExchangedSets
  <2>3. \A k \in Node \cup {Nil} :
           e.color[k] = IF k = x THEN tree.color[n] ELSE tree.color[k]
    BY <1>12, <1>15 DEF ExchangedSets
  <2>4. /\ u \in Trees /\ u.root = e.root
        /\ \A y \in Side, k \in Node \ {n} : u.child[y][k] = e.child[y][k]
        /\ \A k \in (Node \cup {Nil}) \ {n} : u.parent[k] = e.parent[k]
        /\ \A k \in (Node \cup {Nil}) \ {n} : u.color[k] = e.color[k]
    BY <1>16 DEF FreedSets
  <2>5. \A y \in Side, k \in Node \ {n} :
             u.child[y][k] = IF n # v.root /\ k = v.parent[n] /\ y = SideOf(v, n) THEN x
                             ELSE IF k = x THEN v.child[y][n] ELSE v.child[y][k]
    BY <2>1, <2>4
  <2>6. \A k \in (Node \cup {Nil}) \ {n} :
             u.parent[k] = IF k # Nil /\ (k = v.child["left"][n] \/ k = v.child["right"][n]) THEN x
                           ELSE IF k = x THEN v.parent[n] ELSE t1.parent[k]
    BY <2>2, <2>4
  <2>7. \A k \in (Node \cup {Nil}) \ {n} :
             u.color[k] = IF k = x THEN tree.color[n] ELSE tree.color[k]
    BY <2>3, <2>4
  <2> QED
    BY <2>1, <2>4, <2>5, <2>6, <2>7
<1>18. \A y \in Side, k \in M :
          n # v.root /\ k = v.parent[n] /\ y = SideOf(v, n) <=> v.child[y][k] = n
  BY <1>11, <1>13 DEF Shaped, Separate
<1>19. \A k \in M \ {v.root} : k = v.child["left"][n] \/ k = v.child["right"][n] <=> v.parent[k] = n
  BY <1>4, <1>11, <1>13 DEF Shaped, Separate
<1>20. Renames(v, u, M, n, x)
  <2>1. \A y \in Side, k \in M \ {n} :
          u.child[y][k] = IF v.child[y][k] = n THEN x ELSE v.child[y][k]
    BY <1>5, <1>17, <1>18
  <2>2. \A y \in Side : u.child[y][x] = v.child[y][n]
    BY <1>5, <1>13, <1>17
  <2>3. ASSUME NEW k \in M \ {n, v.root}
        PROVE  u.parent[k] = IF v.parent[k] = n THEN x ELSE v.parent[k]
    <3>1. k \in Node /\ k # Nil /\ k # x
      BY <1>5
    <3>2. u.parent[k] = IF v.parent[k] = n THEN x ELSE t1.parent[k]
      BY <1>17, <1>19, <3>1
    <3>3. v.parent[k] # n => t1.parent[k] = v.parent[k]
      BY <1>12, <3>1
    <3> QED
      BY <3>2, <3>3
  <2>4. n # v.root => u.parent[x] = v.parent[n]
    <3>1. \A y \in Side : x # v.child[y][n]
      BY <1>5, <1>13
    <3> QED
      BY <1>4, <1>5, <1>17, <3>1
  <2> QED
    BY <1>17, <2>1, <2>2, <2>3, <2>4 DEF Renames
<1>21. Fits(at2, M, n, x)
  <2>1. /\ \A m \in members : at[m] \in Int /\ KeyOf[m] \in Int
        /\ \A m \in members : at2[m] = IF at[m] > at[x] THEN at[m] - 1 ELSE at[m]
    BY <1>3, <1>5, RBTreeAssumption DEF Facts, MovedDown
  <2>2. \A m, k \in members : /\ at[m] = at[k] => m = k
                              /\ at[m] < at[k] => KeyOf[m] <= KeyOf[k]
    BY <1>5 DEF Ranked
  <2> HIDE DEF at2
  <2>3. ASSUME NEW m \in M \ {n}
        PROVE  /\ at2[m] < at2[n] => KeyOf[m] <= KeyOf[x]
               /\ at2[n] < at2[m] => KeyOf[x] <= KeyOf[m]
    <3>1. m \in members /\ m # x /\ m # n
      OBVIOUS
    <3>2. at[m] # at[x] /\ at[m] # at[n]
      BY <1>5, <2>2, <3>1
    <3>3. at2[n] = at[n] /\ at2[m] = IF at[m] > at[x] THEN at[m] - 1 ELSE at[m]
      BY <1>1, <1>5, <2>1, <3>1
    <3>4. at[m] \in Int /\ at[x] \in Int /\ at[n] \in Int
      BY <1>5, <2>1
    <3>5. at2[m] < at2[n] => at[m] < at[x]
      BY <1>1, <3>3, <3>4
    <3>6. at2[n] < at2[m] => at[x] < at[m]
      BY <1>1, <3>2, <3>3, <3>4
    <3> QED
      BY <1>5, <2>2, <3>1, <3>5, <3>6
  <2> QED
    BY <2>3 DEF Fits
<1>22. Placed(u, members \ {n})
  <2>1. Spanned(v, M, at2, end2) /\ Ranked(v, M, at2, end2)
    BY <1>10 DEF Numbered
  <2>2. x \in Node \ M /\ n \in M
    BY <1>5
  <2> HIDE DEF at2, end2, M
  <2>3. Numbered(u, (M \ {n}) \cup {x}, Renamed(at2, n, x), EndsRenamed(end2, n, x))
    BY <1>20, <1>21, <2>1, <2>2, RenameSpans, Zenon
  <2>4. (M \ {n}) \cup {x} = members \ {n}
    BY <1>5 DEF M
  <2> QED
    BY <2>3, <2>4 DEF Placed
<1>23. u.parent[h] = p
  <2>1. h # n /\ h # x /\ h \in Node \cup {Nil}
    BY <1>5, <1>6
  <2>2. CASE h # Nil /\ (h = v.child["left"][n] \/ h = v.child["right"][n])
    <3>1. h \in M \ {v.root}
      BY <1>5, <1>12, <2>2
    <3>2. v.parent[h] = n
      BY <1>19, <2>2, <3>1
    <3> QED
      BY <1>12, <1>17, <2>1, <2>2, <3>2
  <2>3. CASE ~ (h # Nil /\ (h = v.child["left"][n] \/ h = v.child["right"][n]))
    BY <1>12, <1>17, <2>1, <2>3
  <2> QED
    BY <2>2, <2>3
<1>24. Exchanges(tree, u, members, n, x, h)
  <2>1. \A k \in (members \ {n}) \cup {Nil} :
           u.color[k] = IF k = x THEN tree.color[n] ELSE tree.color[k]
    BY <1>5, <1>13, <1>17
  <2> QED
    BY <1>9, <1>12, <1>20, <1>23, <2>1, Zenon DEF Exchanges, M, p, q
<1> QED
  BY <1>1, <1>2, <1>22, <1>24 DEF x

LEMMA CutPlaced ==
    ASSUME NEW t, NEW M, Placed(t, M), NEW x \in M, NEW z \in Side, t.child[z][x] = Nil,
           NEW u, Cuts(t, u, M, x, t.child[Other(z)][x])
    PROVE  Placed(u, M \ {x})
<1>1. PICK at, end : Spanned(t, M, at, end) /\ Ranked(t, M, at, end)
  BY DEF Placed, Numbered
<1>2. Numbered(u, M \ {x}, MovedDown(at, x), EndsMovedDown(at, end, x))
  BY <1>1, CutSpans, Zenon
<1> QED
  BY <1>2, Zenon DEF Placed

\* A node with a child at most goes: below the root,
SameColors(t, u, M) == \A k \in M \cup {Nil} : u.color[k] = t.color[k]

LEMMA UnlinkedFits ==
    ASSUME Placed(tree, members), NEW n \in members, n # tree.root, GivesWay(n)
    PROVE  LET u == Freed(Unlinked(n, Heir(n)), n) IN
           /\ Cuts(tree, u, members, n, Heir(n)) /\ Placed(u, members \ {n})
           /\ SameColors(tree, u, members \ {n})
           /\ Heir(n) # n /\ u.parent[Heir(n)] = tree.parent[n]
<1> DEFINE h == Heir(n)
           v == WithParent(Replaced(tree, n, h), h, tree.parent[n])
           u == Freed(v, n)
<1>1. PICK z \in Side : tree.child[z][n] = Nil /\ h = tree.child[Other(z)][n]
  BY DEF GivesWay
<1>2. u = Freed(Unlinked(n, Heir(n)), n)
  BY Zenon DEF Unlinked, Parent
<1>3. Shaped(tree, members) /\ Other(z) \in Side
  BY PlacedShape, Sides
<1>4. /\ h \in members \cup {Nil} /\ h # n /\ tree.parent[n] \in Node
      /\ members \subseteq Node /\ Nil \notin members /\ tree \in Trees /\ n \in Node
  BY <1>1, <1>3 DEF Shaped, Separate
<1> HIDE DEF h, u
<1>5. UnlinkedSets(tree, v, n, h, tree.parent[n])
  <2>1. h \in Node \cup {Nil}
    BY <1>4
  <2> QED
    BY <1>4, <2>1, UnlinkedFields, Zenon
<1> HIDE DEF v
<1>6. FreedSets(v, u, n)
  <2>1. v \in Trees
    BY <1>5 DEF UnlinkedSets
  <2> QED
    BY <1>4, <2>1, FreedFields, Zenon DEF u
<1>7. Cuts(tree, u, members, n, h)
  <2>1. Cuts(tree, v, members, n, h)
    BY <1>1, <1>3, <1>5, UnlinkedCuts, Zenon
  <2>2. h \in Node \cup {Nil}
    BY <1>4
  <2> QED
    BY <1>4, <1>6, <2>1, <2>2, FreedCuts, Zenon
<1>8. Placed(u, members \ {n})
  BY <1>1, <1>7, CutPlaced, Zenon
<1>9. SameColors(tree, u, members \ {n}) /\ u.parent[h] = tree.parent[n]
  BY <1>4, <1>5, <1>6 DEF UnlinkedSets, FreedSets, SameColors
<1> QED
  BY <1>2, <1>4, <1>7, <1>8, <1>9 DEF h

\* and at the root.
LEMMA RootFits ==
    ASSUME Placed(tree, members), tree.root \in members, GivesWay(tree.root)
    PROVE  LET n == tree.root
               h == Heir(n)
               u == Freed(Painted([tree EXCEPT !.root = h], h, "black"), n)
           IN /\ Cuts(tree, u, members, n, h) /\ Placed(u, members \ {n})
              /\ h \in (members \ {n}) \cup {Nil}
              /\ \A k \in (members \ {n}) \cup {Nil} :
                    u.color[k] = IF k = h THEN "black" ELSE tree.color[k]
<1> DEFINE n == tree.root
           h == Heir(n)
           t1 == [tree EXCEPT !.root = h]
           t2 == Painted(t1, h, "black")
           u == Freed(t2, n)
<1>1. PICK z \in Side : tree.child[z][n] = Nil /\ h = tree.child[Other(z)][n]
  BY DEF GivesWay
<1>2. Shaped(tree, members) /\ Other(z) \in Side
  BY PlacedShape, Sides
<1>3. /\ h \in members \cup {Nil} /\ h # n
      /\ members \subseteq Node /\ Nil \notin members /\ tree \in Trees /\ n \in Node
  BY <1>1, <1>2 DEF Shaped, Separate
<1> HIDE DEF h
<1>4. /\ t1 \in Trees /\ t1.root = h /\ t1.child = tree.child
      /\ t1.parent = tree.parent /\ t1.color = tree.color
  <2>1. h \in Node \cup {Nil}
    BY <1>3
  <2> QED
    BY <1>3, <2>1, RootSet
<1> HIDE DEF t1
<1>5. ColorSets(t1, t2, h, "black")
  <2>1. h \in Node \cup {Nil} /\ "black" \in {"red", "black"}
    BY <1>3
  <2> QED
    BY <1>4, <2>1, ColorSet, Zenon
<1> HIDE DEF t2
<1>6. FreedSets(t2, u, n)
  <2>1. t2 \in Trees
    BY <1>5 DEF ColorSets
  <2> QED
    BY <1>3, <2>1, FreedFields, Zenon
<1> HIDE DEF u
<1>7. Cuts(tree, u, members, n, h)
  BY <1>3, <1>4, <1>5, <1>6 DEF ColorSets, FreedSets, Cuts
<1>8. Placed(u, members \ {n})
  <2>1. n \in members
    OBVIOUS
  <2> HIDE DEF n
  <2> QED
    BY <1>1, <1>7, <2>1, CutPlaced, Zenon
<1>9. \A k \in (members \ {n}) \cup {Nil} :
         u.color[k] = IF k = h THEN "black" ELSE tree.color[k]
  BY <1>3, <1>4, <1>5, <1>6 DEF ColorSets, FreedSets
<1> QED
  BY <1>3, <1>7, <1>8, <1>9, Zenon DEF u, t2, t1, h

(***************************************************************************)
(* Insertion puts the new node at a place of its own.                      *)
(***************************************************************************)
LEMMA InsertFits ==
    ASSUME Placed(tree, members), NEW n \in Node \ members, members # {}
    PROVE  LET p == Leaf(n)
               z == SideBelow(n, p)
               u == Painted(WithParent(WithChild(Childless(tree, n, Nil), z, p, n), n, p),
                            n, "red")
           IN /\ p \in members /\ z \in Side /\ tree.child[z][p] = Nil
              /\ AddedSets(tree, u, z, p, n) /\ Placed(u, members \cup {n})
<1> DEFINE p == Leaf(n)
           z == SideBelow(n, p)
           u == Painted(WithParent(WithChild(Childless(tree, n, Nil), z, p, n), n, p),
                        n, "red")
<1>1. PICK at, end : Spanned(tree, members, at, end) /\ Ranked(tree, members, at, end)
  BY DEF Placed, Numbered
<1>2. p \in members /\ tree.child[z][p] = Nil /\ Bounds(members, at, end, n, p)
  BY <1>1, LeafFound
<1>3. z \in Side
  BY DEF SideBelow, Side
<1>4. members \subseteq Node /\ tree \in Trees
  BY <1>1 DEF Spanned
<1> HIDE DEF p, z
<1>5. AddedSets(tree, u, z, p, n)
  <2>1. p \in Node /\ n \in Node \ {p}
    BY <1>2, <1>4
  <2> QED
    BY <1>3, <1>4, <2>1, AddedFields, Zenon
<1> HIDE DEF u
<1>6. Numbered(u, members \cup {n}, MovedUp(at, z, p, n), EndsMovedUp(at, end, z, p, n))
  <2>1. SideBelow(n, p) = z
    BY DEF z
  <2> QED
    BY <1>1, <1>2, <1>3, <1>5, <2>1, AddedSpans, Zenon
<1>7. Placed(u, members \cup {n})
  BY <1>6 DEF Placed
<1> QED
  BY <1>2, <1>3, <1>5, <1>7, Zenon DEF u, z, p

(***************************************************************************)
(* The black heights: bh[n] counts the black nodes on each way down from n, *)
(* where one is taken to be missing below hp on side hs.                    *)
(***************************************************************************)
Dark(t, m) == IF t.color[m] = "black" THEN 1 ELSE 0
Lack(hp, hs, m, y) == IF m = hp /\ y = hs THEN 1 ELSE 0
Heights == [Node \cup {Nil} -> Nat]

Leveled(t, M, bh, hp, hs) ==
    /\ bh \in Heights /\ bh[Nil] = 0 /\ t.color[Nil] = "black"
    /\ \A m \in M, y \in Side :
          bh[m] = bh[t.child[y][m]] + Lack(hp, hs, m, y) + Dark(t, m)

\* A red node with a red child is in S, or its child is in T.
Reds(t, M, S, T) ==
    \A m \in M, y \in Side :
        t.color[m] = "red" /\ t.color[t.child[y][m]] = "red" =>
            m \in S \/ t.child[y][m] \in T

HeightSets(bh, b, m, k) ==
    b \in Heights /\ \A l \in Node \cup {Nil} : b[l] = IF l = m THEN k ELSE bh[l]

LEMMA HeightSet ==
    ASSUME NEW bh \in Heights, NEW m \in Node \cup {Nil}, NEW k \in Nat
    PROVE  HeightSets(bh, [bh EXCEPT ![m] = k], m, k)
  BY DEF Heights, HeightSets

LEMMA AddedLevels ==
    ASSUME NEW t, NEW M, Shaped(t, M), NEW bh, NEW hs, Leveled(t, M, bh, Nil, hs),
           Reds(t, M, {}, {}),
           NEW z \in Side, NEW p \in M, NEW n \in Node \ M, t.child[z][p] = Nil,
           NEW u, AddedSets(t, u, z, p, n)
    PROVE  /\ Leveled(u, M \cup {n}, [bh EXCEPT ![n] = 0], Nil, hs)
           /\ Reds(u, M \cup {n}, {}, {n})
<1> DEFINE b == [bh EXCEPT ![n] = 0]
<1>1. /\ M \subseteq Node /\ Nil \notin M /\ Nil \notin Node
      /\ \A m \in M, y \in Side : t.child[y][m] \in M \cup {Nil}
  BY RBTreeAssumption DEF Shaped
<1>2. b \in Heights /\ b[n] = 0 /\ \A l \in M \cup {Nil} : b[l] = bh[l]
  <2>1. bh \in Heights
    BY DEF Leveled
  <2> QED
    BY <1>1, <2>1, HeightSet DEF HeightSets
<1>3. /\ \A y \in Side, k \in M :
            u.child[y][k] = IF k = p /\ y = z THEN n ELSE t.child[y][k]
      /\ \A y \in Side : u.child[y][n] = Nil
      /\ \A k \in M \cup {Nil} : u.color[k] = t.color[k]
      /\ u.color[n] = "red"
  BY <1>1 DEF AddedSets
<1> HIDE DEF b
<1>4. \A m \in M, y \in Side : bh[m] = bh[t.child[y][m]] + Dark(t, m)
  <2>1. \A m \in M, y \in Side : Lack(Nil, hs, m, y) = 0 /\ Dark(t, m) \in Nat
    BY <1>1 DEF Lack, Dark
  <2>2. \A m \in M, y \in Side : bh[t.child[y][m]] \in Nat
    BY <1>1 DEF Leveled, Heights
  <2> QED
    BY <2>1, <2>2 DEF Leveled
<1>5. ASSUME NEW m \in M \cup {n}, NEW y \in Side
      PROVE  b[m] = b[u.child[y][m]] + Lack(Nil, hs, m, y) + Dark(u, m)
  <2>1. Lack(Nil, hs, m, y) = 0
    BY <1>1 DEF Lack
  <2>2. CASE m = n
    BY <1>2, <1>3, <2>1, <2>2 DEF Dark, Leveled
  <2>3. CASE m \in M
    <3>1. Dark(u, m) = Dark(t, m) /\ Dark(t, m) \in Nat
      BY <1>3, <2>3 DEF Dark
    <3>2. b[u.child[y][m]] = bh[t.child[y][m]] /\ b[u.child[y][m]] \in Nat
      BY <1>1, <1>2, <1>3, <2>3 DEF Leveled, Heights
    <3> QED
      BY <1>2, <1>4, <2>1, <2>3, <3>1, <3>2
  <2> QED
    BY <2>2, <2>3
<1>6. Leveled(u, M \cup {n}, b, Nil, hs)
  BY <1>2, <1>3, <1>5 DEF Leveled
<1>7. Reds(u, M \cup {n}, {}, {n})
  BY <1>1, <1>3 DEF Reds, Leveled
<1> QED
  BY <1>6, <1>7 DEF b

\* A rotation of a black node and a red one, which exchange their colors.
Swapped(t, u, M, s, n) ==
    LET up == t.child[Other(s)][n] IN
    \A k \in M \cup {Nil} : u.color[k] = IF k = up THEN "black"
                                         ELSE IF k = n THEN "red" ELSE t.color[k]

\* Turned, but for the colors.
Moved(t, u, M, s, n) ==
    LET o      == Other(s)
        up     == t.child[o][n]
        middle == t.child[s][up]
    IN /\ o \in Side /\ o # s /\ \A z \in Side : z = s \/ z = o
       /\ up \in M \ {n} /\ middle \in (M \cup {Nil}) \ {n, up}
       /\ u.root = IF n = t.root THEN up ELSE t.root
       /\ \A z \in Side, m \in M :
             u.child[z][m] = IF m = n /\ z = o THEN middle
                             ELSE IF m = up /\ z = s THEN n
                             ELSE IF t.child[z][m] = n THEN up
                             ELSE t.child[z][m]
       /\ \A m \in M \cup {Nil} :
             u.parent[m] = IF m = n THEN up ELSE IF m = up THEN t.parent[n]
                           ELSE IF m = middle /\ m # Nil THEN n ELSE t.parent[m]
       /\ \A z \in Side, m \in M : /\ t.child[z][m] = up => m = n /\ z = o
                                   /\ t.child[z][m] = middle /\ middle # Nil => m = up /\ z = s
                                   /\ t.child[z][m] = n => m # n /\ m # up

SwapRotated(t, s, n) ==
    Rotated(Painted(Painted(t, t.child[Other(s)][n], "black"), n, "red"), s, n)

LEMMA SwapTurned ==
    ASSUME NEW t, NEW M, Placed(t, M), NEW s \in Side, NEW n \in M, t.child[Other(s)][n] \in M
    PROVE  LET u == SwapRotated(t, s, n) IN
           Moved(t, u, M, s, n) /\ Swapped(t, u, M, s, n) /\ Placed(u, M)
<1> DEFINE up == t.child[Other(s)][n]
           t1 == Painted(t, up, "black")
           t2 == Painted(t1, n, "red")
           u  == Rotated(t2, s, n)
<1>1. M \subseteq Node /\ Nil \notin M
  BY PlacedShape DEF Shaped
<1>2. Placed(t1, M) /\ ColorSets(t, t1, up, "black")
  <2>1. up \in Node \cup {Nil} /\ "black" \in {"red", "black"}
    BY <1>1
  <2> QED
    BY <2>1, PaintedPlaced, Zenon
<1> HIDE DEF t1
<1>3. Placed(t2, M) /\ ColorSets(t1, t2, n, "red")
  <2>1. n \in Node \cup {Nil} /\ "red" \in {"red", "black"}
    BY <1>1
  <2> QED
    BY <1>2, <2>1, PaintedPlaced, Zenon
<1> HIDE DEF t2
<1>4. /\ t2.root = t.root /\ t2.child = t.child /\ t2.parent = t.parent
      /\ \A k \in M \cup {Nil} : t2.color[k] = IF k = n THEN "red"
                                               ELSE IF k = up THEN "black" ELSE t.color[k]
  BY <1>1, <1>2, <1>3 DEF ColorSets
<1>5. Turned(t2, u, M, s, n) /\ Placed(u, M)
  <2>1. t2.child[Other(s)][n] \in M
    BY <1>4
  <2> QED
    BY <1>3, <2>1, RotationTurned, Zenon
<1> HIDE DEF u
<1>6. Moved(t2, u, M, s, n) /\ u.color = t2.color /\ up # n
  BY <1>4, <1>5 DEF Turned, Moved
<1>7. Moved(t, u, M, s, n)
  BY <1>4, <1>6 DEF Moved
<1>8. Swapped(t, u, M, s, n)
  BY <1>4, <1>6 DEF Swapped
<1> QED
  BY <1>5, <1>7, <1>8, Zenon DEF SwapRotated, u, t2, t1, up

SwapAllowed(t, s, n, hp, hs) ==
    LET up == t.child[Other(s)][n] IN
    t.color[n] = "black" /\ t.color[up] = "red" /\ hp # up /\ (hp = n => hs = s)

SwappedHeights(t, b, bh, M, s, n) ==
    LET up == t.child[Other(s)][n] IN
    /\ b[n] = bh[n] - 1 /\ b[up] = bh[n]
    /\ \A k \in (M \cup {Nil}) \ {n, up} : b[k] = bh[k]

LEMMA SwappedLevels ==
    ASSUME NEW t, NEW M, Shaped(t, M), NEW bh, NEW hp, NEW hs, Leveled(t, M, bh, hp, hs),
           NEW s \in Side, NEW n \in M, SwapAllowed(t, s, n, hp, hs),
           NEW u, Moved(t, u, M, s, n), Swapped(t, u, M, s, n)
    PROVE  \E b : Leveled(u, M, b, hp, hs) /\ SwappedHeights(t, b, bh, M, s, n)
<1> DEFINE o == Other(s)
           up == t.child[o][n]
           middle == t.child[s][up]
           b0 == [bh EXCEPT ![n] = bh[n] - 1]
           b == [b0 EXCEPT ![up] = bh[n]]
<1>a. t.color[n] = "black" /\ t.color[up] = "red" /\ hp # up /\ (hp = n => hs = s)
  BY DEF SwapAllowed
<1>1. /\ M \subseteq Node /\ Nil \notin M /\ n # Nil /\ up # Nil
      /\ \A m \in M, y \in Side : t.child[y][m] \in M \cup {Nil}
      /\ o \in Side /\ o # s /\ \A z \in Side : z = s \/ z = o
      /\ up \in M \ {n} /\ middle \in (M \cup {Nil}) \ {n, up}
      /\ t.child[o][n] = up
  BY DEF Shaped, Moved
<1>2. /\ \A z \in Side, m \in M :
             u.child[z][m] = IF m = n /\ z = o THEN middle
                             ELSE IF m = up /\ z = s THEN n
                             ELSE IF t.child[z][m] = n THEN up
                             ELSE t.child[z][m]
      /\ \A z \in Side, m \in M : /\ t.child[z][m] = up => m = n /\ z = o
                                  /\ t.child[z][m] = n => m # n /\ m # up
  BY DEF Moved
<1>3. \A k \in M \cup {Nil} : u.color[k] = IF k = up THEN "black"
                                           ELSE IF k = n THEN "red" ELSE t.color[k]
  BY DEF Swapped
<1>4. /\ bh \in Heights /\ \A k \in M \cup {Nil} : bh[k] \in Nat
      /\ bh[Nil] = 0 /\ t.color[Nil] = "black"
      /\ \A m \in M, y \in Side :
            bh[m] = bh[t.child[y][m]] + Lack(hp, hs, m, y) + Dark(t, m)
      /\ \A m, y : Lack(hp, hs, m, y) \in Nat /\ Dark(t, m) \in Nat /\ Dark(u, m) \in Nat
  BY <1>1 DEF Leveled, Heights, Lack, Dark
<1>5. /\ Dark(t, n) = 1 /\ Dark(t, up) = 0 /\ Dark(u, n) = 0 /\ Dark(u, up) = 1
      /\ \A k \in M \ {n, up} : Dark(u, k) = Dark(t, k)
  BY <1>1, <1>3, <1>a DEF Dark
<1>6. /\ Lack(hp, hs, n, o) = 0 /\ Lack(hp, hs, up, o) = 0 /\ Lack(hp, hs, up, s) = 0
  BY <1>1, <1>a DEF Lack
<1>7. /\ bh[n] = bh[up] + 1 /\ bh[up] = bh[middle] /\ bh[up] = bh[t.child[o][up]]
      /\ bh[n] = bh[t.child[s][n]] + Lack(hp, hs, n, s) + 1
  BY <1>1, <1>4, <1>5, <1>6
<1>8. /\ b \in Heights /\ b[n] = bh[n] - 1 /\ b[up] = bh[n]
      /\ \A k \in (M \cup {Nil}) \ {n, up} : b[k] = bh[k]
  <2>1. n \in Node \cup {Nil} /\ up \in Node \cup {Nil}
    BY <1>1
  <2>a. bh[n] \in Nat /\ bh[up] \in Nat
    BY <1>1, <1>4
  <2>b. bh[n] - 1 \in Nat
    BY <2>a, <1>7
  <2>2. HeightSets(bh, b0, n, bh[n] - 1)
    BY <1>4, <2>1, <2>b, HeightSet, Zenon
  <2> HIDE DEF b0
  <2>3. HeightSets(b0, b, up, bh[n])
    <3>1. b0 \in Heights
      BY <2>2 DEF HeightSets
    <3> QED
      BY <2>1, <2>a, <3>1, HeightSet, Zenon
  <2> HIDE DEF b
  <2> QED
    BY <1>1, <2>2, <2>3 DEF HeightSets
<1>b. SwappedHeights(t, b, bh, M, s, n)
  BY <1>8 DEF SwappedHeights
<1> HIDE DEF b, o, middle, up
<1>9. ASSUME NEW m \in M, NEW y \in Side
      PROVE  b[m] = b[u.child[y][m]] + Lack(hp, hs, m, y) + Dark(u, m)
  <2>1. CASE m = n /\ y = o
    <3>1. u.child[o][n] = middle /\ b[middle] = bh[middle] /\ bh[middle] \in Nat
      BY <1>1, <1>2, <1>4, <1>8
    <3>2. b[n] = bh[n] - 1 /\ Dark(u, n) = 0 /\ Lack(hp, hs, n, o) = 0 /\ bh[n] \in Nat
      BY <1>1, <1>4, <1>5, <1>6, <1>8
    <3>3. b[n] = bh[middle]
      BY <1>7, <3>1, <3>2
    <3>4. u.child[y][m] = middle /\ Lack(hp, hs, m, y) = 0 /\ Dark(u, m) = 0 /\ b[m] = b[n]
      BY <2>1, <3>1, <3>2
    <3> QED
      BY <3>1, <3>3, <3>4
  <2>2. CASE m = n /\ y = s
    <3>1. u.child[s][n] = t.child[s][n] /\ t.child[s][n] \in (M \cup {Nil}) \ {n, up}
      BY <1>1, <1>2
    <3>2. b[u.child[s][n]] = bh[t.child[s][n]] /\ bh[t.child[s][n]] \in Nat
      BY <1>4, <1>8, <3>1
    <3>3. b[n] = bh[n] - 1 /\ Dark(u, n) = 0 /\ Lack(hp, hs, n, s) \in Nat /\ bh[n] \in Nat
      BY <1>1, <1>4, <1>5, <1>8
    <3> QED
      BY <1>7, <2>2, <3>2, <3>3
  <2>3. CASE m = up /\ y = s
    BY <1>1, <1>2, <1>4, <1>5, <1>6, <1>7, <1>8, <2>3
  <2>4. CASE m = up /\ y = o
    <3>1. u.child[o][up] = t.child[o][up] /\ t.child[o][up] \in (M \cup {Nil}) \ {n, up}
      BY <1>1, <1>2
    <3>2. b[u.child[o][up]] = bh[t.child[o][up]] /\ bh[t.child[o][up]] \in Nat
      BY <1>4, <1>8, <3>1
    <3> QED
      BY <1>1, <1>4, <1>5, <1>6, <1>7, <1>8, <2>4, <3>2
  <2>5. CASE m \notin {n, up}
    <3>1. b[u.child[y][m]] = bh[t.child[y][m]]
      <4>1. t.child[y][m] \in M \cup {Nil} /\ t.child[y][m] # up
        BY <1>1, <1>2, <2>5
      <4>2. u.child[y][m] = IF t.child[y][m] = n THEN up ELSE t.child[y][m]
        BY <1>2, <2>5
      <4> QED
        BY <1>8, <4>1, <4>2
    <3> QED
      BY <1>4, <1>5, <1>8, <2>5, <3>1
  <2> QED
    BY <1>1, <2>1, <2>2, <2>3, <2>4, <2>5
<1>10. Leveled(u, M, b, hp, hs)
  BY <1>1, <1>3, <1>4, <1>8, <1>9 DEF Leveled
<1> QED
  BY <1>b, <1>10

\* No two red nodes meet where n has gone down.
LEMMA SwappedReds ==
    ASSUME NEW t, NEW M, Shaped(t, M), NEW s \in Side, NEW n \in M,
           NEW up, up = t.child[Other(s)][n], Reds(t, M, {up}, {}), t.color[Nil] = "black",
           t.color[t.child[s][up]] = "black", t.color[t.child[s][n]] = "black",
           NEW u, Moved(t, u, M, s, n), Swapped(t, u, M, s, n)
    PROVE  Reds(u, M, {}, {})
<1> DEFINE o == Other(s)
           middle == t.child[s][up]
<1>1. /\ \A m \in M, y \in Side : t.child[y][m] \in M \cup {Nil}
      /\ Nil \notin M /\ o \in Side /\ o # s /\ \A z \in Side : z = s \/ z = o
      /\ up \in M \ {n} /\ middle \in (M \cup {Nil}) \ {n, up}
      /\ \A z \in Side, m \in M :
            u.child[z][m] = IF m = n /\ z = o THEN middle
                            ELSE IF m = up /\ z = s THEN n
                            ELSE IF t.child[z][m] = n THEN up
                            ELSE t.child[z][m]
      /\ \A z \in Side, m \in M : /\ t.child[z][m] = up => m = n /\ z = o
                                  /\ t.child[z][m] = n => m # n /\ m # up
  BY DEF Shaped, Moved
<1>2. \A k \in M \cup {Nil} : u.color[k] = IF k = up THEN "black"
                                           ELSE IF k = n THEN "red" ELSE t.color[k]
  BY DEF Swapped
<1>3. t.color[middle] = "black"
  OBVIOUS
<1> HIDE DEF o, middle
<1>4. ASSUME NEW m \in M, NEW y \in Side, u.color[m] = "red", u.color[u.child[y][m]] = "red"
      PROVE  FALSE
  <2>1. m # up
    BY <1>2, <1>4
  <2>2. CASE m = n
    <3>1. y = o \/ (y = s /\ u.child[s][n] = t.child[s][n] /\ t.child[s][n] \in (M \cup {Nil}) \ {n, up})
      BY <1>1, <2>2
    <3> QED
      BY <1>1, <1>2, <1>3, <1>4, <2>2, <3>1
  <2>3. CASE m # n
    <3>1. t.child[y][m] # n /\ u.child[y][m] = t.child[y][m] /\ t.child[y][m] # up
      BY <1>1, <1>2, <1>4, <2>1, <2>3
    <3>2. t.color[m] = "red" /\ t.color[t.child[y][m]] = "red"
      BY <1>1, <1>2, <1>4, <2>1, <2>3, <3>1
    <3> QED
      BY <2>1, <3>2 DEF Reds
  <2> QED
    BY <2>2, <2>3
<1> QED
  BY <1>4 DEF Reds

\* Where the children are after a rotation, named in a tree with the same ones.
LEMMA TurnedPlaces ==
    ASSUME NEW v, NEW u, NEW M, NEW s, NEW n, Turned(v, u, M, s, n),
           NEW t, v.root = t.root, v.child = t.child,
           NEW o, o = Other(s), NEW up, up = t.child[o][n],
           NEW middle, middle = t.child[s][up]
    PROVE  /\ u.root = IF n = t.root THEN up ELSE t.root
           /\ \A z \in Side, m \in M :
                 u.child[z][m] = IF m = n /\ z = o THEN middle
                                 ELSE IF m = up /\ z = s THEN n
                                 ELSE IF t.child[z][m] = n THEN up
                                 ELSE t.child[z][m]
           /\ \A z \in Side, m \in M :
                 /\ t.child[z][m] = up => m = n /\ z = o
                 /\ t.child[z][m] = middle /\ middle # Nil => m = up /\ z = s
                 /\ t.child[z][m] = n => m # n /\ m # up
<1>1. up = v.child[o][n] /\ middle = v.child[s][up] /\ Other(s) = o
  OBVIOUS
<1>2. u.root = IF n = t.root THEN up ELSE t.root
  BY <1>1 DEF Turned
<1>3. ASSUME NEW z \in Side, NEW m \in M
      PROVE  u.child[z][m] = IF m = n /\ z = o THEN middle
                             ELSE IF m = up /\ z = s THEN n
                             ELSE IF t.child[z][m] = n THEN up
                             ELSE t.child[z][m]
  BY <1>1 DEF Turned
<1>4. ASSUME NEW z \in Side, NEW m \in M
      PROVE  /\ t.child[z][m] = up => m = n /\ z = o
             /\ t.child[z][m] = middle /\ middle # Nil => m = up /\ z = s
             /\ t.child[z][m] = n => m # n /\ m # up
  BY <1>1 DEF Turned
<1> QED
  BY <1>2, <1>3, <1>4

(***************************************************************************)
(* A rotation of two red nodes.                                            *)
(***************************************************************************)
LEMMA TurnedColors ==
    ASSUME NEW t, NEW M, Shaped(t, M), NEW bh, NEW hs, Leveled(t, M, bh, Nil, hs),
           NEW s \in Side, NEW n \in M, NEW up, up = t.child[Other(s)][n],
           t.color[n] = "red", t.color[up] = "red", Reds(t, M, {}, {up}),
           NEW u, Turned(t, u, M, s, n)
    PROVE  Leveled(u, M, bh, Nil, hs) /\ Reds(u, M, {up}, {})
<1> DEFINE o == Other(s)
           middle == t.child[s][up]
<1>1. /\ \A m \in M, y \in Side : t.child[y][m] \in M \cup {Nil}
      /\ M \subseteq Node
      /\ Nil \notin M /\ o \in Side /\ o # s /\ \A z \in Side : z = s \/ z = o
      /\ up \in M \ {n} /\ middle \in (M \cup {Nil}) \ {n, up}
      /\ \A z \in Side, m \in M :
            u.child[z][m] = IF m = n /\ z = o THEN middle
                            ELSE IF m = up /\ z = s THEN n
                            ELSE IF t.child[z][m] = n THEN up
                            ELSE t.child[z][m]
      /\ \A z \in Side, m \in M : /\ t.child[z][m] = up => m = n /\ z = o
                                  /\ t.child[z][m] = n => m # n /\ m # up
      /\ u.color = t.color /\ t.child[o][n] = up
  BY DEF Shaped, Turned
<1>2. /\ bh \in Heights /\ \A k \in M \cup {Nil} : bh[k] \in Nat
      /\ bh[Nil] = 0 /\ t.color[Nil] = "black"
      /\ \A m \in M, y \in Side :
            bh[m] = bh[t.child[y][m]] + Lack(Nil, hs, m, y) + Dark(t, m)
      /\ \A m, y : Lack(Nil, hs, m, y) \in Nat /\ Dark(t, m) \in Nat /\ Dark(u, m) = Dark(t, m)
      /\ \A m \in M : \A y : Lack(Nil, hs, m, y) = 0
  BY <1>1 DEF Leveled, Heights, Lack, Dark
<1>3. Dark(t, n) = 0 /\ Dark(t, up) = 0
  BY DEF Dark
<1> HIDE DEF o
<1>4. bh[n] = bh[up] /\ bh[up] = bh[middle]
  <2>1. bh[n] = bh[up] + Lack(Nil, hs, n, o) + Dark(t, n)
    BY <1>1, <1>2
  <2>2. bh[up] = bh[middle] + Lack(Nil, hs, up, s) + Dark(t, up)
    BY <1>1, <1>2
  <2>3. Lack(Nil, hs, n, o) = 0 /\ Lack(Nil, hs, up, s) = 0
    BY <1>1, <1>2
  <2>4. bh[up] \in Nat /\ bh[middle] \in Nat
    BY <1>1, <1>2
  <2> HIDE DEF middle
  <2> QED
    BY <1>3, <2>1, <2>2, <2>3, <2>4
<1> HIDE DEF middle
<1>5. ASSUME NEW m \in M, NEW y \in Side
      PROVE  bh[m] = bh[u.child[y][m]] + Lack(Nil, hs, m, y) + Dark(u, m)
  <2>1. bh[u.child[y][m]] = bh[t.child[y][m]]
    <3>1. CASE m = n /\ y = o
      BY <1>1, <1>4, <3>1
    <3>2. CASE m = up /\ y = s
      BY <1>1, <1>4, <3>2 DEF middle
    <3>3. CASE ~ (m = n /\ y = o) /\ ~ (m = up /\ y = s)
      BY <1>1, <1>4, <3>3
    <3> QED
      BY <3>1, <3>2, <3>3
  <2> QED
    BY <1>2, <2>1
<1>6. Leveled(u, M, bh, Nil, hs)
  BY <1>1, <1>2, <1>5 DEF Leveled
<1>7. ASSUME NEW m \in M, NEW y \in Side, m # up,
             t.color[m] = "red", t.color[u.child[y][m]] = "red"
      PROVE  FALSE
  <2>1. t.color[middle] = "black"
    BY <1>1, <1>2 DEF middle, Reds, Trees, Shaped
  <2>2. t.child[y][m] # n
    BY <1>1, <1>7 DEF Reds
  <2>3. ~ (m = n /\ y = o)
    BY <1>1, <1>7, <2>1
  <2>4. u.child[y][m] = t.child[y][m] /\ t.child[y][m] # up
    BY <1>1, <1>7, <2>2, <2>3
  <2> QED
    BY <1>7, <2>4 DEF Reds
<1> QED
  BY <1>1, <1>6, <1>7 DEF Reds

(***************************************************************************)
(* The inductive invariant: the tree is a search tree of the members, black *)
(* heights exist, and only cur and its place may break the rules.           *)
(***************************************************************************)
HangsBelow(t, M, l, c, hp, hs) ==
    IF l = "delete" /\ c # t.root
    THEN hp \in M /\ hs \in Side /\ t.child[hs][hp] = c /\ t.parent[c] = hp
    ELSE hp = Nil

RedsOf(t, M, l, c) == Reds(t, M, IF l = "delete" THEN {c} ELSE {},
                                 IF l = "idle" THEN {} ELSE {c})

RootColored(t, l, c) == t.color[t.root] = "red" => l = "insert" /\ c = t.root

TreeInv(t, M, l, c) ==
    /\ Placed(t, M) /\ l \in {"idle", "insert", "delete"} /\ c \in Node \cup {Nil}
    /\ RootColored(t, l, c)
    /\ l = "insert" => c \in M /\ t.color[c] = "red"
    /\ RedsOf(t, M, l, c)
    /\ \E bh, hp, hs : Leveled(t, M, bh, hp, hs) /\ HangsBelow(t, M, l, c, hp, hs)

IInv == TreeInv(tree, members, loop, cur)

\* A round of scraft_rbt_insert: a red parent p, and its parent g.
Grandparent(t, M, c, s, p, g) ==
    /\ c \in M /\ p \in M \ {c} /\ g \in M \ {c, p} /\ s \in Side /\ Other(s) \in Side
    /\ t.child[s][g] = p /\ \E z \in Side : t.child[z][p] = c
    /\ t.parent[c] = p /\ t.parent[p] = g
    /\ t.color[c] = "red" /\ t.color[p] = "red" /\ t.color[g] = "black"
    /\ t.color[t.root] = "black" /\ t.color[Nil] = "black"

LEMMA InsertRound ==
    ASSUME IInv, loop = "insert", InsertFixes
    PROVE  Grandparent(tree, members, cur, SideOf(tree, Parent(cur)),
                       Parent(cur), Parent(Parent(cur)))
<1> DEFINE p == Parent(cur)
           g == Parent(p)
           s == SideOf(tree, p)
<1>1. /\ Shaped(tree, members) /\ cur \in members /\ tree.color[cur] = "red"
      /\ Reds(tree, members, {}, {cur}) /\ tree.color[Nil] = "black"
      /\ tree.color[tree.root] \in {"red", "black"}
      /\ tree.color[tree.root] = "red" => cur = tree.root
  <2>1. RedsOf(tree, members, loop, cur) /\ RootColored(tree, loop, cur)
    BY DEF IInv, TreeInv
  <2>2. Placed(tree, members) /\ tree.color[Nil] = "black"
    BY DEF IInv, TreeInv, Leveled
  <2>3. Shaped(tree, members)
    BY <2>2, PlacedShape
  <2>4. tree \in Trees
    BY <2>3 DEF Shaped
  <2> QED
    BY <2>1, <2>2, <2>3, <2>4 DEF IInv, TreeInv, RedsOf, RootColored, Trees
<1>2. cur # tree.root /\ tree.color[p] = "red"
  BY DEF InsertFixes
<1>3. /\ p \in members \ {cur} /\ SideOf(tree, cur) \in Side
      /\ tree.child[SideOf(tree, cur)][p] = cur
  BY <1>1, <1>2 DEF Shaped, Separate, Parent
<1>4. p # tree.root /\ tree.color[tree.root] = "black"
  BY <1>1, <1>2
<1>5. g \in members \ {p} /\ s \in Side /\ tree.child[s][g] = p
  BY <1>1, <1>3, <1>4 DEF Shaped, Separate, Parent
<1>6. g # cur
  BY <1>1, <1>3, <1>5 DEF Shaped, Separate
<1>7. tree.color[g] = "black"
  <2>1. tree.color[g] # "red"
    BY <1>1, <1>2, <1>3, <1>5 DEF Reds
  <2> QED
    BY <1>1, <1>5, <2>1 DEF Shaped, Trees
<1>8. Other(s) \in Side
  BY <1>5, Sides
<1>9. tree.parent[cur] = p /\ tree.parent[p] = g
  BY DEF Parent
<1> HIDE DEF p, g, s
<1>10. Grandparent(tree, members, cur, s, p, g)
  BY <1>1, <1>2, <1>3, <1>4, <1>5, <1>6, <1>7, <1>8, <1>9 DEF Grandparent
<1> QED
  BY <1>10 DEF p, g, s

\* What an insertion has besides its round.
LEMMA InsertFacts ==
    ASSUME IInv, loop = "insert"
    PROVE  /\ Placed(tree, members) /\ Shaped(tree, members) /\ Reds(tree, members, {}, {cur})
           /\ \E bh, hs : Leveled(tree, members, bh, Nil, hs)
<1>1. PICK bh, hp, hs : /\ Leveled(tree, members, bh, hp, hs)
                        /\ HangsBelow(tree, members, loop, cur, hp, hs)
  BY DEF IInv, TreeInv
<1>2. hp = Nil
  BY <1>1 DEF HangsBelow
<1>3. Placed(tree, members) /\ RedsOf(tree, members, loop, cur)
  BY DEF IInv, TreeInv
<1>4. Shaped(tree, members)
  BY <1>3, PlacedShape
<1> QED
  BY <1>1, <1>2, <1>3, <1>4 DEF RedsOf

LEMMA RecolorKeeps ==
    ASSUME IInv, loop = "insert", NEW s, NEW p, NEW g,
           Grandparent(tree, members, cur, s, p, g), Recolor(s, p, g)
    PROVE  TreeInv(tree', members, loop, cur')
<1> DEFINE uncle == tree.child[Other(s)][g]
           t1 == Painted(tree, p, "black")
           t2 == Painted(t1, uncle, "black")
           t3 == Painted(t2, g, "red")
<1>1. /\ Placed(tree, members) /\ Shaped(tree, members) /\ Reds(tree, members, {}, {cur})
      /\ \E bh, hs : Leveled(tree, members, bh, Nil, hs)
  BY InsertFacts
<1>2. PICK bh, hs : Leveled(tree, members, bh, Nil, hs)
  BY <1>1
<1>3. /\ members \subseteq Node /\ Nil \notin members
      /\ \A m \in members, y \in Side : tree.child[y][m] \in members \cup {Nil}
      /\ cur \in members /\ p \in members \ {cur} /\ g \in members \ {cur, p} /\ s \in Side
      /\ Other(s) \in Side /\ tree.child[s][g] = p
      /\ \A y \in Side : y = s \/ y = Other(s)
      /\ tree.color[cur] = "red" /\ tree.color[p] = "red" /\ tree.color[g] = "black"
      /\ tree.color[tree.root] = "black" /\ tree.color[Nil] = "black"
      /\ \E z \in Side : tree.child[z][p] = cur
  BY <1>1, Sides DEF Shaped, Grandparent
<1>4. /\ uncle \in members \ {g, p} /\ tree.color[uncle] = "red"
  BY <1>1, <1>3, Sides DEF Recolor, Shaped, Separate
<1>5. tree' = t3 /\ cur' = g
  BY DEF Recolor
<1> HIDE DEF uncle
<1>6. Placed(t1, members) /\ ColorSets(tree, t1, p, "black")
  <2>1. p \in Node \cup {Nil} /\ "black" \in {"red", "black"}
    BY <1>3
  <2> QED
    BY <1>1, <2>1, PaintedPlaced, Zenon
<1> HIDE DEF t1
<1>7. Placed(t2, members) /\ ColorSets(t1, t2, uncle, "black")
  <2>1. uncle \in Node \cup {Nil} /\ "black" \in {"red", "black"}
    BY <1>3, <1>4
  <2> QED
    BY <1>6, <2>1, PaintedPlaced, Zenon
<1> HIDE DEF t2
<1>8. Placed(t3, members) /\ ColorSets(t2, t3, g, "red")
  <2>1. g \in Node \cup {Nil} /\ "red" \in {"red", "black"}
    BY <1>3
  <2> QED
    BY <1>7, <2>1, PaintedPlaced, Zenon
<1> HIDE DEF t3
<1>9. /\ t3.root = tree.root /\ t3.child = tree.child
      /\ \A k \in members \cup {Nil} :
            t3.color[k] = IF k = g THEN "red"
                          ELSE IF k = uncle \/ k = p THEN "black" ELSE tree.color[k]
  BY <1>3, <1>6, <1>7, <1>8 DEF ColorSets
<1> DEFINE b0 == [bh EXCEPT ![p] = bh[p] + 1]
           b == [b0 EXCEPT ![uncle] = bh[uncle] + 1]
<1>10. /\ \A k \in members \cup {Nil} : bh[k] \in Nat
       /\ bh[Nil] = 0 /\ bh \in Heights
       /\ \A m \in members, y \in Side :
             bh[m] = bh[tree.child[y][m]] + Dark(tree, m)
       /\ \A m \in members : \A y : Lack(Nil, hs, m, y) = 0
       /\ \A m : Dark(tree, m) \in Nat
  <2>1. bh \in Heights /\ \A k \in members \cup {Nil} : bh[k] \in Nat
    BY <1>2, <1>3 DEF Leveled, Heights
  <2>2. \A m \in members : \A y : Lack(Nil, hs, m, y) = 0 /\ Dark(tree, m) \in Nat
    BY <1>3 DEF Lack, Dark
  <2>3. \A m \in members, y \in Side :
           bh[m] = bh[tree.child[y][m]] + Lack(Nil, hs, m, y) + Dark(tree, m)
    BY <1>2 DEF Leveled
  <2>4. \A m \in members, y \in Side : bh[tree.child[y][m]] \in Nat
    BY <1>3, <2>1
  <2>5. \A m \in members, y \in Side : bh[m] = bh[tree.child[y][m]] + Dark(tree, m)
    BY <2>2, <2>3, <2>4
  <2> QED
    BY <1>2, <2>1, <2>2, <2>5 DEF Leveled, Dark
<1>11. /\ b \in Heights /\ b[p] = bh[p] + 1 /\ b[uncle] = bh[uncle] + 1
       /\ \A k \in (members \cup {Nil}) \ {p, uncle} : b[k] = bh[k]
  <2>1. /\ p \in Node \cup {Nil} /\ uncle \in Node \cup {Nil}
        /\ bh[p] + 1 \in Nat /\ bh[uncle] + 1 \in Nat
    BY <1>3, <1>4, <1>10
  <2>2. HeightSets(bh, b0, p, bh[p] + 1)
    BY <1>10, <2>1, HeightSet, Zenon
  <2> HIDE DEF b0
  <2>3. HeightSets(b0, b, uncle, bh[uncle] + 1)
    <3>1. b0 \in Heights
      BY <2>2 DEF HeightSets
    <3> QED
      BY <2>1, <3>1, HeightSet, Zenon
  <2> HIDE DEF b
  <2> QED
    BY <1>3, <1>4, <2>2, <2>3 DEF HeightSets
<1> HIDE DEF b
<1>12. ASSUME NEW m \in members, NEW y \in Side
       PROVE  b[m] = b[tree.child[y][m]] + Lack(Nil, hs, m, y) + Dark(t3, m)
  <2> DEFINE c == tree.child[y][m]
  <2>1. bh[m] = bh[c] + Dark(tree, m) /\ Lack(Nil, hs, m, y) = 0 /\ c \in members \cup {Nil}
        /\ bh[m] \in Nat /\ bh[c] \in Nat
    BY <1>3, <1>10
  <2>2. CASE m = g
    <3>1. c = p \/ c = uncle
      BY <1>3, <2>2 DEF uncle
    <3>2. b[c] = bh[c] + 1
      BY <1>11, <3>1
    <3>3. b[m] = bh[m] /\ Dark(tree, m) = 1 /\ Dark(t3, m) = 0
      BY <1>3, <1>4, <1>9, <1>11, <2>2 DEF Dark
    <3> HIDE DEF c
    <3> QED
      BY <2>1, <3>2, <3>3 DEF c
  <2>3. CASE m # g
    <3>1. c # p /\ c # uncle
      BY <1>1, <1>3, <1>4, <2>3 DEF uncle, Shaped, Separate
    <3>2. b[c] = bh[c]
      BY <1>11, <2>1, <3>1
    <3>3. CASE m = p \/ m = uncle
      <4>1. b[m] = bh[m] + 1 /\ Dark(tree, m) = 0 /\ Dark(t3, m) = 1
        BY <1>3, <1>4, <1>9, <1>11, <2>3, <3>3 DEF Dark
      <4> HIDE DEF c
      <4> QED
        BY <2>1, <3>2, <4>1 DEF c
    <3>4. CASE m # p /\ m # uncle
      <4>1. b[m] = bh[m] /\ Dark(t3, m) = Dark(tree, m)
        BY <1>9, <1>11, <2>3, <3>4 DEF Dark
      <4>2. Dark(tree, m) \in Nat
        BY DEF Dark
      <4> HIDE DEF c
      <4> QED
        BY <2>1, <3>2, <4>1, <4>2 DEF c
    <3> QED
      BY <3>3, <3>4
  <2> QED
    BY <2>2, <2>3
<1>13. Leveled(t3, members, b, Nil, hs)
  BY <1>3, <1>4, <1>9, <1>10, <1>11, <1>12 DEF Leveled
<1>14. Reds(t3, members, {}, {g})
  <2>1. ASSUME NEW m \in members, NEW y \in Side,
               t3.color[m] = "red", t3.color[tree.child[y][m]] = "red", tree.child[y][m] # g
        PROVE  FALSE
    <3>1. m # p /\ m # uncle /\ tree.child[y][m] # p /\ tree.child[y][m] # uncle
      BY <1>3, <1>9, <2>1, <1>4
    <3>2. m # g
      BY <1>3, <3>1 DEF uncle
    <3>3. tree.color[m] = "red" /\ tree.color[tree.child[y][m]] = "red"
      BY <1>3, <1>9, <2>1, <3>1, <3>2
    <3>4. tree.child[y][m] = cur
      BY <1>1, <3>3 DEF Reds
    <3> QED
      BY <1>1, <1>3, <3>1, <3>4 DEF Shaped, Separate
  <2> QED
    BY <1>9, <2>1 DEF Reds
<1>15. /\ RootColored(t3, "insert", g) /\ t3.color[g] = "red"
       /\ RedsOf(t3, members, "insert", g) /\ HangsBelow(t3, members, "insert", g, Nil, hs)
  <2>1. tree.root \in members
    BY <1>1, <1>3 DEF Shaped
  <2> QED
    BY <1>3, <1>9, <1>14, <2>1 DEF RootColored, RedsOf, HangsBelow
<1>16. TreeInv(t3, members, "insert", g)
  <2>1. \E bhx, hp, hsx : /\ Leveled(t3, members, bhx, hp, hsx)
                          /\ HangsBelow(t3, members, "insert", g, hp, hsx)
    BY <1>13, <1>15
  <2>2. g \in members /\ g \in Node \cup {Nil}
    BY <1>3
  <2> QED
    BY <1>8, <1>15, <2>1, <2>2 DEF TreeInv
<1> QED
  BY <1>5, <1>16

\* Before the last rotation of a round: low and mid are red, on the outer side.
Outer(t, M, s, low, mid, g) ==
    /\ Placed(t, M) /\ \E bh, hs : Leveled(t, M, bh, Nil, hs)
    /\ low \in M \ {mid, g} /\ mid \in M /\ g \in M /\ mid # g
    /\ t.child[s][g] = mid /\ t.child[s][mid] = low
    /\ t.color[low] = "red" /\ t.color[mid] = "red" /\ t.color[g] = "black"
    /\ t.color[t.child[Other(s)][g]] = "black" /\ t.color[t.child[Other(s)][mid]] = "black"
    /\ t.color[t.root] = "black" /\ t.color[Nil] = "black"
    /\ Reds(t, M, {mid}, {})

\* And after it the parent is black.
Repaired(t, M, low) == TreeInv(t, M, "insert", low) /\ t.color[t.parent[low]] = "black"

LEMMA OuterTurned ==
    ASSUME NEW t, NEW M, NEW s \in Side, NEW low, NEW mid, NEW g, Outer(t, M, s, low, mid, g)
    PROVE  Repaired(Rotated(Painted(Painted(t, mid, "black"), g, "red"), Other(s), g), M, low)
<1> DEFINE o == Other(s)
           u == SwapRotated(t, o, g)
<1>1. o \in Side /\ Other(o) = s /\ o # s
  BY Sides
<1>2. /\ Placed(t, M) /\ Shaped(t, M)
      /\ low \in M \ {mid, g} /\ mid \in M /\ g \in M /\ mid # g
      /\ t.child[s][g] = mid /\ t.child[s][mid] = low
      /\ t.color[low] = "red" /\ t.color[mid] = "red" /\ t.color[g] = "black"
      /\ t.color[t.child[o][g]] = "black" /\ t.color[t.child[o][mid]] = "black"
      /\ t.color[t.root] = "black" /\ t.color[Nil] = "black"
      /\ Reds(t, M, {mid}, {})
  BY PlacedShape DEF Outer
<1>3. M \subseteq Node /\ Nil \notin M
  BY <1>2 DEF Shaped
<1>4. PICK bh, hs : Leveled(t, M, bh, Nil, hs)
  BY DEF Outer
<1>5. u = Rotated(Painted(Painted(t, mid, "black"), g, "red"), Other(s), g)
  BY <1>1, <1>2 DEF SwapRotated
<1> HIDE DEF o, u
<1>6. mid = t.child[Other(o)][g]
  BY <1>1, <1>2
<1>7. Moved(t, u, M, o, g) /\ Swapped(t, u, M, o, g) /\ Placed(u, M)
  <2>1. t.child[Other(o)][g] \in M
    BY <1>2, <1>6
  <2> QED
    BY <1>1, <1>2, <2>1, SwapTurned, Zenon DEF u
<1>8. PICK b : Leveled(u, M, b, Nil, hs)
  <2>1. SwapAllowed(t, o, g, Nil, hs)
    BY <1>2, <1>3, <1>6 DEF SwapAllowed
  <2> QED
    BY <1>1, <1>2, <1>4, <1>7, <2>1, SwappedLevels, Zenon
<1>9. Reds(u, M, {}, {})
  BY <1>1, <1>2, <1>6, <1>7, SwappedReds, Zenon
<1>10. \A k \in M \cup {Nil} : u.color[k] = IF k = mid THEN "black"
                                            ELSE IF k = g THEN "red" ELSE t.color[k]
  BY <1>6, <1>7 DEF Swapped
<1>11. u.root = IF g = t.root THEN mid ELSE t.root
  BY <1>6, <1>7 DEF Moved
<1>12. t.root \in M
  BY <1>2 DEF Shaped
<1>13. /\ RootColored(u, "insert", low) /\ u.color[low] = "red"
       /\ RedsOf(u, M, "insert", low) /\ HangsBelow(u, M, "insert", low, Nil, hs)
  BY <1>2, <1>9, <1>10, <1>11, <1>12 DEF RootColored, RedsOf, HangsBelow, Reds
<1>14. TreeInv(u, M, "insert", low)
  <2>1. \E bhx, hp, hsx : /\ Leveled(u, M, bhx, hp, hsx)
                          /\ HangsBelow(u, M, "insert", low, hp, hsx)
    BY <1>8, <1>13
  <2>2. low \in M /\ low \in Node \cup {Nil}
    BY <1>2, <1>3
  <2> QED
    BY <1>7, <1>13, <2>1, <2>2 DEF TreeInv
<1>15. u.parent[low] = mid
  <2>1. u.parent[low] = IF low = t.child[o][mid] /\ low # Nil THEN g ELSE t.parent[low]
    BY <1>2, <1>6, <1>7 DEF Moved
  <2>2. low # t.child[o][mid] /\ t.parent[low] = mid
    BY <1>1, <1>2, <1>3 DEF Shaped, Separate
  <2> QED
    BY <2>1, <2>2
<1>16. u.color[mid] = "black"
  BY <1>2, <1>10
<1> QED
  BY <1>5, <1>14, <1>15, <1>16 DEF Repaired

LEMMA RotateKeeps ==
    ASSUME IInv, loop = "insert", NEW s, NEW p, NEW g,
           Grandparent(tree, members, cur, s, p, g), Rotate(s, p, g)
    PROVE  Repaired(tree', members, cur')
<1> DEFINE o == Other(s)
           inner == cur = tree.child[o][p]
           t == IF inner THEN Rotated(tree, s, p) ELSE tree
           low == IF inner THEN p ELSE cur
           mid == t.parent[low]
<1>1. /\ tree' = Rotated(Painted(Painted(t, mid, "black"), g, "red"), o, g)
      /\ cur' = low /\ tree.color[tree.child[o][g]] = "black"
  BY Zenon DEF Rotate
<1>2. /\ Placed(tree, members) /\ Shaped(tree, members) /\ Reds(tree, members, {}, {cur})
      /\ \E bh, hs : Leveled(tree, members, bh, Nil, hs)
  BY InsertFacts
<1>3. /\ members \subseteq Node /\ Nil \notin members
      /\ \A m \in members, y \in Side : tree.child[y][m] \in members \cup {Nil}
      /\ cur \in members /\ p \in members \ {cur} /\ g \in members \ {cur, p} /\ s \in Side
      /\ o \in Side /\ o # s /\ tree.child[s][g] = p
      /\ \A y \in Side : y = s \/ y = o
      /\ tree.color[cur] = "red" /\ tree.color[p] = "red" /\ tree.color[g] = "black"
      /\ tree.color[tree.root] = "black" /\ tree.color[Nil] = "black"
      /\ \E z \in Side : tree.child[z][p] = cur
      /\ tree.parent[cur] = p
      /\ tree \in Trees
  BY <1>2, Sides DEF Shaped, Grandparent
<1>4. \A m \in members, y \in Side :
         /\ tree.child[y][m] = cur => m = p
         /\ tree.child[y][m] = p => m = g /\ y = s
  BY <1>2, <1>3 DEF Shaped, Separate
<1>5. \A m \in members, y \in Side :
         tree.color[m] = "red" /\ tree.child[y][m] # cur => tree.color[tree.child[y][m]] = "black"
  BY <1>2, <1>3 DEF Reds, Trees
<1>6. CASE ~ inner
  <2>1. t = tree /\ low = cur /\ mid = p
    BY <1>3, <1>6
  <2>2. tree.child[s][p] = cur
    BY <1>3, <1>6
  <2>3. tree.color[tree.child[o][p]] = "black"
    BY <1>3, <1>5, <1>6
  <2>4. Reds(tree, members, {p}, {})
    BY <1>2, <1>4 DEF Reds
  <2>5. Outer(tree, members, s, cur, p, g)
    BY <1>1, <1>2, <1>3, <2>2, <2>3, <2>4 DEF Outer
  <2>6. Repaired(tree', members, cur')
    <3>1. Repaired(Rotated(Painted(Painted(tree, p, "black"), g, "red"), Other(s), g),
                   members, cur)
      BY <1>3, <2>5, OuterTurned, Zenon
    <3> QED
      BY <1>1, <2>1, <3>1, Zenon
  <2> QED
    BY <2>6
<1>7. CASE inner
  <2> DEFINE r == Rotated(tree, s, p)
  <2>1. t = r /\ low = p
    BY <1>7
  <2>2. cur = tree.child[Other(s)][p]
    BY <1>7
  <2>3. Turned(tree, r, members, s, p) /\ Placed(r, members)
    <3>1. tree.child[Other(s)][p] \in members /\ p \in members
      BY <1>3, <2>2
    <3> QED
      BY <1>2, <1>3, <3>1, RotationTurned, Zenon
  <2> HIDE DEF r
  <2>4. PICK bh, hs : Leveled(tree, members, bh, Nil, hs)
    BY <1>2
  <2>5. Leveled(r, members, bh, Nil, hs) /\ Reds(r, members, {cur}, {})
    <3>1. p \in members
      BY <1>3
    <3> QED
      BY <1>2, <1>3, <2>2, <2>3, <2>4, <3>1, TurnedColors, Zenon
  <2>6. /\ r.color = tree.color /\ r.root = IF p = tree.root THEN cur ELSE tree.root
        /\ \A z \in Side, m \in members :
              r.child[z][m] = IF m = p /\ z = o THEN tree.child[s][cur]
                              ELSE IF m = cur /\ z = s THEN p
                              ELSE IF tree.child[z][m] = p THEN cur
                              ELSE tree.child[z][m]
        /\ r.parent[p] = cur
    <3>1. p \in members \cup {Nil}
      BY <1>3
    <3> QED
      BY <2>2, <2>3, <3>1 DEF Turned
  <2>7. mid = cur
    BY <2>1, <2>6
  <2>8. /\ r.child[s][g] = cur /\ r.child[s][cur] = p
        /\ r.child[o][cur] = tree.child[o][cur] /\ r.child[o][g] = tree.child[o][g]
    BY <1>3, <1>4, <2>6
  <2>9. tree.child[o][cur] # cur
    BY <1>2, <1>3 DEF Shaped, Separate
  <2>10. tree.color[tree.child[o][cur]] = "black"
    BY <1>3, <1>5, <2>9
  <2>11. r.root = tree.root
    BY <1>3, <2>6
  <2>12. Outer(r, members, s, p, cur, g)
    BY <1>1, <1>3, <2>3, <2>5, <2>6, <2>8, <2>10, <2>11 DEF Outer
  <2>13. Repaired(tree', members, cur')
    <3>1. Repaired(Rotated(Painted(Painted(r, cur, "black"), g, "red"), Other(s), g),
                   members, p)
      BY <1>3, <2>12, OuterTurned, Zenon
    <3> QED
      BY <1>1, <2>1, <2>7, <3>1, Zenon
  <2> QED
    BY <2>13
<1> QED
  BY <1>6, <1>7

(***************************************************************************)
(* The end of a repair: c becomes black.                                   *)
(***************************************************************************)
Fills(t, M, c, hp, hs) ==
    IF t.color[c] = "red" THEN \A k \in M, y \in Side : t.child[y][k] = c <=> k = hp /\ y = hs
    ELSE hp = Nil

Blackened(t, u, M, c) ==
    /\ u.child = t.child
    /\ \A k \in M \cup {Nil} : u.color[k] = IF k = c THEN "black" ELSE t.color[k]

\* A red node that becomes black counts one more, and fills the hole above it.
LEMMA BlackenedLevels ==
    ASSUME NEW t, NEW M, Shaped(t, M), NEW bh, NEW hp, NEW hs, Leveled(t, M, bh, hp, hs),
           NEW c \in M \cup {Nil}, Fills(t, M, c, hp, hs),
           NEW u, Blackened(t, u, M, c)
    PROVE  \E b : Leveled(u, M, b, Nil, hs)
<1>0. /\ u.child = t.child
      /\ \A k \in M \cup {Nil} : u.color[k] = IF k = c THEN "black" ELSE t.color[k]
  BY DEF Blackened
<1>1. /\ M \subseteq Node /\ Nil \notin M /\ t \in Trees
      /\ \A m \in M, y \in Side : t.child[y][m] \in M \cup {Nil}
      /\ \A m \in M, y \in Side : t.child[y][m] # m
  BY DEF Shaped, Separate
<1>2. /\ bh \in Heights /\ \A k \in M \cup {Nil} : bh[k] \in Nat
      /\ bh[Nil] = 0 /\ t.color[Nil] = "black"
      /\ \A m \in M, y \in Side :
            bh[m] = bh[t.child[y][m]] + Lack(hp, hs, m, y) + Dark(t, m)
      /\ \A m \in M : \A y : Lack(Nil, hs, m, y) = 0
      /\ \A m : Dark(t, m) \in Nat
  BY <1>1 DEF Leveled, Heights, Lack, Dark
<1>3. CASE t.color[c] = "black"
  <2>1. hp = Nil /\ \A m \in M : Dark(u, m) = Dark(t, m)
    BY <1>0, <1>3 DEF Fills, Dark
  <2>2. u.color[Nil] = "black"
    BY <1>0, <1>2
  <2> QED
    BY <1>0, <1>2, <2>1, <2>2 DEF Leveled
<1>4. CASE t.color[c] = "red"
  <2> DEFINE b == [bh EXCEPT ![c] = bh[c] + 1]
  <2>1. c \in M /\ \A k \in M, y \in Side : t.child[y][k] = c <=> k = hp /\ y = hs
    BY <1>2, <1>4 DEF Fills
  <2>2. HeightSets(bh, b, c, bh[c] + 1)
    <3>1. c \in Node \cup {Nil} /\ bh[c] + 1 \in Nat
      BY <1>1, <1>2, <2>1
    <3> QED
      BY <1>2, <3>1, HeightSet, Zenon
  <2> HIDE DEF b
  <2>3. /\ b \in Heights /\ b[c] = bh[c] + 1 /\ \A k \in (M \cup {Nil}) \ {c} : b[k] = bh[k]
    BY <1>1, <2>1, <2>2 DEF HeightSets
  <2>4. Dark(u, c) = 1 /\ Dark(t, c) = 0 /\ \A k \in M \ {c} : Dark(u, k) = Dark(t, k)
    BY <1>0, <1>4, <2>1 DEF Dark
  <2>5. ASSUME NEW m \in M, NEW y \in Side
        PROVE  b[m] = b[u.child[y][m]] + Lack(Nil, hs, m, y) + Dark(u, m)
    <3> DEFINE d == t.child[y][m]
    <3>1. /\ bh[m] = bh[d] + Lack(hp, hs, m, y) + Dark(t, m) /\ d \in M \cup {Nil}
          /\ Lack(Nil, hs, m, y) = 0 /\ u.child[y][m] = d /\ d # m
          /\ bh[m] \in Nat /\ bh[d] \in Nat /\ Dark(t, m) \in Nat
      BY <1>0, <1>1, <1>2
    <3>2. CASE d = c
      <4>1. Lack(hp, hs, m, y) = 1 /\ b[d] = bh[d] + 1 /\ m # c
        BY <2>1, <2>3, <3>1, <3>2 DEF Lack
      <4>2. b[m] = bh[m] /\ Dark(u, m) = Dark(t, m)
        BY <2>3, <2>4, <4>1
      <4> HIDE DEF d
      <4> QED
        BY <3>1, <4>1, <4>2
    <3>3. CASE d # c
      <4>1. Lack(hp, hs, m, y) = 0 /\ b[d] = bh[d]
        BY <2>1, <2>3, <3>1, <3>3 DEF Lack
      <4>2. b[m] - Dark(u, m) = bh[m] - Dark(t, m)
        BY <2>1, <2>3, <2>4, <3>1
      <4>3. b[m] \in Nat /\ Dark(u, m) \in Nat
        BY <1>1, <2>3 DEF Heights, Dark
      <4> HIDE DEF d
      <4> QED
        BY <3>1, <4>1, <4>2, <4>3
    <3> QED
      BY <3>2, <3>3
  <2>6. b[Nil] = 0 /\ u.color[Nil] = "black"
    BY <1>0, <1>1, <1>2, <2>1, <2>3
  <2>7. Leveled(u, M, b, Nil, hs)
    BY <2>3, <2>5, <2>6 DEF Leveled
  <2> QED
    BY <2>7
<1>5. t.color[c] \in {"red", "black"}
  BY <1>1 DEF Trees
<1> QED
  BY <1>3, <1>4, <1>5

LEMMA RepairEnds ==
    ASSUME NEW t, NEW M, Placed(t, M), NEW bh, NEW hp, NEW hs, Leveled(t, M, bh, hp, hs),
           NEW c \in M \cup {Nil}, Fills(t, M, c, hp, hs), Reds(t, M, {c}, {c}),
           t.color[t.root] = "red" => c = t.root
    PROVE  TreeInv(Painted(t, c, "black"), M, "idle", Nil)
<1> DEFINE u == Painted(t, c, "black")
<1>1. Shaped(t, M)
  BY PlacedShape
<1>2. /\ M \subseteq Node /\ Nil \notin M /\ t \in Trees /\ t.root \in M \cup {Nil}
      /\ \A m \in M, y \in Side : t.child[y][m] \in M \cup {Nil}
  BY <1>1 DEF Shaped
<1>3. Placed(u, M) /\ ColorSets(t, u, c, "black")
  <2>1. c \in Node \cup {Nil} /\ "black" \in {"red", "black"}
    BY <1>2
  <2> QED
    BY <2>1, PaintedPlaced, Zenon
<1> HIDE DEF u
<1>4. /\ u.root = t.root /\ u.child = t.child
      /\ \A k \in M \cup {Nil} : u.color[k] = IF k = c THEN "black" ELSE t.color[k]
  BY <1>2, <1>3 DEF ColorSets
<1>5. PICK b : Leveled(u, M, b, Nil, hs)
  <2>1. Blackened(t, u, M, c)
    BY <1>4 DEF Blackened
  <2> QED
    BY <1>1, <2>1, BlackenedLevels, Zenon
<1>6. Reds(u, M, {}, {})
  BY <1>2, <1>4 DEF Reds
<1>7. RootColored(u, "idle", Nil) /\ RedsOf(u, M, "idle", Nil) /\ HangsBelow(u, M, "idle", Nil, Nil, hs)
  BY <1>2, <1>4, <1>6 DEF RootColored, RedsOf, HangsBelow
<1>8. \E bhx, hpx, hsx : Leveled(u, M, bhx, hpx, hsx) /\ HangsBelow(u, M, "idle", Nil, hpx, hsx)
  BY <1>5, <1>7
<1>9. TreeInv(u, M, "idle", Nil)
  BY <1>3, <1>7, <1>8 DEF TreeInv
<1> QED
  BY <1>9 DEF u

LEMMA InsertEndsKeeps ==
    ASSUME IInv, InsertEnds
    PROVE  TreeInv(tree', members', loop', cur')
<1>1. /\ tree' = Painted(tree, tree.root, "black") /\ members' = members
      /\ loop' = "idle" /\ cur' = Nil /\ loop = "insert"
      /\ cur = tree.root \/ tree.color[Parent(cur)] # "red"
  BY DEF InsertEnds, InsertFixes
<1>2. /\ Placed(tree, members) /\ Shaped(tree, members) /\ Reds(tree, members, {}, {cur})
      /\ \E bh, hs : Leveled(tree, members, bh, Nil, hs)
  BY <1>1, InsertFacts
<1>3. PICK bh, hs : Leveled(tree, members, bh, Nil, hs)
  BY <1>2
<1>4. cur \in members
  BY <1>1 DEF IInv, TreeInv
<1>5. tree.root \in members \cup {Nil} /\ Nil \notin members
  BY <1>2, <1>4 DEF Shaped
<1>6. Fills(tree, members, tree.root, Nil, hs)
  BY <1>2, <1>5 DEF Shaped, Separate, Fills
<1>7. Reds(tree, members, {tree.root}, {tree.root})
  <2>1. CASE cur = tree.root
    BY <1>2, <2>1 DEF Reds
  <2>2. CASE cur # tree.root
    <3>1. \A m \in members, y \in Side : tree.child[y][m] = cur => m = Parent(cur)
      BY <1>2, <1>4 DEF Shaped, Parent
    <3> QED
      BY <1>1, <1>2, <2>2, <3>1 DEF Reds
  <2> QED
    BY <2>1, <2>2
<1>8. TreeInv(Painted(tree, tree.root, "black"), members, "idle", Nil)
  <2>1. tree.color[tree.root] = "red" => tree.root = tree.root
    OBVIOUS
  <2> QED
    BY <1>2, <1>3, <1>5, <1>6, <1>7, <2>1, RepairEnds, Zenon
<1> QED
  BY <1>1, <1>8

LEMMA DeleteEndsKeeps ==
    ASSUME IInv, DeleteEnds
    PROVE  TreeInv(tree', members', loop', cur')
<1>1. /\ tree' = Painted(tree, cur, "black") /\ members' = members
      /\ loop' = "idle" /\ cur' = Nil /\ loop = "delete"
      /\ cur = tree.root \/ tree.color[cur] # "black"
  BY DEF DeleteEnds, DeleteFixes
<1>2. Placed(tree, members) /\ Shaped(tree, members)
  BY PlacedShape DEF IInv, TreeInv
<1>3. PICK bh, hp, hs : /\ Leveled(tree, members, bh, hp, hs)
                        /\ HangsBelow(tree, members, loop, cur, hp, hs)
  BY DEF IInv, TreeInv
<1>4. Reds(tree, members, {cur}, {cur})
  BY <1>1 DEF IInv, TreeInv, RedsOf
<1>5. tree.color[tree.root] # "red"
  BY <1>1 DEF IInv, TreeInv, RootColored
<1>6. cur \in members \cup {Nil} /\ Fills(tree, members, cur, hp, hs)
  <2>1. CASE cur = tree.root
    <3>1. hp = Nil
      BY <1>1, <1>3, <2>1 DEF HangsBelow
    <3>2. cur \in members \cup {Nil}
      BY <1>2, <2>1 DEF Shaped
    <3> QED
      BY <1>5, <2>1, <3>1, <3>2 DEF Fills
  <2>2. CASE cur # tree.root
    <3>1. hp \in members /\ hs \in Side /\ tree.child[hs][hp] = cur
      BY <1>1, <1>3, <2>2 DEF HangsBelow
    <3>2. cur \in members \cup {Nil} /\ tree.color[Nil] = "black" /\ tree.color[cur] # "black"
      BY <1>1, <1>2, <1>3, <2>2, <3>1 DEF Shaped, Leveled
    <3>3. tree.color[cur] = "red" /\ cur # Nil
      BY <1>2, <3>2 DEF Shaped, Trees
    <3>4. \A k \in members, y \in Side : tree.child[y][k] = cur <=> k = hp /\ y = hs
      BY <1>2, <3>1, <3>3 DEF Shaped, Separate
    <3> QED
      BY <3>2, <3>3, <3>4 DEF Fills
  <2> QED
    BY <2>1, <2>2
<1>7. TreeInv(Painted(tree, cur, "black"), members, "idle", Nil)
  <2>1. tree.color[tree.root] = "red" => cur = tree.root
    BY <1>5
  <2> QED
    BY <1>2, <1>3, <1>4, <1>6, <2>1, RepairEnds, Zenon
<1> QED
  BY <1>1, <1>7

\* What holds between two calls.
LEMMA IdleFacts ==
    ASSUME IInv, loop = "idle"
    PROVE  /\ Placed(tree, members) /\ Shaped(tree, members) /\ Reds(tree, members, {}, {})
           /\ \E bh, hs : Leveled(tree, members, bh, Nil, hs)
           /\ tree.color[tree.root] = "black" /\ cur \in Node \cup {Nil}
<1>1. PICK bh, hp, hs : /\ Leveled(tree, members, bh, hp, hs)
                        /\ HangsBelow(tree, members, loop, cur, hp, hs)
  BY DEF IInv, TreeInv
<1>2. hp = Nil
  BY <1>1 DEF HangsBelow
<1>3. /\ Placed(tree, members) /\ RedsOf(tree, members, loop, cur)
      /\ RootColored(tree, loop, cur) /\ cur \in Node \cup {Nil}
  BY DEF IInv, TreeInv
<1>4. Shaped(tree, members)
  BY <1>3, PlacedShape
<1>5. tree.root \in Node \cup {Nil} /\ tree \in Trees
  BY <1>4 DEF Shaped, Trees
<1>6. tree.color[tree.root] \in {"red", "black"}
  BY <1>5 DEF Trees
<1> QED
  BY <1>1, <1>2, <1>3, <1>4, <1>6 DEF RedsOf, RootColored

\* A tree in which nothing is to be repaired.
LEMMA IdleKept ==
    ASSUME NEW t, NEW M, Placed(t, M), NEW bh, NEW hs, Leveled(t, M, bh, Nil, hs),
           Reds(t, M, {}, {}), t.color[t.root] = "black", NEW c \in Node \cup {Nil}
    PROVE  TreeInv(t, M, "idle", c)
<1>1. RootColored(t, "idle", c) /\ RedsOf(t, M, "idle", c) /\ HangsBelow(t, M, "idle", c, Nil, hs)
  BY DEF RootColored, RedsOf, HangsBelow
<1> QED
  BY <1>1 DEF TreeInv

LEMMA InsertFirstKeeps ==
    ASSUME IInv, loop = "idle", NEW n \in Node, n \notin members, InsertFirst(n)
    PROVE  TreeInv(tree', members \cup {n}, loop', cur')
<1> DEFINE t1 == [tree EXCEPT !.root = n]
           t2 == Childless(t1, n, Nil)
           t3 == WithParent(t2, n, NoNode)
           t4 == Painted(t3, n, "black")
           b == [k \in Node \cup {Nil} |-> IF k = n THEN 1 ELSE 0]
<1>1. tree' = t4 /\ tree.root = Nil /\ loop' = "idle" /\ cur' = cur
  BY DEF InsertFirst
<1>2. /\ Placed(tree, members) /\ Shaped(tree, members)
      /\ \E bh, hs : Leveled(tree, members, bh, Nil, hs)
      /\ cur \in Node \cup {Nil}
  BY IdleFacts
<1>3. members = {} /\ tree \in Trees /\ tree.color[Nil] = "black" /\ Nil \notin Node
  BY <1>1, <1>2, RBTreeAssumption DEF Shaped, Leveled
<1>4. t1 \in Trees /\ t1.root = n /\ t1.color = tree.color
  BY <1>3, RootSet
<1> HIDE DEF t1
<1>5. /\ t2 \in Trees /\ t2.root = n /\ t2.color = tree.color
      /\ \A y \in Side : t2.child[y][n] = Nil
  BY <1>4, ChildlessFields
<1> HIDE DEF t2
<1>6. ParentSets(t2, t3, n, NoNode)
  <2>1. n \in Node \cup {Nil} /\ NoNode \in Node \cup {NoNode}
    OBVIOUS
  <2> QED
    BY <1>5, <2>1, ParentSet, Zenon
<1> HIDE DEF t3
<1>7. ColorSets(t3, t4, n, "black")
  <2>1. t3 \in Trees /\ n \in Node \cup {Nil} /\ "black" \in {"red", "black"}
    BY <1>6 DEF ParentSets
  <2> QED
    BY <2>1, ColorSet, Zenon
<1> HIDE DEF t4
<1>8. /\ t4 \in Trees /\ t4.root = n /\ \A y \in Side : t4.child[y][n] = Nil
      /\ t4.color[n] = "black" /\ t4.color[Nil] = "black"
  BY <1>3, <1>5, <1>6, <1>7 DEF ParentSets, ColorSets
<1>9. Placed(t4, {n})
  BY <1>8, FirstPlaced
<1>10. b \in Heights /\ b[n] = 1 /\ b[Nil] = 0
  BY <1>3 DEF Heights
<1> HIDE DEF b
<1>11. Leveled(t4, {n}, b, Nil, "left")
  BY <1>3, <1>8, <1>10 DEF Leveled, Lack, Dark
<1>12. Reds(t4, {n}, {}, {})
  BY <1>8 DEF Reds
<1>13. TreeInv(t4, {n}, "idle", cur)
  <2>1. t4.color[t4.root] = "black"
    BY <1>8
  <2> QED
    BY <1>2, <1>9, <1>11, <1>12, <2>1, IdleKept, Zenon
<1>14. members \cup {n} = {n}
  BY <1>3
<1> QED
  BY <1>1, <1>13, <1>14

LEMMA InsertBelowKeeps ==
    ASSUME IInv, loop = "idle", NEW n \in Node, n \notin members, InsertBelow(n)
    PROVE  TreeInv(tree', members \cup {n}, loop', cur')
<1> DEFINE p == Leaf(n)
           z == SideBelow(n, p)
           u == Painted(WithParent(WithChild(Childless(tree, n, Nil), z, p, n), n, p),
                        n, "red")
           M == members \cup {n}
<1>1. tree' = u /\ tree.root # Nil /\ loop' = "insert" /\ cur' = n
  BY Zenon DEF InsertBelow
<1>2. /\ Placed(tree, members) /\ Shaped(tree, members) /\ Reds(tree, members, {}, {})
      /\ tree.color[tree.root] = "black"
      /\ \E bh, hs : Leveled(tree, members, bh, Nil, hs)
  BY IdleFacts
<1>3. PICK bh, hs : Leveled(tree, members, bh, Nil, hs)
  BY <1>2
<1>4. members # {}
  BY <1>1, <1>2 DEF Shaped
<1>5. /\ p \in members /\ z \in Side /\ tree.child[z][p] = Nil
      /\ AddedSets(tree, u, z, p, n) /\ Placed(u, M)
  BY <1>2, <1>4, InsertFits
<1> HIDE DEF p, z, u
<1>6. /\ Leveled(u, M, [bh EXCEPT ![n] = 0], Nil, hs)
      /\ Reds(u, M, {}, {n})
  BY <1>2, <1>3, <1>5, AddedLevels
<1>7. /\ u.color[n] = "red" /\ u.root = tree.root /\ u.color[u.root] = "black"
  BY <1>2, <1>4, <1>5 DEF AddedSets, Shaped
<1>8. /\ RootColored(u, "insert", n) /\ RedsOf(u, M, "insert", n)
      /\ HangsBelow(u, M, "insert", n, Nil, hs)
  BY <1>6, <1>7 DEF RootColored, RedsOf, HangsBelow
<1>9. TreeInv(u, M, "insert", n)
  <2>1. \E bhx, hp, hsx : /\ Leveled(u, M, bhx, hp, hsx)
                          /\ HangsBelow(u, M, "insert", n, hp, hsx)
    BY <1>6, <1>8
  <2> QED
    BY <1>5, <1>7, <1>8, <2>1 DEF TreeInv
<1> QED
  BY <1>1, <1>9

(***************************************************************************)
(* A node leaves its place: a black one leaves a hole.                     *)
(***************************************************************************)
HoleOf(t, x) == IF x # t.root /\ t.color[x] = "black" THEN t.parent[x] ELSE Nil

LEMMA CutLevels ==
    ASSUME NEW t, NEW M, Shaped(t, M), NEW bh, NEW hs, Leveled(t, M, bh, Nil, hs),
           NEW x \in M, NEW z \in Side, t.child[z][x] = Nil, NEW h, h = t.child[Other(z)][x],
           NEW u, Cuts(t, u, M, x, h), SameColors(t, u, M \ {x})
    PROVE  Leveled(u, M \ {x}, bh, HoleOf(t, x), SideOf(t, x))
<1> DEFINE q == t.parent[x]
           side == SideOf(t, x)
           hp == HoleOf(t, x)
<1>1. /\ M \subseteq Node /\ Nil \notin M /\ t \in Trees /\ Other(z) \in Side
      /\ \A m \in M, y \in Side : t.child[y][m] \in M \cup {Nil}
      /\ x # t.root => q \in M \ {x} /\ side \in Side /\ t.child[side][q] = x
      /\ h \in (M \cup {Nil}) \ {x}
      /\ \A m \in M, y \in Side : t.child[y][m] = x => x # t.root /\ m = q /\ y = side
  BY Sides, SMTT(30) DEF Shaped, Separate
<1>2. /\ bh \in Heights /\ \A k \in M \cup {Nil} : bh[k] \in Nat
      /\ bh[Nil] = 0 /\ t.color[Nil] = "black"
      /\ \A m \in M, y \in Side :
            bh[m] = bh[t.child[y][m]] + Lack(Nil, hs, m, y) + Dark(t, m)
      /\ \A m \in M : \A y : Lack(Nil, hs, m, y) = 0
      /\ \A m : Dark(t, m) \in Nat
  BY <1>1 DEF Leveled, Heights, Lack, Dark
<1>3. \A m \in M, y \in Side : bh[m] = bh[t.child[y][m]] + Dark(t, m)
  <2> SUFFICES ASSUME NEW m \in M, NEW y \in Side PROVE bh[m] = bh[t.child[y][m]] + Dark(t, m)
    OBVIOUS
  <2>1. bh[t.child[y][m]] \in Nat
    BY <1>1, <1>2
  <2> QED
    BY <1>2, <2>1
<1>4. /\ u.color[Nil] = "black" /\ \A m \in M \ {x} : Dark(u, m) = Dark(t, m)
      /\ \A y \in Side, k \in M \ {x} :
            u.child[y][k] = IF x # t.root /\ k = q /\ y = side THEN h ELSE t.child[y][k]
  BY <1>2 DEF Cuts, SameColors, Dark
<1>5. bh[x] = bh[h] + Dark(t, x) /\ bh[x] \in Nat /\ bh[h] \in Nat
  BY <1>1, <1>2, <1>3
<1> HIDE DEF q, side, hp
<1>6. ASSUME NEW m \in M \ {x}, NEW y \in Side
      PROVE  bh[m] = bh[u.child[y][m]] + Lack(hp, side, m, y) + Dark(u, m)
  <2>1. /\ bh[m] = bh[t.child[y][m]] + Dark(t, m) /\ Dark(u, m) = Dark(t, m) /\ Dark(t, m) \in Nat
        /\ bh[m] \in Nat /\ bh[t.child[y][m]] \in Nat
    BY <1>1, <1>2, <1>3, <1>4
  <2>2. CASE x # t.root /\ m = q /\ y = side
    <3>1. u.child[y][m] = h /\ t.child[y][m] = x
      BY <1>1, <1>4, <2>2
    <3>2. Lack(hp, side, m, y) = Dark(t, x)
      BY <1>1, <2>2 DEF Lack, Dark, hp, HoleOf, q
    <3> QED
      BY <1>5, <2>1, <3>1, <3>2
  <2>3. CASE ~ (x # t.root /\ m = q /\ y = side)
    <3>1. u.child[y][m] = t.child[y][m]
      BY <1>4, <2>3
    <3>2. Lack(hp, side, m, y) = 0
      BY <1>1, <2>3 DEF Lack, hp, HoleOf, q
    <3> QED
      BY <2>1, <3>1, <3>2
  <2> QED
    BY <2>2, <2>3
<1> QED
  BY <1>2, <1>4, <1>6 DEF Leveled, hp, side

LEMMA CutReds ==
    ASSUME NEW t, NEW M, Shaped(t, M), Reds(t, M, {}, {}), NEW x \in M, NEW z \in Side,
           NEW h, h = t.child[z][x],
           NEW u, Cuts(t, u, M, x, h), SameColors(t, u, M \ {x})
    PROVE  /\ Reds(u, M \ {x}, {}, {h})
           /\ x # t.root /\ t.color[x] = "red" => Reds(u, M \ {x}, {}, {})
<1> DEFINE q == t.parent[x]
           side == SideOf(t, x)
<1>1. /\ Nil \notin M
      /\ \A m \in M, y \in Side : t.child[y][m] \in M \cup {Nil}
      /\ x # t.root => q \in M \ {x} /\ side \in Side /\ t.child[side][q] = x
      /\ h \in (M \cup {Nil}) \ {x}
      /\ \A m \in M, y \in Side : t.child[y][m] = x => x # t.root /\ m = q /\ y = side
  BY Sides DEF Shaped, Separate
<1>2. /\ \A m \in (M \ {x}) \cup {Nil} : u.color[m] = t.color[m]
      /\ \A y \in Side, k \in M \ {x} :
            u.child[y][k] = IF x # t.root /\ k = q /\ y = side THEN h ELSE t.child[y][k]
  BY DEF Cuts, SameColors
<1> HIDE DEF q, side
<1>3. ASSUME NEW m \in M \ {x}, NEW y \in Side,
             u.color[m] = "red", u.color[u.child[y][m]] = "red"
      PROVE  u.child[y][m] = h /\ (x # t.root => t.color[x] # "red")
  <2>1. CASE x # t.root /\ m = q /\ y = side
    BY <1>1, <1>2, <1>3, <2>1 DEF Reds
  <2>2. CASE ~ (x # t.root /\ m = q /\ y = side)
    BY <1>1, <1>2, <1>3, <2>2 DEF Reds
  <2> QED
    BY <2>1, <2>2
<1> QED
  BY <1>3 DEF Reds

NamedColors(v, u, M, n, x) ==
    \A k \in (M \ {n}) \cup {x, Nil} : u.color[k] = IF k = x THEN v.color[n] ELSE v.color[k]

LEMMA RenameLevels ==
    ASSUME NEW v, NEW M, Shaped(v, M), NEW bh, NEW hp, NEW hs, Leveled(v, M, bh, hp, hs),
           NEW n \in M, NEW x \in Node \ M, hp # x,
           NEW u, Renames(v, u, M, n, x), NamedColors(v, u, M, n, x)
    PROVE  Leveled(u, (M \ {n}) \cup {x}, [bh EXCEPT ![x] = bh[n]], IF hp = n THEN x ELSE hp, hs)
<1> DEFINE b == [bh EXCEPT ![x] = bh[n]]
           hq == IF hp = n THEN x ELSE hp
           name(k) == IF k = n THEN x ELSE k
<1>1. /\ M \subseteq Node /\ Nil \notin M /\ v \in Trees /\ Nil \notin Node
      /\ \A m \in M, y \in Side : v.child[y][m] \in M \cup {Nil}
      /\ \A m \in M, y \in Side : v.child[y][m] # m
  BY RBTreeAssumption DEF Shaped, Separate
<1>2. /\ bh \in Heights /\ \A k \in M \cup {Nil} : bh[k] \in Nat
      /\ bh[Nil] = 0 /\ v.color[Nil] = "black"
      /\ \A m \in M, y \in Side :
            bh[m] = bh[v.child[y][m]] + Lack(hp, hs, m, y) + Dark(v, m)
  BY <1>1 DEF Leveled, Heights
<1>3. b \in Heights /\ b[x] = bh[n] /\ \A k \in M \cup {Nil} : b[k] = bh[k]
  <2>1. HeightSets(bh, b, x, bh[n])
    <3>1. x \in Node \cup {Nil} /\ bh[n] \in Nat
      BY <1>2
    <3> QED
      BY <1>2, <3>1, HeightSet, Zenon
  <2> HIDE DEF b
  <2> QED
    BY <1>1, <2>1 DEF HeightSets
<1> HIDE DEF b
<1>4. /\ \A m \in M : Dark(u, name(m)) = Dark(v, m)
      /\ u.color[Nil] = "black"
  BY <1>1, <1>2 DEF NamedColors, Dark
<1>5. \A m \in M, y \in Side : u.child[y][name(m)] = name(v.child[y][m])
  BY <1>1 DEF Renames
<1>6. \A m \in M \cup {Nil} : b[name(m)] = bh[m]
  BY <1>3
<1>7. \A m \in M : \A y : Lack(hq, hs, name(m), y) = Lack(hp, hs, m, y)
  BY <1>1 DEF Lack
<1>8. \A k \in (M \ {n}) \cup {x} : \E m \in M : k = name(m)
  OBVIOUS
<1> HIDE DEF name, hq
<1>9. ASSUME NEW k \in (M \ {n}) \cup {x}, NEW y \in Side
      PROVE  b[k] = b[u.child[y][k]] + Lack(hq, hs, k, y) + Dark(u, k)
  <2>1. PICK m \in M : k = name(m)
    BY <1>8
  <2>2. b[k] = bh[m] /\ b[u.child[y][k]] = bh[v.child[y][m]]
    BY <1>1, <1>5, <1>6, <2>1
  <2> QED
    BY <1>2, <1>4, <1>7, <2>1, <2>2
<1>10. b[Nil] = 0
  BY <1>2, <1>3
<1> QED
  BY <1>3, <1>4, <1>9, <1>10 DEF Leveled, b, hq

LEMMA RenameReds ==
    ASSUME NEW v, NEW M, Shaped(v, M), NEW T, Reds(v, M, {}, T),
           NEW n \in M, n \notin T, NEW x \in Node \ M,
           NEW u, Renames(v, u, M, n, x), NamedColors(v, u, M, n, x)
    PROVE  Reds(u, (M \ {n}) \cup {x}, {}, T)
<1> DEFINE name(k) == IF k = n THEN x ELSE k
<1>1. /\ M \subseteq Node /\ Nil \notin M /\ Nil \notin Node
      /\ \A m \in M, y \in Side : v.child[y][m] \in M \cup {Nil}
      /\ \A m \in M, y \in Side : v.child[y][m] # m
  BY RBTreeAssumption DEF Shaped, Separate
<1>2. \A m \in M \cup {Nil} : u.color[name(m)] = v.color[m]
  BY <1>1 DEF NamedColors
<1>3. \A m \in M, y \in Side : u.child[y][name(m)] = name(v.child[y][m])
  BY <1>1 DEF Renames
<1>4. /\ \A k \in (M \ {n}) \cup {x} : \E m \in M : k = name(m)
      /\ \A m \in M : name(m) \in T \/ m \notin T
  OBVIOUS
<1>5. ASSUME NEW k \in (M \ {n}) \cup {x}, NEW y \in Side,
             u.color[k] = "red", u.color[u.child[y][k]] = "red"
      PROVE  u.child[y][k] \in T
  <2> HIDE DEF name
  <2>1. PICK m \in M : k = name(m)
    BY <1>4
  <2>2. v.color[m] = "red" /\ v.color[v.child[y][m]] = "red"
    BY <1>1, <1>2, <1>3, <1>5, <2>1
  <2>3. v.child[y][m] \in T
    BY <2>2 DEF Reds
  <2>4. v.child[y][m] # n
    BY <2>3
  <2> QED
    BY <1>3, <2>1, <2>3, <2>4 DEF name
<1> QED
  BY <1>5 DEF Reds

LEMMA DeleteRootKeeps ==
    ASSUME IInv, loop = "idle", NEW n \in members, DeleteRoot(n)
    PROVE  TreeInv(tree', members \ {n}, loop', cur')
<1> DEFINE h == Heir(tree.root)
           u == Freed(Painted([tree EXCEPT !.root = h], h, "black"), tree.root)
           N == members \ {n}
           w == Painted(u, h, tree.color[h])
<1>1. /\ Placed(tree, members) /\ Shaped(tree, members) /\ Reds(tree, members, {}, {})
      /\ cur \in Node \cup {Nil}
      /\ \E bh, hs : Leveled(tree, members, bh, Nil, hs)
  BY IdleFacts
<1>2. PICK bh, hs : Leveled(tree, members, bh, Nil, hs)
  BY <1>1
<1>3. tree' = u /\ n = tree.root /\ Subst(n) = n /\ loop' = "idle" /\ cur' = cur
  BY Zenon DEF DeleteRoot
<1>4. GivesWay(n)
  <2>1. PICK at, end : Spanned(tree, members, at, end)
    BY <1>1 DEF Placed, Numbered
  <2>2. GivesWay(Subst(n))
    BY <2>1, SubstFound
  <2> QED
    BY <1>3, <2>2, Zenon
<1>5. PICK z \in Side : tree.child[z][n] = Nil /\ h = tree.child[Other(z)][n]
  BY <1>3, <1>4 DEF GivesWay
<1>6. /\ Cuts(tree, u, members, n, h) /\ Placed(u, N) /\ h \in N \cup {Nil}
      /\ \A k \in N \cup {Nil} : u.color[k] = IF k = h THEN "black" ELSE tree.color[k]
  BY <1>1, <1>3, <1>4, RootFits
<1> HIDE DEF h, u
<1>7. /\ members \subseteq Node /\ tree \in Trees /\ Nil \notin members
      /\ tree.color[Nil] = "black" /\ Shaped(u, N)
  BY <1>1, <1>2, <1>6, PlacedShape DEF Shaped, Leveled
<1>8. Placed(w, N) /\ ColorSets(u, w, h, tree.color[h])
  <2>1. h \in Node \cup {Nil}
    BY <1>6, <1>7
  <2>2. tree.color[h] \in {"red", "black"}
    BY <1>7, <2>1 DEF Trees
  <2> QED
    BY <1>6, <2>1, <2>2, PaintedPlaced, Zenon
<1> HIDE DEF w
<1>9. SameColors(tree, w, N)
  BY <1>6, <1>7, <1>8 DEF SameColors, ColorSets
<1>10. Cuts(tree, w, members, n, h)
  BY <1>6, <1>8 DEF Cuts, ColorSets
<1>11. Shaped(w, N) /\ w.root = h /\ u.root = h /\ u.child = w.child
  BY <1>3, <1>6, <1>8, PlacedShape DEF ColorSets, Cuts
<1>12. Leveled(w, N, bh, Nil, SideOf(tree, n))
  <2>1. Leveled(w, N, bh, HoleOf(tree, n), SideOf(tree, n))
    BY <1>1, <1>2, <1>5, <1>9, <1>10, CutLevels, Zenon
  <2> QED
    BY <1>3, <2>1 DEF HoleOf
<1>13. Reds(w, N, {}, {h})
  <2>1. Other(z) \in Side
    BY Sides
  <2> QED
    BY <1>1, <1>5, <1>9, <1>10, <2>1, CutReds, Zenon
<1>14. Fills(w, N, h, Nil, SideOf(tree, n))
  BY <1>6, <1>7, <1>9, <1>11 DEF Fills, Shaped, Separate, SameColors, Trees
<1>15. Blackened(w, u, N, h)
  BY <1>6, <1>9, <1>11 DEF Blackened, SameColors
<1>16. PICK b : Leveled(u, N, b, Nil, SideOf(tree, n))
  BY <1>6, <1>11, <1>12, <1>14, <1>15, BlackenedLevels, Zenon
<1>17. Reds(u, N, {}, {}) /\ u.color[u.root] = "black"
  <2>1. \A m \in N, y \in Side : u.child[y][m] \in N \cup {Nil}
    BY <1>7 DEF Shaped
  <2> QED
    BY <1>6, <1>11, <1>13, <1>15, <2>1 DEF Reds, Blackened
<1>18. TreeInv(u, N, "idle", cur)
  BY <1>1, <1>6, <1>16, <1>17, IdleKept, Zenon
<1> QED
  BY <1>3, <1>18

\* What a deletion leaves: a hole at h where a black node was.
LEMMA DeleteKept ==
    ASSUME NEW t, NEW M, Placed(t, M), NEW bh, NEW hs, NEW hp, Leveled(t, M, bh, hp, hs),
           NEW h \in Node \cup {Nil}, Reds(t, M, {}, {h}), t.color[t.root] = "black",
           h # t.root, hp \in M, hs \in Side, t.child[hs][hp] = h, t.parent[h] = hp
    PROVE  TreeInv(t, M, "delete", h)
<1>1. /\ RootColored(t, "delete", h) /\ RedsOf(t, M, "delete", h)
      /\ HangsBelow(t, M, "delete", h, hp, hs)
  BY DEF RootColored, RedsOf, HangsBelow, Reds
<1> QED
  BY <1>1 DEF TreeInv

LEMMA UnlinkKeeps ==
    ASSUME IInv, loop = "idle", NEW n \in members, DeleteBelow(n), Subst(n) = n
    PROVE  TreeInv(tree', members \ {n}, loop', cur')
<1> DEFINE h == Heir(n)
           u == Freed(Unlinked(n, h), n)
           N == members \ {n}
           q == tree.parent[n]
           side == SideOf(tree, n)
<1>1. /\ Placed(tree, members) /\ Shaped(tree, members) /\ Reds(tree, members, {}, {})
      /\ cur \in Node \cup {Nil} /\ tree.color[tree.root] = "black"
      /\ \E bh, hs : Leveled(tree, members, bh, Nil, hs)
  BY IdleFacts
<1>2. PICK bh, hs : Leveled(tree, members, bh, Nil, hs)
  BY <1>1
<1>3. /\ tree' = u /\ n # tree.root
      /\ IF tree.color[n] = "red" THEN loop' = "idle" /\ cur' = cur
         ELSE loop' = "delete" /\ cur' = h
  BY DEF DeleteBelow
<1>4. GivesWay(n)
  <2>1. PICK at, end : Spanned(tree, members, at, end)
    BY <1>1 DEF Placed, Numbered
  <2>2. GivesWay(Subst(n))
    BY <2>1, SubstFound
  <2> QED
    BY <2>2, Zenon
<1>5. PICK z \in Side : tree.child[z][n] = Nil /\ h = tree.child[Other(z)][n]
  BY <1>4 DEF GivesWay
<1>6. /\ Cuts(tree, u, members, n, h) /\ Placed(u, N) /\ SameColors(tree, u, N)
      /\ h # n /\ u.parent[h] = q
  BY <1>1, <1>3, <1>4, UnlinkedFits
<1> HIDE DEF h, u
<1>7. /\ members \subseteq Node /\ tree \in Trees /\ Other(z) \in Side
      /\ q \in members \ {n} /\ side \in Side /\ tree.root \in members \ {n}
      /\ h \in members \cup {Nil} /\ h # tree.root /\ Nil \notin members
  BY <1>1, <1>3, <1>5, Sides DEF Shaped, Separate
<1>8. u.root = tree.root /\ u.child[side][q] = h /\ u.color[u.root] = "black"
  BY <1>1, <1>3, <1>6, <1>7 DEF Cuts, SameColors
<1>9. Leveled(u, N, bh, HoleOf(tree, n), side)
  BY <1>1, <1>2, <1>5, <1>6, CutLevels, Zenon
<1>10. /\ Reds(u, N, {}, {h})
       /\ n # tree.root /\ tree.color[n] = "red" => Reds(u, N, {}, {})
  BY <1>1, <1>5, <1>6, <1>7, CutReds, Zenon
<1>11. tree.color[n] \in {"red", "black"}
  BY <1>7 DEF Trees
<1> HIDE DEF q, side
<1>12. CASE tree.color[n] = "red"
  <2>1. HoleOf(tree, n) = Nil
    BY <1>12 DEF HoleOf
  <2>2. Leveled(u, N, bh, Nil, side) /\ Reds(u, N, {}, {})
    BY <1>3, <1>9, <1>10, <1>12, <2>1
  <2>3. TreeInv(u, N, "idle", cur)
    BY <1>1, <1>6, <1>8, <2>2, IdleKept, Zenon
  <2> QED
    BY <1>3, <1>12, <2>3
<1>13. CASE tree.color[n] = "black"
  <2>1. HoleOf(tree, n) = q
    BY <1>3, <1>13 DEF HoleOf, q
  <2>2. Leveled(u, N, bh, q, side)
    BY <1>9, <2>1
  <2>3. h \in Node \cup {Nil} /\ h # u.root /\ q \in N
    BY <1>7, <1>8
  <2>4. TreeInv(u, N, "delete", h)
    BY <1>6, <1>7, <1>8, <1>10, <2>2, <2>3, DeleteKept, Zenon
  <2> QED
    BY <1>3, <1>13, <2>4
<1> QED
  BY <1>11, <1>12, <1>13

LEMMA ExchangeKeeps ==
    ASSUME IInv, loop = "idle", NEW n \in members, DeleteBelow(n), Subst(n) # n
    PROVE  TreeInv(tree', members \ {n}, loop', cur')
<1> DEFINE x == Subst(n)
           h == Heir(x)
           u == Freed(Exchanged(n, x, h), n)
           N == members \ {n}
           M == members \ {x}
           q == tree.parent[x]
           p == IF q = n THEN x ELSE q
           side == SideOf(tree, x)
<1>1. /\ Placed(tree, members) /\ Shaped(tree, members) /\ Reds(tree, members, {}, {})
      /\ cur \in Node \cup {Nil} /\ tree.color[tree.root] = "black"
      /\ \E bh, hs : Leveled(tree, members, bh, Nil, hs)
  BY IdleFacts
<1>2. PICK bh, hs : Leveled(tree, members, bh, Nil, hs)
  BY <1>1
<1>3. /\ tree' = u /\ x # tree.root
      /\ IF tree.color[x] = "red" THEN loop' = "idle" /\ cur' = cur
         ELSE loop' = "delete" /\ cur' = h
  BY DEF DeleteBelow
<1>4. PICK at, end : Spanned(tree, members, at, end) /\ Ranked(tree, members, at, end)
  BY <1>1 DEF Placed, Numbered
<1>5. x \in members /\ tree.child["left"][x] = Nil /\ h = tree.child["right"][x]
  BY <1>4, SubstFound
<1>6. Exchanges(tree, u, members, n, x, h) /\ Placed(u, N)
  BY <1>3, <1>4, ExchangedFits
<1>a. x # n
  OBVIOUS
<1> HIDE DEF h, u, x
<1>7. PICK v : /\ Cuts(tree, v, members, x, h) /\ v.color = tree.color
               /\ Renames(v, u, M, n, x)
  BY <1>6, Zenon DEF Exchanges
<1>8. /\ \A k \in N \cup {Nil} : u.color[k] = IF k = x THEN tree.color[n] ELSE tree.color[k]
      /\ u.parent[h] = p
  BY <1>6, Zenon DEF Exchanges
<1>9. "left" \in Side /\ Other("left") = "right" /\ "right" \in Side
  BY DEF Side, Other
<1>10. Shaped(v, M)
  <2>1. Cuts(tree, v, members, x, tree.child[Other("left")][x])
    BY <1>5, <1>7, <1>9
  <2>2. Placed(v, M)
    BY <1>1, <1>5, <1>9, <2>1, CutPlaced, Zenon
  <2> QED
    BY <2>2, PlacedShape, Zenon
<1>11. /\ members \subseteq Node /\ tree \in Trees /\ n \in members
       /\ q \in members \ {x} /\ side \in Side /\ tree.root \in members
       /\ h \in members \cup {Nil} /\ h # tree.root /\ h # x /\ Nil \notin members
  BY <1>1, <1>3, <1>5, <1>9 DEF Shaped, Separate
<1>12. h # n
  <2>1. Facts(tree, members, at, end)
    BY <1>4, SpannedFacts, Zenon
  <2>2. at[x] = at[n] + 1
    BY <1>4, <1>a, SubstFound DEF x
  <2> SUFFICES ASSUME h = n PROVE FALSE
    OBVIOUS
  <2>3. end["left"][n] = at[x] + 1 /\ end["left"][n] <= at[n] /\ end["left"][n] \in Int /\ at[n] \in Int
    BY <1>5, <1>9, <1>11, <2>1 DEF Facts, Step, Other
  <2> QED
    BY <2>2, <2>3
<1>13. SameColors(tree, v, M) /\ NamedColors(v, u, M, n, x)
  BY <1>a, <1>5, <1>7, <1>8, <1>11 DEF SameColors, NamedColors
<1>14. Leveled(v, M, bh, HoleOf(tree, x), side)
  <2>1. h = tree.child[Other("left")][x]
    BY <1>5, <1>9
  <2> QED
    BY <1>1, <1>2, <1>5, <1>7, <1>9, <1>13, <2>1, CutLevels, Zenon
<1>15. /\ Reds(v, M, {}, {h})
       /\ x # tree.root /\ tree.color[x] = "red" => Reds(v, M, {}, {})
  BY <1>1, <1>5, <1>7, <1>9, <1>13, CutReds, Zenon
<1>16. n \in M /\ x \in Node \ M /\ (M \ {n}) \cup {x} = N /\ HoleOf(tree, x) # x
  BY <1>a, <1>5, <1>11 DEF HoleOf
<1> DEFINE b == [bh EXCEPT ![x] = bh[n]]
           hp == IF HoleOf(tree, x) = n THEN x ELSE HoleOf(tree, x)
<1>17. Leveled(u, N, b, hp, side)
  <2>1. Leveled(u, (M \ {n}) \cup {x}, b, hp, side)
    <3> HIDE DEF M
    <3> QED
      BY <1>7, <1>10, <1>13, <1>14, <1>16, RenameLevels, Zenon
  <2> QED
    BY <1>16, <2>1, Zenon
<1> HIDE DEF b
<1>18. Reds(u, N, {}, {h})
  <2>1. n \notin {h}
    BY <1>12
  <2>2. Reds(u, (M \ {n}) \cup {x}, {}, {h})
    <3> HIDE DEF M
    <3> QED
      BY <1>7, <1>10, <1>13, <1>15, <1>16, <2>1, RenameReds, Zenon
  <2> QED
    BY <1>16, <2>2, Zenon
<1>19. u.root # h /\ u.color[u.root] = "black"
  <2>1. u.root = IF n = tree.root THEN x ELSE tree.root
    BY <1>3, <1>7 DEF Renames, Cuts
  <2>2. CASE n = tree.root
    BY <1>1, <1>5, <1>8, <1>11, <1>a, <2>1, <2>2
  <2>3. CASE n # tree.root
    BY <1>1, <1>3, <1>8, <1>11, <2>1, <2>3
  <2> QED
    BY <2>2, <2>3
<1>20. tree.color[x] \in {"red", "black"}
  BY <1>5, <1>11 DEF Trees
<1>21. CASE tree.color[x] = "red"
  <2>1. hp = Nil
    BY <1>11, <1>21 DEF HoleOf
  <2>2. Reds(u, N, {}, {})
    <3>1. Reds(v, M, {}, {})
      BY <1>3, <1>15, <1>21
    <3>2. n \notin {}
      OBVIOUS
    <3>3. Reds(u, (M \ {n}) \cup {x}, {}, {})
      <4> HIDE DEF M
      <4> QED
        BY <1>7, <1>10, <1>13, <1>16, <3>1, <3>2, RenameReds, Zenon
    <3> QED
      BY <1>16, <3>3, Zenon
  <2>3. Leveled(u, N, b, Nil, side)
    BY <1>17, <2>1
  <2>4. TreeInv(u, N, "idle", cur)
    BY <1>1, <1>6, <1>19, <2>2, <2>3, IdleKept, Zenon
  <2> QED
    BY <1>3, <1>21, <2>4
<1>22. CASE tree.color[x] = "black"
  <2>1. hp = p
    BY <1>3, <1>22 DEF HoleOf
  <2>2. v.child[side][q] = h
    BY <1>3, <1>7, <1>11 DEF Cuts
  <2>3. p \in N /\ u.child[side][p] = h
    BY <1>7, <1>11, <1>12, <1>a, <1>5, <2>2 DEF Renames
  <2>4. h \in Node \cup {Nil} /\ h # u.root
    BY <1>11, <1>19
  <2>5. Leveled(u, N, b, p, side)
    BY <1>17, <2>1
  <2>a. Placed(u, N) /\ u.parent[h] = p /\ side \in Side /\ u.color[u.root] = "black"
    BY <1>6, <1>8, <1>11, <1>19
  <2> HIDE DEF p, N, side
  <2>6. TreeInv(u, N, "delete", h)
    BY <1>18, <2>a, <2>3, <2>4, <2>5, DeleteKept, Zenon
  <2> QED
    BY <1>3, <1>22, <2>6 DEF N
<1> QED
  BY <1>20, <1>21, <1>22

(***************************************************************************)
(* A round of scraft_rbt_delete: a black node is missing below p on side s. *)
(***************************************************************************)
Short(t, M, bh, p, s, c) ==
    /\ Placed(t, M) /\ Leveled(t, M, bh, p, s) /\ Reds(t, M, {}, {})
    /\ t.color[t.root] = "black" /\ t.color[c] = "black" /\ c # t.root
    /\ p \in M /\ s \in Side /\ t.child[s][p] = c /\ t.parent[c] = p

\* The sibling exists, for it has a black node more.
HasSibling(t, M, bh, p, s) ==
    /\ t.child[Other(s)][p] \in M /\ t.child[Other(s)][p] # t.child[s][p]
    /\ bh[t.child[Other(s)][p]] = bh[t.child[s][p]] + 1
    /\ bh[p] = bh[t.child[s][p]] + 1 + Dark(t, p)

LEMMA SiblingThere ==
    ASSUME NEW t, NEW M, Shaped(t, M), NEW bh, NEW p \in M, NEW s \in Side,
           Leveled(t, M, bh, p, s)
    PROVE  HasSibling(t, M, bh, p, s)
<1> DEFINE o == Other(s)
           c == t.child[s][p]
           w == t.child[o][p]
<1>1. o \in Side /\ o # s /\ c \in M \cup {Nil} /\ w \in M \cup {Nil} /\ M \subseteq Node
  BY Sides DEF Shaped
<1>2. /\ \A k \in M \cup {Nil} : bh[k] \in Nat
      /\ bh[Nil] = 0
      /\ bh[p] = bh[c] + Lack(p, s, p, s) + Dark(t, p)
      /\ bh[p] = bh[w] + Lack(p, s, p, o) + Dark(t, p)
      /\ Dark(t, p) \in Nat
  BY <1>1 DEF Leveled, Heights, Dark
<1>3. Lack(p, s, p, s) = 1 /\ Lack(p, s, p, o) = 0
  BY <1>1 DEF Lack
<1> HIDE DEF o, c, w
<1>4. bh[c] \in Nat /\ bh[w] \in Nat
  BY <1>1, <1>2
<1>5. bh[w] = bh[c] + 1 /\ bh[p] = bh[c] + 1 + Dark(t, p)
  BY <1>2, <1>3, <1>4
<1>6. w # Nil /\ w # c
  BY <1>2, <1>4, <1>5
<1> QED
  BY <1>1, <1>5, <1>6 DEF o, c, w, HasSibling

LEMMA DeleteRound ==
    ASSUME IInv, loop = "delete", DeleteFixes
    PROVE  \E bh : Short(tree, members, bh, Parent(cur), SideOf(tree, cur), cur)
<1>1. PICK bh, hp, hs : /\ Leveled(tree, members, bh, hp, hs)
                        /\ HangsBelow(tree, members, loop, cur, hp, hs)
  BY DEF IInv, TreeInv
<1>2. cur # tree.root /\ tree.color[cur] = "black" /\ cur \in Node \cup {Nil}
  BY DEF DeleteFixes, IInv, TreeInv
<1>3. hp \in members /\ hs \in Side /\ tree.child[hs][hp] = cur /\ tree.parent[cur] = hp
  BY <1>1, <1>2 DEF HangsBelow
<1>4. /\ Placed(tree, members) /\ RootColored(tree, loop, cur) /\ RedsOf(tree, members, loop, cur)
      /\ Shaped(tree, members)
  BY PlacedShape DEF IInv, TreeInv
<1>5. Parent(cur) = hp
  BY <1>3 DEF Parent
<1>6. SideOf(tree, cur) = hs
  <2>1. tree.child[Other(hs)][hp] # tree.child[hs][hp]
    <3>1. HasSibling(tree, members, bh, hp, hs)
      BY <1>1, <1>3, <1>4, SiblingThere, Zenon
    <3> QED
      BY <3>1 DEF HasSibling
  <2> QED
    BY <1>3, <2>1 DEF SideOf, Side, Other
<1>7. Reds(tree, members, {}, {})
  BY <1>2, <1>4 DEF RedsOf, Reds
<1>8. tree.color[tree.root] = "black"
  <2>1. tree.root \in Node \cup {Nil} /\ tree \in Trees
    BY <1>4 DEF Shaped, Trees
  <2> QED
    BY <1>4, <2>1 DEF RootColored, Trees
<1> QED
  BY <1>1, <1>2, <1>3, <1>4, <1>5, <1>6, <1>7, <1>8 DEF Short

\* A red sibling is rotated up, above a red p; its child is the black one.
BlackBeside(t, p, s, c) ==
    /\ \E b : Short(t, members, b, p, s, c)
    /\ t.color[t.child[Other(s)][p]] = "black"
    /\ t = tree \/ t.color[p] = "red"

LEMMA BlackSibling ==
    ASSUME NEW bh, NEW p, NEW s, NEW c \in members \cup {Nil},
           Short(tree, members, bh, p, s, c)
    PROVE  BlackBeside(WithBlackSibling(s, p), p, s, c)
<1> DEFINE o == Other(s)
           w == tree.child[o][p]
           t == WithBlackSibling(s, p)
<1>1. /\ Placed(tree, members) /\ Leveled(tree, members, bh, p, s) /\ Reds(tree, members, {}, {})
      /\ tree.color[tree.root] = "black" /\ tree.color[c] = "black" /\ c # tree.root
      /\ p \in members /\ s \in Side /\ tree.child[s][p] = c /\ tree.parent[c] = p
      /\ Shaped(tree, members) /\ o \in Side /\ o # s
  BY PlacedShape, Sides DEF Short
<1>2. w \in members /\ members \subseteq Node /\ Nil \notin members /\ tree \in Trees
  <2>1. HasSibling(tree, members, bh, p, s)
    BY <1>1, SiblingThere, Zenon
  <2> QED
    BY <1>1, <2>1 DEF Shaped, HasSibling
<1>3. CASE tree.color[w] = "black"
  <2>1. t = tree
    BY <1>3 DEF WithBlackSibling
  <2> QED
    BY <1>3, <2>1 DEF BlackBeside
<1>4. CASE tree.color[w] = "red"
  <2> DEFINE u == SwapRotated(tree, s, p)
  <2>1. t = u
    BY <1>4 DEF WithBlackSibling, SwapRotated
  <2> HIDE DEF u, t
  <2>2. /\ Moved(tree, u, members, s, p) /\ Swapped(tree, u, members, s, p)
        /\ Placed(u, members)
    BY <1>1, <1>2, SwapTurned DEF u
  <2>3. tree.color[p] = "black" /\ tree.color[tree.child[s][w]] = "black"
    <3>1. tree.color[p] # "red" /\ tree.color[tree.child[s][w]] # "red"
      BY <1>1, <1>2, <1>4 DEF Reds
    <3>2. tree.child[s][w] \in Node \cup {Nil} /\ p \in Node
      BY <1>1, <1>2 DEF Shaped
    <3> QED
      BY <1>2, <3>1, <3>2 DEF Trees
  <2>4. SwapAllowed(tree, s, p, p, s)
    BY <1>1, <1>4, <2>2, <2>3 DEF SwapAllowed, Moved
  <2>5. PICK b : Leveled(u, members, b, p, s)
    BY <1>1, <2>2, <2>4, SwappedLevels, Zenon
  <2>6. Reds(u, members, {}, {})
    <3>1. Reds(tree, members, {w}, {})
      BY <1>1 DEF Reds
    <3>2. tree.color[Nil] = "black"
      BY <1>1 DEF Leveled
    <3> QED
      BY <1>1, <2>2, <2>3, <3>1, <3>2, SwappedReds, Zenon
  <2>7. \A k \in members \cup {Nil} : u.color[k] = IF k = w THEN "black"
                                           ELSE IF k = p THEN "red" ELSE tree.color[k]
    BY <2>2 DEF Swapped
  <2>8. /\ w \in members \ {p}
        /\ u.root = IF p = tree.root THEN w ELSE tree.root
        /\ u.child[s][p] = c /\ u.child[o][p] = tree.child[s][w]
        /\ \A m \in members \cup {Nil} :
              u.parent[m] = IF m = p THEN w ELSE IF m = w THEN tree.parent[p]
                            ELSE IF m = tree.child[s][w] /\ m # Nil THEN p ELSE tree.parent[m]
    BY <1>1, <2>2 DEF Moved
  <2>9. c # p /\ c # w
    <3>1. HasSibling(tree, members, bh, p, s)
      BY <1>1, SiblingThere, Zenon
    <3> QED
      BY <1>1, <1>2, <3>1 DEF Shaped, Separate, HasSibling
  <2>10. u.parent[c] = p
    BY <1>1, <1>2, <2>8, <2>9 DEF Shaped
  <2>11. tree.root \in members
    BY <1>1 DEF Shaped
  <2>12. u.color[u.root] = "black" /\ u.color[c] = "black" /\ c # u.root
    BY <1>1, <1>2, <2>7, <2>8, <2>9, <2>11
  <2>13. Short(u, members, b, p, s, c)
    BY <1>1, <2>2, <2>5, <2>6, <2>8, <2>10, <2>12 DEF Short
  <2>14. u.color[u.child[o][p]] = "black"
    <3>1. Shaped(u, members)
      BY <2>2, PlacedShape
    <3>2. tree.child[s][w] \in (members \cup {Nil}) \ {p, w}
      BY <2>2 DEF Moved
    <3> QED
      BY <2>3, <2>7, <2>8, <3>2
  <2> QED
    <3>1. u.color[p] = "red"
      BY <1>1, <2>7, <2>8
    <3> QED
      BY <2>1, <2>13, <2>14, <3>1 DEF t, BlackBeside
<1>5. tree.color[w] \in {"red", "black"}
  BY <1>2 DEF Trees
<1> QED
  BY <1>3, <1>4, <1>5

\* A black node with black children becomes red, and the hole moves up.
LEMMA MoveUpKeeps ==
    ASSUME NEW t, NEW M, NEW bh, NEW p, NEW s, NEW c \in M \cup {Nil}, Short(t, M, bh, p, s, c),
           NEW w, w = t.child[Other(s)][p], t.color[w] = "black",
           \A y \in Side : t.color[t.child[y][w]] = "black"
    PROVE  TreeInv(Painted(t, w, "red"), M, "delete", p)
<1> DEFINE o == Other(s)
           u == Painted(t, w, "red")
           q == IF p = t.root THEN Nil ELSE t.parent[p]
           side == SideOf(t, p)
           b0 == [bh EXCEPT ![w] = bh[w] - 1]
           b == [b0 EXCEPT ![p] = bh[p] - 1]
<1>1. /\ Placed(t, M) /\ Leveled(t, M, bh, p, s) /\ Reds(t, M, {}, {})
      /\ t.color[t.root] = "black" /\ p \in M /\ s \in Side /\ t.child[s][p] = c
      /\ Shaped(t, M) /\ o \in Side /\ o # s /\ \A y \in Side : y = s \/ y = o
  BY PlacedShape, Sides DEF Short
<1>2. /\ M \subseteq Node /\ Nil \notin M /\ t.root \in M
      /\ \A m \in M, y \in Side : t.child[y][m] \in M \cup {Nil}
  BY <1>1 DEF Shaped
<1>3. /\ w \in M /\ w # c /\ bh[w] = bh[c] + 1 /\ bh[p] = bh[c] + 1 + Dark(t, p)
  <2>1. HasSibling(t, M, bh, p, s)
    BY <1>1, SiblingThere, Zenon
  <2> QED
    BY <1>1, <2>1 DEF HasSibling
<1>4. /\ \A m \in M, y \in Side : /\ t.child[y][m] = w => m = p /\ y = o
                                  /\ t.child[y][m] = p => m = q /\ y = side
      /\ w # p /\ w # t.root /\ \A y \in Side : t.child[y][p] # p /\ t.child[y][w] # w
      /\ p # t.root => q \in M /\ q # p /\ side \in Side /\ t.child[side][q] = p
  BY <1>1, <1>2, <1>3, SMTT(30) DEF Shaped, Separate
<1>5. /\ bh \in Heights /\ \A k \in M \cup {Nil} : bh[k] \in Nat
      /\ bh[Nil] = 0 /\ t.color[Nil] = "black"
      /\ \A m \in M, y \in Side :
            bh[m] = bh[t.child[y][m]] + Lack(p, s, m, y) + Dark(t, m)
      /\ \A m : Dark(t, m) \in Nat
  BY <1>2 DEF Leveled, Short, Heights, Dark
<1>6. Placed(u, M) /\ ColorSets(t, u, w, "red")
  <2>1. w \in Node \cup {Nil} /\ "red" \in {"red", "black"}
    BY <1>2, <1>3
  <2> QED
    BY <1>1, <2>1, PaintedPlaced, Zenon
<1> HIDE DEF u
<1>7. /\ u.root = t.root /\ u.child = t.child /\ u.parent = t.parent
      /\ \A k \in M \cup {Nil} : u.color[k] = IF k = w THEN "red" ELSE t.color[k]
  BY <1>2, <1>6 DEF ColorSets
<1>8. /\ b \in Heights /\ b[w] = bh[w] - 1 /\ b[p] = bh[p] - 1
      /\ \A k \in (M \cup {Nil}) \ {w, p} : b[k] = bh[k]
  <2>1. bh[w] - 1 \in Nat /\ bh[p] - 1 \in Nat
    <3>1. bh[c] \in Nat /\ Dark(t, p) \in Nat
      BY <1>5
    <3> QED
      BY <1>3, <3>1
  <2>2. w \in Node \cup {Nil} /\ p \in Node \cup {Nil}
    BY <1>1, <1>2, <1>3
  <2>3. HeightSets(bh, b0, w, bh[w] - 1)
    BY <1>5, <2>1, <2>2, HeightSet, Zenon
  <2> HIDE DEF b0
  <2>4. HeightSets(b0, b, p, bh[p] - 1)
    <3>1. b0 \in Heights
      BY <2>3 DEF HeightSets
    <3> QED
      BY <2>1, <2>2, <3>1, HeightSet, Zenon
  <2> HIDE DEF b
  <2> QED
    BY <1>1, <1>2, <1>3, <1>4, <2>3, <2>4 DEF HeightSets
<1> HIDE DEF b, q, side, o
<1>9. /\ Dark(t, w) = 1 /\ Dark(u, w) = 0 /\ \A m \in M \ {w} : Dark(u, m) = Dark(t, m)
  BY <1>3, <1>7 DEF Dark
<1>10. ASSUME NEW m \in M, NEW y \in Side
       PROVE  b[m] = b[u.child[y][m]] + Lack(q, side, m, y) + Dark(u, m)
  <2> DEFINE d == t.child[y][m]
  <2>1. /\ bh[m] = bh[d] + Lack(p, s, m, y) + Dark(t, m) /\ d \in M \cup {Nil}
        /\ bh[d] \in Nat /\ bh[m] \in Nat /\ Dark(t, m) \in Nat /\ u.child[y][m] = d
    BY <1>2, <1>5, <1>7
  <2>2. CASE m = p
    <3>1. Lack(q, side, m, y) = 0 /\ Dark(u, m) = Dark(t, m) /\ b[m] = bh[m] - 1
      BY <1>1, <1>2, <1>4, <1>8, <1>9, <2>2 DEF Lack, q
    <3>2. CASE y = s
      <4>1. d = c /\ c # w /\ c # p
        BY <1>1, <1>3, <1>4, <2>2, <3>2
      <4>2. b[d] = bh[d] /\ Lack(p, s, m, y) = 1
        BY <1>8, <2>1, <2>2, <3>2, <4>1 DEF Lack
      <4> HIDE DEF d
      <4> QED
        BY <2>1, <3>1, <4>2
    <3>3. CASE y = o
      <4>1. b[d] = bh[d] - 1 /\ Lack(p, s, m, y) = 0
        BY <1>1, <1>8, <2>2, <3>3 DEF Lack, o
      <4> HIDE DEF d
      <4> QED
        BY <2>1, <3>1, <4>1
    <3> QED
      BY <1>1, <3>2, <3>3
  <2>3. CASE m = w
    <3>1. Lack(p, s, m, y) = 0 /\ Dark(u, m) = 0 /\ Dark(t, m) = 1 /\ b[m] = bh[m] - 1
      BY <1>4, <1>8, <1>9, <2>3 DEF Lack
    <3>2. d # p
      <4>1. t.child[o][p] = w
        BY DEF o
      <4> QED
        BY <1>1, <1>3, <2>3, <4>1 DEF Shaped, Separate
    <3>3. d # w
      BY <1>4, <2>3
    <3>4. b[d] = bh[d] /\ Lack(q, side, m, y) = 0
      <4>1. Lack(q, side, m, y) = 0
        BY <1>2, <1>4, <2>3, <3>2 DEF Lack, q
      <4> QED
        BY <1>8, <2>1, <3>2, <3>3, <4>1
    <3> HIDE DEF d
    <3> QED
      BY <2>1, <3>1, <3>4
  <2>4. CASE m # p /\ m # w
    <3>1. Lack(p, s, m, y) = 0 /\ Dark(u, m) = Dark(t, m) /\ b[m] = bh[m] /\ d # w
      BY <1>4, <1>8, <1>9, <2>4 DEF Lack
    <3>2. CASE d = p
      <4>1. Lack(q, side, m, y) = 1 /\ b[d] = bh[d] - 1
        BY <1>4, <1>8, <3>2 DEF Lack
      <4> HIDE DEF d
      <4> QED
        BY <2>1, <3>1, <4>1
    <3>3. CASE d # p
      <4>1. Lack(q, side, m, y) = 0
        BY <1>2, <1>4, <3>3 DEF Lack, q
      <4>2. b[d] = bh[d]
        BY <1>8, <2>1, <3>1, <3>3
      <4> HIDE DEF d
      <4> QED
        BY <2>1, <3>1, <4>1, <4>2
    <3> QED
      BY <3>2, <3>3
  <2> QED
    BY <2>2, <2>3, <2>4
<1>11. b[Nil] = 0 /\ u.color[Nil] = "black"
  BY <1>1, <1>2, <1>3, <1>5, <1>7, <1>8
<1>12. Leveled(u, M, b, q, side)
  BY <1>8, <1>10, <1>11 DEF Leveled
<1>13. Reds(u, M, {p}, {p})
  <2>1. ASSUME NEW m \in M, NEW y \in Side, m # p, u.color[m] = "red",
               u.color[t.child[y][m]] = "red"
        PROVE  FALSE
    <3>1. t.child[y][m] # w
      BY <1>4, <2>1
    <3>2. m # w
      BY <1>2, <1>7, <2>1, <3>1
    <3> QED
      BY <1>1, <1>2, <1>7, <2>1, <3>1, <3>2 DEF Reds
  <2> QED
    BY <1>7, <2>1 DEF Reds
<1>14. /\ RootColored(u, "delete", p) /\ RedsOf(u, M, "delete", p)
       /\ HangsBelow(u, M, "delete", p, q, side)
  BY <1>1, <1>2, <1>4, <1>7, <1>13 DEF RootColored, RedsOf, HangsBelow, q
<1>15. TreeInv(u, M, "delete", p)
  <2>1. \E bhx, hp, hsx : /\ Leveled(u, M, bhx, hp, hsx)
                          /\ HangsBelow(u, M, "delete", p, hp, hsx)
    BY <1>12, <1>14
  <2>2. p \in Node \cup {Nil}
    BY <1>1, <1>2
  <2> QED
    BY <1>6, <1>14, <2>1, <2>2 DEF TreeInv
<1> QED
  BY <1>15 DEF u

\* The last rotation: the sibling w takes the place and the color of p, and p
\* and the red outer nephew become black.
BorrowColors(t, t3, M, p, w, out) ==
    /\ t3.root = t.root /\ t3.child = t.child /\ t3.parent = t.parent
    /\ \A k \in M \cup {Nil} :
          t3.color[k] = IF k = p \/ k = out THEN "black"
                        ELSE IF k = w THEN t.color[p] ELSE t.color[k]

LEMMA BorrowPainted ==
    ASSUME NEW t, NEW M, Placed(t, M), NEW s \in Side, NEW p \in M, NEW w \in M, w # p,
           t.child[s][w] \in M
    PROVE  LET t2 == Painted(Painted(t, w, t.color[p]), p, "black")
               t3 == Painted(t2, t2.child[s][w], "black")
           IN Placed(t3, M) /\ BorrowColors(t, t3, M, p, w, t.child[s][w])
<1> DEFINE out == t.child[s][w]
           t1 == Painted(t, w, t.color[p])
           t2 == Painted(t1, p, "black")
           t3 == Painted(t2, t2.child[s][w], "black")
<1>1. M \subseteq Node /\ Nil \notin M /\ t \in Trees
  BY PlacedShape DEF Shaped
<1>2. Placed(t1, M) /\ ColorSets(t, t1, w, t.color[p])
  <2>1. w \in Node \cup {Nil} /\ t.color[p] \in {"red", "black"}
    BY <1>1 DEF Trees
  <2> QED
    BY <2>1, PaintedPlaced, Zenon
<1> HIDE DEF t1
<1>3. Placed(t2, M) /\ ColorSets(t1, t2, p, "black")
  <2>1. p \in Node \cup {Nil} /\ "black" \in {"red", "black"}
    BY <1>1
  <2> QED
    BY <1>2, <2>1, PaintedPlaced, Zenon
<1> HIDE DEF t2
<1>4. t2.child[s][w] = out
  BY <1>2, <1>3 DEF ColorSets
<1>5. Placed(t3, M) /\ ColorSets(t2, t3, out, "black")
  <2>1. out \in Node \cup {Nil} /\ "black" \in {"red", "black"}
    BY <1>1
  <2> HIDE DEF out
  <2> QED
    BY <1>3, <1>4, <2>1, PaintedPlaced, Zenon
<1> HIDE DEF t3
<1>6. BorrowColors(t, t3, M, p, w, out)
  BY <1>1, <1>2, <1>3, <1>5 DEF ColorSets, BorrowColors
<1> QED
  BY <1>5, <1>6 DEF t3, t2, t1

LEMMA BorrowTurned ==
    ASSUME NEW t, NEW M, NEW bh, NEW p, NEW s, NEW c \in M \cup {Nil}, Short(t, M, bh, p, s, c),
           NEW w, w = t.child[Other(s)][p], t.color[w] = "black",
           t.color[t.child[Other(s)][w]] = "red",
           NEW t3, Placed(t3, M), BorrowColors(t, t3, M, p, w, t.child[Other(s)][w])
    PROVE  TreeInv(Rotated(t3, s, p), M, "delete", Rotated(t3, s, p).root)
<1> DEFINE o == Other(s)
           u == Rotated(t3, s, p)
           out == t.child[o][w]
           middle == t.child[s][w]
           b0 == [bh EXCEPT ![p] = bh[c] + 1]
           b1 == [b0 EXCEPT ![out] = bh[c] + 1]
           b == [b1 EXCEPT ![w] = bh[p]]
<1>1. /\ Placed(t, M) /\ Leveled(t, M, bh, p, s) /\ Reds(t, M, {}, {})
      /\ t.color[t.root] = "black" /\ p \in M /\ s \in Side /\ t.child[s][p] = c
      /\ Shaped(t, M) /\ o \in Side /\ o # s /\ \A y \in Side : y = s \/ y = o
  BY PlacedShape, Sides DEF Short
<1>2. /\ M \subseteq Node /\ Nil \notin M /\ t.root \in M /\ t \in Trees
      /\ \A m \in M, y \in Side : t.child[y][m] \in M \cup {Nil}
  BY <1>1 DEF Shaped
<1>3. /\ w \in M /\ w # c /\ bh[w] = bh[c] + 1 /\ bh[p] = bh[c] + 1 + Dark(t, p)
  <2>1. HasSibling(t, M, bh, p, s)
    BY <1>1, SiblingThere, Zenon
  <2> QED
    BY <1>1, <2>1 DEF HasSibling
<1>4. /\ bh \in Heights /\ \A k \in M \cup {Nil} : bh[k] \in Nat
      /\ bh[Nil] = 0 /\ t.color[Nil] = "black"
      /\ \A m \in M, y \in Side :
            bh[m] = bh[t.child[y][m]] + Lack(p, s, m, y) + Dark(t, m)
      /\ \A m : Dark(t, m) \in Nat
  BY <1>2 DEF Leveled, Short, Heights, Dark
<1>5. /\ out \in M \ {p, w} /\ middle \in (M \cup {Nil}) \ {p, w, out} /\ w # p
      /\ c \notin {p, w, out}
      /\ \A m \in M, y \in Side : t.child[y][m] = out => m = w /\ y = o
  <2>1. out \in M
    BY <1>1, <1>2, <1>3, <1>4
  <2>2. /\ \A m, n \in M, y, z \in Side :
              t.child[y][m] = t.child[z][n] /\ t.child[y][m] \in M => m = n /\ y = z
    BY <1>1 DEF Shaped, Separate
  <2>3. \A m \in M, y \in Side : t.child[y][m] = out => m = w /\ y = o
    BY <1>1, <1>3, <2>1, <2>2
  <2>4. /\ \A m \in M, y \in Side : t.child[y][m] # m
        /\ \A n, m \in M, y, z \in Side : t.child[y][n] = m => t.child[z][m] # n
    BY <1>1 DEF Shaped, Separate
  <2>5. w # p /\ out # w /\ middle # w /\ out # p /\ middle # p
    BY <1>1, <1>3, <2>4
  <2>6. middle # out
    BY <1>1, <1>3, <2>3
  <2>7. c # p /\ c # w /\ c # out
    BY <1>1, <1>3, <2>3, <2>4, <2>5
  <2>8. middle \in M \cup {Nil}
    BY <1>1, <1>2, <1>3
  <2> HIDE DEF o, out, middle
  <2> QED
    BY <2>1, <2>3, <2>5, <2>6, <2>7, <2>8
<1>6. Turned(t3, u, M, s, p) /\ Placed(u, M)
  <2>1. t3.child[Other(s)][p] \in M
    BY <1>3 DEF BorrowColors
  <2> QED
    BY <1>1, <2>1, RotationTurned, Zenon
<1> HIDE DEF u
<1>7. /\ u.root = IF p = t.root THEN w ELSE t.root
      /\ \A z \in Side, m \in M :
            u.child[z][m] = IF m = p /\ z = o THEN middle
                            ELSE IF m = w /\ z = s THEN p
                            ELSE IF t.child[z][m] = p THEN w
                            ELSE t.child[z][m]
      /\ \A z \in Side, m \in M : /\ t.child[z][m] = w => m = p /\ z = o
                                  /\ t.child[z][m] = middle /\ middle # Nil => m = w /\ z = s
                                  /\ t.child[z][m] = p => m # p /\ m # w
  <2>1. t3.root = t.root /\ t3.child = t.child
    BY DEF BorrowColors
  <2> HIDE DEF out
  <2> QED
    BY <1>6, <2>1, TurnedPlaces
<1>8. \A k \in M \cup {Nil} :
         u.color[k] = IF k = p \/ k = out THEN "black"
                      ELSE IF k = w THEN t.color[p] ELSE t.color[k]
  BY <1>6 DEF BorrowColors, Turned
<1>9. /\ b \in Heights /\ b[p] = bh[c] + 1 /\ b[out] = bh[c] + 1 /\ b[w] = bh[p]
      /\ \A k \in (M \cup {Nil}) \ {w, p, out} : b[k] = bh[k]
  <2>1. bh[c] + 1 \in Nat /\ bh[p] \in Nat
    BY <1>1, <1>4
  <2>2. w \in Node \cup {Nil} /\ p \in Node \cup {Nil} /\ out \in Node \cup {Nil}
    BY <1>1, <1>2, <1>3, <1>5
  <2> HIDE DEF out
  <2>3. HeightSets(bh, b0, p, bh[c] + 1)
    BY <1>4, <2>1, <2>2, HeightSet, Zenon
  <2> HIDE DEF b0
  <2>4. HeightSets(b0, b1, out, bh[c] + 1)
    <3>1. b0 \in Heights
      BY <2>3 DEF HeightSets
    <3> QED
      BY <2>1, <2>2, <3>1, HeightSet, Zenon
  <2> HIDE DEF b1
  <2>5. HeightSets(b1, b, w, bh[p])
    <3>1. b1 \in Heights
      BY <2>4 DEF HeightSets
    <3> QED
      BY <2>1, <2>2, <3>1, HeightSet, Zenon
  <2> HIDE DEF b
  <2> QED
    BY <1>1, <1>2, <1>3, <1>5, <2>3, <2>4, <2>5 DEF HeightSets
<1> HIDE DEF b
<1>10. /\ Dark(t, w) = 1 /\ Dark(t, out) = 0 /\ Dark(u, w) = Dark(t, p)
       /\ Dark(u, p) = 1 /\ Dark(u, out) = 1
       /\ \A m \in M \ {w, p, out} : Dark(u, m) = Dark(t, m)
  BY <1>1, <1>3, <1>5, <1>8 DEF Dark
<1>11. bh[out] = bh[c] /\ bh[middle] = bh[c]
  <2>1. bh[w] = bh[out] + Lack(p, s, w, o) + Dark(t, w) /\ Lack(p, s, w, o) = 0 /\ bh[out] \in Nat
    BY <1>1, <1>3, <1>4, <1>5 DEF Lack
  <2>2. /\ bh[w] = bh[middle] + Lack(p, s, w, s) + Dark(t, w) /\ Lack(p, s, w, s) = 0
        /\ bh[middle] \in Nat
    BY <1>1, <1>3, <1>4, <1>5 DEF Lack
  <2>3. bh[c] \in Nat
    BY <1>4
  <2>4. bh[w] = bh[c] + 1 /\ Dark(t, w) = 1
    BY <1>3, <1>10
  <2> HIDE DEF o, out, middle
  <2> QED
    BY <2>1, <2>2, <2>3, <2>4
<1>a. bh[c] \in Nat /\ bh[p] \in Nat /\ Dark(t, p) \in Nat
  BY <1>1, <1>4
<1>b. t.child[o][p] = w /\ t.child[o][w] = out /\ t.child[s][w] = middle
  OBVIOUS
<1> HIDE DEF o, out, middle
<1>12. ASSUME NEW m \in M, NEW y \in Side
       PROVE  b[m] = b[u.child[y][m]] + Lack(Nil, s, m, y) + Dark(u, m)
  <2> DEFINE d == t.child[y][m]
  <2>1. Lack(Nil, s, m, y) = 0
    BY <1>2 DEF Lack
  <2>2. CASE m = p /\ y = o
    <3>1. u.child[y][m] = middle /\ b[middle] = bh[c] /\ b[m] = bh[c] + 1 /\ Dark(u, m) = 1
      BY <1>1, <1>5, <1>7, <1>9, <1>10, <1>11, <2>2
    <3> QED
      BY <1>a, <2>1, <3>1
  <2>3. CASE m = p /\ y = s
    <3>1. u.child[y][m] = c /\ b[c] = bh[c] /\ b[m] = bh[c] + 1 /\ Dark(u, m) = 1
      BY <1>1, <1>5, <1>7, <1>9, <1>10, <2>3
    <3> QED
      BY <1>a, <2>1, <3>1
  <2>4. CASE m = w /\ y = s
    <3>1. /\ u.child[y][m] = p /\ b[p] = bh[c] + 1 /\ b[m] = bh[p] /\ Dark(u, m) = Dark(t, p)
      BY <1>1, <1>5, <1>7, <1>9, <1>10, <2>4
    <3> QED
      BY <1>3, <1>a, <2>1, <3>1
  <2>5. CASE m = w /\ y = o
    <3>1. /\ u.child[y][m] = out /\ b[out] = bh[c] + 1 /\ b[m] = bh[p] /\ Dark(u, m) = Dark(t, p)
      BY <1>1, <1>5, <1>7, <1>9, <1>10, <1>b, <2>5
    <3> QED
      BY <1>3, <1>a, <2>1, <3>1
  <2>6. CASE m \notin {p, w}
    <3>1. /\ bh[m] = bh[d] + Dark(t, m) /\ bh[m] \in Nat /\ bh[d] \in Nat /\ d \in M \cup {Nil}
          /\ Dark(t, m) \in Nat
      <4>1. Lack(p, s, m, y) = 0
        BY <2>6 DEF Lack
      <4>2. bh[m] = bh[d] + Lack(p, s, m, y) + Dark(t, m) /\ d \in M \cup {Nil}
        BY <1>2, <1>4
      <4>3. bh[d] \in Nat /\ bh[m] \in Nat /\ Dark(t, m) \in Nat
        BY <1>4, <4>2
      <4> HIDE DEF d
      <4> QED
        BY <4>1, <4>2, <4>3
    <3>2. d # w /\ d # out /\ u.child[y][m] = IF d = p THEN w ELSE d
      BY <1>5, <1>7, <2>6
    <3>3. b[u.child[y][m]] = bh[d]
      BY <1>9, <3>1, <3>2
    <3>4. CASE m = out
      <4>1. b[m] = bh[c] + 1 /\ bh[m] = bh[c] /\ Dark(t, m) = 0 /\ Dark(u, m) = 1
        BY <1>9, <1>10, <1>11, <3>4
      <4> HIDE DEF d
      <4> QED
        BY <2>1, <3>1, <3>3, <4>1
    <3>5. CASE m # out
      <4>1. b[m] = bh[m] /\ Dark(u, m) = Dark(t, m)
        BY <1>9, <1>10, <2>6, <3>5
      <4> HIDE DEF d
      <4> QED
        BY <2>1, <3>1, <3>3, <4>1
    <3> QED
      BY <3>4, <3>5
  <2> QED
    BY <1>1, <2>2, <2>3, <2>4, <2>5, <2>6
<1>13. b[Nil] = 0 /\ u.color[Nil] = "black"
  BY <1>1, <1>2, <1>3, <1>4, <1>5, <1>8, <1>9
<1>14. Leveled(u, M, b, Nil, s)
  BY <1>9, <1>12, <1>13 DEF Leveled
<1>15. Reds(u, M, {}, {})
  <2>1. ASSUME NEW m \in M, NEW y \in Side, u.color[m] = "red",
               u.color[u.child[y][m]] = "red"
        PROVE  FALSE
    <3>1. m # p /\ m # out
      BY <1>8, <2>1
    <3>2. CASE m = w
      <4>1. u.child[y][m] = p \/ u.child[y][m] = out
        <5>1. CASE y = s
          BY <1>7, <3>2, <5>1
        <5>2. CASE y = o
          <6>1. t.child[y][m] = out /\ m # p /\ y # s
            BY <1>1, <1>5, <1>b, <3>2, <5>2
          <6> QED
            BY <1>7, <3>2, <6>1
        <5> QED
          BY <1>1, <5>1, <5>2
      <4> QED
        BY <1>1, <1>5, <1>8, <2>1, <4>1
    <3>3. CASE m # w
      <4>1. t.color[m] = "red" /\ t.child[y][m] # w /\ t.child[y][m] # out
            /\ t.child[y][m] \in M \cup {Nil}
        BY <1>2, <1>5, <1>7, <1>8, <2>1, <3>1, <3>3
      <4>2. u.child[y][m] = IF t.child[y][m] = p THEN w ELSE t.child[y][m]
        BY <1>7, <3>1, <3>3
      <4>3. t.color[t.child[y][m]] = "red"
        BY <1>3, <1>5, <1>8, <2>1, <4>1, <4>2
      <4> QED
        BY <1>1, <4>1, <4>3 DEF Reds
    <3> QED
      BY <3>2, <3>3
  <2> QED
    BY <2>1 DEF Reds
<1>c. w # t.root /\ out # t.root
  <2>1. \A m \in M, y \in Side : t.child[y][m] # t.root
    BY <1>1, <1>2 DEF Shaped, Separate
  <2> QED
    BY <1>1, <1>3, <1>b, <2>1
<1>16. u.root \in M /\ u.color[u.root] = "black"
  <2>1. CASE p = t.root
    <3>1. u.root = w /\ u.color[w] = t.color[p] /\ t.color[p] = "black"
      BY <1>1, <1>3, <1>5, <1>7, <1>8, <2>1
    <3> QED
      BY <1>3, <3>1
  <2>2. CASE p # t.root
    <3>1. u.root = t.root /\ u.color[t.root] = t.color[t.root]
      BY <1>2, <1>7, <1>8, <1>c, <2>2
    <3> QED
      BY <1>1, <1>2, <3>1
  <2> QED
    BY <2>1, <2>2
<1>17. /\ RootColored(u, "delete", u.root) /\ RedsOf(u, M, "delete", u.root)
       /\ HangsBelow(u, M, "delete", u.root, Nil, s)
  BY <1>15, <1>16 DEF RootColored, RedsOf, HangsBelow, Reds
<1>18. TreeInv(u, M, "delete", u.root)
  <2>1. \E bhx, hp, hsx : /\ Leveled(u, M, bhx, hp, hsx)
                          /\ HangsBelow(u, M, "delete", u.root, hp, hsx)
    BY <1>14, <1>17
  <2>2. u.root \in Node \cup {Nil}
    BY <1>2, <1>16
  <2> QED
    BY <1>6, <1>17, <2>1, <2>2 DEF TreeInv
<1> QED
  BY <1>18 DEF u

LastTurn(t, s, p, w) ==
    LET t2 == Painted(Painted(t, w, t.color[p]), p, "black")
    IN Rotated(Painted(t2, t2.child[Other(s)][w], "black"), s, p)

LEMMA BorrowOuter ==
    ASSUME NEW t, NEW M, NEW bh, NEW p, NEW s, NEW c \in M \cup {Nil}, Short(t, M, bh, p, s, c),
           NEW w, w = t.child[Other(s)][p], t.color[w] = "black",
           t.color[t.child[Other(s)][w]] = "red"
    PROVE  TreeInv(LastTurn(t, s, p, w), M, "delete", LastTurn(t, s, p, w).root)
<1> DEFINE o == Other(s)
           t2 == Painted(Painted(t, w, t.color[p]), p, "black")
           t3 == Painted(t2, t2.child[o][w], "black")
<1>1. /\ Placed(t, M) /\ Shaped(t, M) /\ Leveled(t, M, bh, p, s) /\ p \in M /\ s \in Side
      /\ o \in Side
  BY PlacedShape, Sides DEF Short
<1>2. w \in M /\ w # p
  <2>1. HasSibling(t, M, bh, p, s)
    BY <1>1, SiblingThere, Zenon
  <2> QED
    BY <1>1, <2>1 DEF HasSibling, Shaped, Separate
<1>3. t.child[o][w] \in M
  <2>1. t.child[o][w] \in M \cup {Nil} /\ t.color[Nil] = "black"
    BY <1>1, <1>2 DEF Shaped, Leveled
  <2> QED
    BY <2>1
<1>4. Placed(t3, M) /\ BorrowColors(t, t3, M, p, w, t.child[o][w])
  BY <1>1, <1>2, <1>3, BorrowPainted, Zenon
<1>5. LastTurn(t, s, p, w) = Rotated(t3, s, p)
  BY DEF LastTurn
<1> HIDE DEF t3
<1>6. TreeInv(Rotated(t3, s, p), M, "delete", Rotated(t3, s, p).root)
  BY <1>4, BorrowTurned, Zenon DEF o
<1> QED
  BY <1>5, <1>6

\* The rotation before it, where only the inner nephew is red.
InnerTurned(t, u, M, p, s, c, w) ==
    /\ \E b : Short(u, M, b, p, s, c)
    /\ u.child[Other(s)][p] = t.child[s][w] /\ u.color[t.child[s][w]] = "black"
    /\ u.child[Other(s)][t.child[s][w]] = w /\ u.color[w] = "red"

LEMMA BorrowInner ==
    ASSUME NEW t, NEW M, NEW bh, NEW p, NEW s, NEW c \in M \cup {Nil}, Short(t, M, bh, p, s, c),
           NEW w, w = t.child[Other(s)][p], t.color[w] = "black",
           t.color[t.child[Other(s)][w]] = "black", t.color[t.child[s][w]] = "red"
    PROVE  InnerTurned(t, SwapRotated(t, Other(s), w), M, p, s, c, w)
<1> DEFINE o == Other(s)
           inner == t.child[s][w]
           middle == t.child[o][inner]
           u == SwapRotated(t, o, w)
<1>1. /\ Placed(t, M) /\ Leveled(t, M, bh, p, s) /\ Reds(t, M, {}, {})
      /\ t.color[t.root] = "black" /\ t.color[c] = "black" /\ c # t.root
      /\ p \in M /\ s \in Side /\ t.child[s][p] = c /\ t.parent[c] = p
      /\ Shaped(t, M) /\ o \in Side /\ o # s /\ Other(o) = s /\ t.child[o][p] = w
  BY PlacedShape, Sides DEF Short
<1>2. /\ Nil \notin M /\ t.color[Nil] = "black" /\ t.root \in M
      /\ \A m \in M, y \in Side : t.child[y][m] \in M \cup {Nil}
  BY <1>1 DEF Shaped, Leveled
<1>3. w \in M /\ w # c
  <2>1. HasSibling(t, M, bh, p, s)
    BY <1>1, SiblingThere, Zenon
  <2> QED
    BY <1>1, <2>1 DEF HasSibling
<1>4. inner \in M
  BY <1>1, <1>2, <1>3
<1>5. /\ w # p /\ inner # p /\ w # t.root /\ inner # t.root /\ c # inner /\ p # c
  BY <1>1, <1>2, <1>3, <1>4 DEF Shaped, Separate
<1>6. Moved(t, u, M, o, w) /\ Swapped(t, u, M, o, w) /\ Placed(u, M)
  <2>1. t.child[Other(o)][w] \in M
    BY <1>1, <1>4
  <2> QED
    BY <1>1, <1>3, <2>1, SwapTurned, Zenon
<1> HIDE DEF u
<1>7. PICK b : Leveled(u, M, b, p, s)
  <2>1. SwapAllowed(t, o, w, p, s)
    BY <1>1, <1>5 DEF SwapAllowed
  <2> QED
    BY <1>1, <1>3, <1>6, <2>1, SwappedLevels, Zenon
<1>8. t.color[middle] = "black"
  <2>1. middle \in M \cup {Nil} /\ t.color[middle] # "red" /\ t \in Trees /\ M \subseteq Node
    BY <1>1, <1>2, <1>4 DEF Reds, Shaped
  <2> HIDE DEF middle
  <2> QED
    BY <2>1 DEF Trees
<1>9. Reds(u, M, {}, {})
  <2>1. Reds(t, M, {inner}, {})
    BY <1>1 DEF Reds
  <2>2. inner = t.child[Other(o)][w]
    BY <1>1
  <2>3. t.color[t.child[o][inner]] = "black" /\ t.color[t.child[o][w]] = "black"
    BY <1>8
  <2> HIDE DEF inner
  <2> QED
    BY <1>1, <1>2, <1>3, <1>6, <2>1, <2>2, <2>3, SwappedReds, Zenon
<1>10. /\ u.root = t.root /\ u.child[o][p] = inner /\ u.child[s][p] = c
       /\ u.child[o][inner] = w /\ u.parent[c] = p
  <2>1. /\ u.root = t.root
        /\ \A z \in Side, m \in M :
             u.child[z][m] = IF m = w /\ z = s THEN middle
                             ELSE IF m = inner /\ z = o THEN w
                             ELSE IF t.child[z][m] = w THEN inner
                             ELSE t.child[z][m]
        /\ \A m \in M \cup {Nil} :
             u.parent[m] = IF m = w THEN inner ELSE IF m = inner THEN t.parent[w]
                           ELSE IF m = middle /\ m # Nil THEN w ELSE t.parent[m]
        /\ \A z \in Side, m \in M : t.child[z][m] = middle /\ middle # Nil => m = inner /\ z = o
    <3> DEFINE e == Other(o)
    <3>1. e = s
      BY <1>1
    <3>2. /\ u.root = IF w = t.root THEN t.child[e][w] ELSE t.root
          /\ \A z \in Side, m \in M :
               u.child[z][m] = IF m = w /\ z = e THEN t.child[o][t.child[e][w]]
                               ELSE IF m = t.child[e][w] /\ z = o THEN w
                               ELSE IF t.child[z][m] = w THEN t.child[e][w]
                               ELSE t.child[z][m]
          /\ \A m \in M \cup {Nil} :
               u.parent[m] = IF m = w THEN t.child[e][w]
                             ELSE IF m = t.child[e][w] THEN t.parent[w]
                             ELSE IF m = t.child[o][t.child[e][w]] /\ m # Nil THEN w
                             ELSE t.parent[m]
          /\ \A z \in Side, m \in M :
               t.child[z][m] = t.child[o][t.child[e][w]] /\ t.child[o][t.child[e][w]] # Nil =>
                  m = t.child[e][w] /\ z = o
      BY <1>6, ZenonT(30) DEF Moved
    <3> HIDE DEF e
    <3>3. t.child[e][w] = inner /\ t.child[o][t.child[e][w]] = middle
      BY <3>1
    <3>4. w # t.root
      BY <1>5
    <3> HIDE DEF inner, middle, o
    <3> QED
      BY <3>1, <3>2, <3>3, <3>4
  <2>2. c = middle => c = Nil
    BY <1>1, <1>5, <2>1
  <2> HIDE DEF middle, inner
  <2>3. u.child[o][p] = inner /\ u.child[s][p] = c
    BY <1>1, <1>3, <1>5, <2>1
  <2>4. u.child[o][inner] = w
    BY <1>1, <1>4, <2>1
  <2>5. u.parent[c] = p
    BY <1>1, <1>3, <1>5, <2>1, <2>2
  <2> QED
    BY <2>1, <2>3, <2>4, <2>5
<1>11. /\ u.color[w] = "red" /\ u.color[inner] = "black" /\ u.color[t.root] = "black"
       /\ u.color[c] = "black"
  <2>1. \A k \in M \cup {Nil} : u.color[k] = IF k = inner THEN "black"
                                             ELSE IF k = w THEN "red" ELSE t.color[k]
    BY <1>1, <1>6 DEF Swapped
  <2>2. inner # w
    BY <1>1, <1>3 DEF Shaped, Separate
  <2> HIDE DEF inner
  <2> QED
    BY <1>1, <1>2, <1>3, <1>4, <1>5, <2>1, <2>2
<1>12. Short(u, M, b, p, s, c)
  BY <1>1, <1>6, <1>7, <1>9, <1>10, <1>11 DEF Short
<1> QED
  BY <1>10, <1>11, <1>12 DEF InnerTurned, u

LEMMA BorrowKeeps ==
    ASSUME NEW t, NEW bh, NEW p, NEW s, NEW c \in members \cup {Nil},
           Short(t, members, bh, p, s, c),
           NEW w, w = t.child[Other(s)][p], t.color[w] = "black", Borrow(t, s, w, p)
    PROVE  TreeInv(tree', members, "delete", cur')
<1> DEFINE o == Other(s)
           inner == t.child[s][w]
           u == SwapRotated(t, o, w)
<1>1. /\ Placed(t, members) /\ Leveled(t, members, bh, p, s) /\ p \in members /\ s \in Side
      /\ Shaped(t, members) /\ o \in Side /\ Other(o) = s /\ \A y \in Side : y = s \/ y = o
  BY PlacedShape, Sides DEF Short
<1>2. w \in members
  <2>1. HasSibling(t, members, bh, p, s)
    BY <1>1, SiblingThere, Zenon
  <2> QED
    BY <1>1, <2>1 DEF HasSibling
<1>3. t.color[t.child[o][w]] = "red" \/ (t.color[t.child[o][w]] = "black" /\ t.color[inner] = "red")
  <2>1. t.child[o][w] \in Node \cup {Nil} /\ t \in Trees
    BY <1>1, <1>2 DEF Shaped
  <2>2. t.color[t.child[o][w]] \in {"red", "black"}
    BY <2>1 DEF Trees
  <2>3. \E z \in Side : t.color[t.child[z][w]] = "red"
    BY DEF Borrow
  <2> QED
    BY <1>1, <2>2, <2>3
<1>4. CASE t.color[t.child[o][w]] = "red"
  <2>1. tree' = LastTurn(t, s, p, w) /\ cur' = tree'.root
    BY <1>1, <1>4, Zenon DEF Borrow, LastTurn
  <2>2. TreeInv(LastTurn(t, s, p, w), members, "delete", LastTurn(t, s, p, w).root)
    BY <1>4, BorrowOuter, Zenon DEF o
  <2> QED
    BY <2>1, <2>2
<1>5. CASE t.color[t.child[o][w]] = "black" /\ t.color[inner] = "red"
  <2>1. u = Rotated(Painted(Painted(t, inner, "black"), w, "red"), o, w)
    BY <1>1 DEF SwapRotated
  <2>2. tree' = LastTurn(u, s, p, u.child[o][p]) /\ cur' = tree'.root
    BY <1>5, <2>1, Zenon DEF Borrow, LastTurn
  <2> HIDE DEF u
  <2>3. InnerTurned(t, u, members, p, s, c, w)
    BY <1>5, BorrowInner, Zenon DEF u, o, inner
  <2>4. PICK b : Short(u, members, b, p, s, c)
    BY <2>3 DEF InnerTurned
  <2>5. u.color[u.child[o][p]] = "black" /\ u.color[u.child[o][u.child[o][p]]] = "red"
    BY <2>3 DEF InnerTurned
  <2> DEFINE v == u.child[o][p]
  <2>6. v = u.child[Other(s)][p] /\ u.color[v] = "black" /\ u.color[u.child[Other(s)][v]] = "red"
    BY <2>5
  <2> HIDE DEF v
  <2>7. TreeInv(LastTurn(u, s, p, v), members, "delete", LastTurn(u, s, p, v).root)
    BY <2>4, <2>6, BorrowOuter, Zenon
  <2> QED
    BY <2>2, <2>7 DEF v
<1> QED
  BY <1>3, <1>4, <1>5

(***************************************************************************)
(* The invariant holds in every state.                                     *)
(***************************************************************************)
LEMMA InsertFixKeeps ==
    ASSUME IInv, InsertFix
    PROVE  TreeInv(tree', members', loop', cur')
<1> DEFINE p == Parent(cur)
           g == Parent(p)
           s == SideOf(tree, p)
<1>1. /\ loop = "insert" /\ InsertFixes /\ members' = members /\ loop' = loop
      /\ Recolor(s, p, g) \/ Rotate(s, p, g)
  BY Zenon DEF InsertFix
<1>2. Grandparent(tree, members, cur, s, p, g)
  BY <1>1, InsertRound, Zenon
<1> HIDE DEF p, g, s
<1>3. TreeInv(tree', members, loop, cur')
  <2>1. CASE Recolor(s, p, g)
    BY <1>1, <1>2, <2>1, RecolorKeeps, Zenon
  <2>2. CASE Rotate(s, p, g)
    <3>1. Repaired(tree', members, cur')
      BY <1>1, <1>2, <2>2, RotateKeeps, Zenon
    <3> QED
      BY <1>1, <3>1 DEF Repaired
  <2> QED
    BY <1>1, <2>1, <2>2
<1> QED
  BY <1>1, <1>3

LEMMA DeleteFixKeeps ==
    ASSUME IInv, DeleteFix
    PROVE  TreeInv(tree', members', loop', cur')
<1> DEFINE p == Parent(cur)
           s == SideOf(tree, cur)
           t == WithBlackSibling(s, p)
           w == t.child[Other(s)][p]
<1>1. /\ loop = "delete" /\ DeleteFixes /\ members' = members /\ loop' = loop
      /\ MoveUp(t, w, p) \/ Borrow(t, s, w, p)
  BY Zenon DEF DeleteFix
<1>2. PICK bh : Short(tree, members, bh, p, s, cur)
  BY <1>1, DeleteRound, Zenon
<1>3. cur \in members \cup {Nil}
  <2>1. /\ Shaped(tree, members) /\ p \in members /\ s \in Side /\ tree.child[s][p] = cur
    BY <1>2, PlacedShape, Zenon DEF Short
  <2> HIDE DEF p, s
  <2> QED
    BY <2>1 DEF Shaped
<1>4. (\E b : Short(t, members, b, p, s, cur)) /\ t.color[w] = "black"
  <2>1. BlackBeside(t, p, s, cur)
    BY <1>2, <1>3, BlackSibling, Zenon
  <2> HIDE DEF t, p, s
  <2> QED
    BY <2>1 DEF BlackBeside
<1>5. PICK b : Short(t, members, b, p, s, cur)
  BY <1>4
<1>6. TreeInv(tree', members, "delete", cur')
  <2> HIDE DEF t, p, s
  <2>1. CASE MoveUp(t, w, p)
    <3>1. tree' = Painted(t, w, "red") /\ cur' = p
          /\ \A z \in Side : t.color[t.child[z][w]] = "black"
      BY <2>1, Zenon DEF MoveUp
    <3>2. TreeInv(Painted(t, w, "red"), members, "delete", p)
      BY <1>3, <1>4, <1>5, <3>1, MoveUpKeeps, Zenon
    <3> QED
      BY <3>1, <3>2
  <2>2. CASE Borrow(t, s, w, p)
    BY <1>3, <1>4, <1>5, <2>2, BorrowKeeps, Zenon
  <2> QED
    BY <1>1, <2>1, <2>2
<1> QED
  BY <1>1, <1>6

LEMMA InsertKeeps ==
    ASSUME IInv, NEW n \in Node, Insert(n)
    PROVE  TreeInv(tree', members', loop', cur')
<1>1. /\ loop = "idle" /\ n \notin members /\ members' = members \cup {n}
      /\ InsertFirst(n) \/ InsertBelow(n)
  BY DEF Insert
<1>2. TreeInv(tree', members \cup {n}, loop', cur')
  BY <1>1, InsertFirstKeeps, InsertBelowKeeps, Zenon
<1> QED
  BY <1>1, <1>2

LEMMA DeleteKeeps ==
    ASSUME IInv, NEW n \in Node, Delete(n)
    PROVE  TreeInv(tree', members', loop', cur')
<1>1. /\ loop = "idle" /\ n \in members /\ members' = members \ {n}
      /\ DeleteRoot(n) \/ DeleteBelow(n)
  BY DEF Delete
<1>2. TreeInv(tree', members \ {n}, loop', cur')
  BY <1>1, DeleteRootKeeps, UnlinkKeeps, ExchangeKeeps, Zenon
<1> QED
  BY <1>1, <1>2

\* The empty tree.
LEMMA InitPlaced ==
    ASSUME TreeInit
    PROVE  IInv
<1> DEFINE at == [m \in Node |-> 1]
           end == [y \in Side |-> [m \in Node |-> 1]]
           bh == [k \in Node \cup {Nil} |-> 0]
<1>1. /\ tree \in Trees /\ tree.root = Nil /\ tree.color[Nil] = "black"
      /\ members = {} /\ loop = "idle" /\ cur = Nil
  BY DEF TreeInit, Trees
<1>2. Placed(tree, members)
  <2>1. at \in Numbers /\ end \in Ends
    BY DEF Numbers, Ends
  <2> HIDE DEF at, end
  <2>2. Spanned(tree, {}, at, end) /\ Ranked(tree, {}, at, end)
    BY <1>1, <2>1 DEF Spanned, Ranked
  <2> QED
    BY <1>1, <2>2 DEF Placed, Numbered
<1>3. Leveled(tree, {}, bh, Nil, "left") /\ Reds(tree, {}, {}, {})
  BY <1>1 DEF Leveled, Heights, Reds
<1>4. TreeInv(tree, members, "idle", cur)
  <2>1. tree.color[tree.root] = "black" /\ cur \in Node \cup {Nil}
    BY <1>1
  <2>2. Leveled(tree, members, bh, Nil, "left") /\ Reds(tree, members, {}, {})
    BY <1>1, <1>3
  <2> HIDE DEF bh
  <2> QED
    BY <1>2, <2>1, <2>2, IdleKept, Zenon
<1> QED
  BY <1>1, <1>4 DEF IInv

LEMMA StepKeepsInv == IInv /\ [TreeNext]_treeVars => IInv'
<1> SUFFICES ASSUME IInv, [TreeNext]_treeVars
             PROVE  TreeInv(tree', members', loop', cur')
  BY DEF IInv
<1>1. CASE UNCHANGED treeVars
  <2>1. tree' = tree /\ members' = members /\ loop' = loop /\ cur' = cur
    BY <1>1 DEF treeVars
  <2> QED
    BY <2>1 DEF IInv
<1>2. CASE TreeNext
  <2>1. ASSUME NEW n \in Node, Insert(n) \/ Delete(n)
        PROVE  TreeInv(tree', members', loop', cur')
    BY <2>1, InsertKeeps, DeleteKeeps, Zenon
  <2>2. CASE InsertFix
    BY <2>2, InsertFixKeeps, Zenon
  <2>3. CASE InsertEnds
    BY <2>3, InsertEndsKeeps, Zenon
  <2>4. CASE DeleteFix
    BY <2>4, DeleteFixKeeps, Zenon
  <2>5. CASE DeleteEnds
    BY <2>5, DeleteEndsKeeps, Zenon
  <2> QED
    BY <1>2, <2>1, <2>2, <2>3, <2>4, <2>5, Zenon DEF TreeNext
<1> QED
  BY <1>1, <1>2

LEMMA TreeInvariant == TreeSpec => []IInv
<1>1. TreeInit => IInv
  BY InitPlaced
<1> QED
  BY <1>1, StepKeepsInv, PTL DEF TreeSpec

LEMMA InvTypes == IInv => TreeTypeOK
<1> SUFFICES ASSUME IInv PROVE TreeTypeOK
  OBVIOUS
<1>1. Shaped(tree, members)
  BY PlacedShape DEF IInv, TreeInv
<1>2. tree \in Trees /\ members \subseteq Node
  BY <1>1 DEF Shaped
<1> QED
  BY <1>2 DEF IInv, TreeInv, TreeTypeOK, Trees

(***************************************************************************)
(* The walk through the tree, in the order of the places.                  *)
(***************************************************************************)
LEMMA RangesInside ==
    ASSUME NEW t, NEW M, NEW at, NEW end, Spanned(t, M, at, end), Ranked(t, M, at, end),
           NEW n \in M
    PROVE  /\ 1 <= end["left"][n] /\ end["left"][n] <= at[n] /\ at[n] <= end["right"][n]
           /\ end["right"][n] <= end["right"][t.root]
           /\ end["left"][n] \in Int /\ at[n] \in Int /\ end["right"][n] \in Int
           /\ end["right"][t.root] \in Nat
<1> DEFINE N == end["right"][t.root]
           P == {m \in M : 1 <= end["left"][m] /\ end["right"][m] <= N}
<1>1. /\ Facts(t, M, at, end) /\ end["left"][t.root] = 1 /\ t.root \in M
      /\ "left" \in Side /\ "right" \in Side
  BY SpannedFacts DEF Ranked, Facts, Side
<1>2. \A m \in M : /\ end["left"][m] \in Int /\ end["right"][m] \in Int /\ at[m] \in Int
                   /\ end["left"][m] <= at[m] /\ at[m] <= end["right"][m]
                   /\ 1 <= at[m] /\ at[m] <= N
  BY <1>1 DEF Facts
<1>3. N \in Nat
  <2>1. N \in Int /\ at[t.root] \in Int /\ 1 <= at[t.root] /\ at[t.root] <= N
    BY <1>1, <1>2
  <2> QED
    BY <2>1
<1>4. \A m \in M, y \in Side :
         \/ t.child[y][m] \in M /\ end[y][t.child[y][m]] = end[y][m]
         \/ end[y][m] = at[m]
  BY <1>1 DEF Facts
<1>5. ASSUME NEW m \in M, \A y \in Side : t.child[y][m] \in M => t.child[y][m] \in P
      PROVE  m \in P
  <2>1. 1 <= end["left"][m]
    <3>1. CASE t.child["left"][m] \in M /\ end["left"][t.child["left"][m]] = end["left"][m]
      BY <1>1, <1>5, <3>1
    <3>2. CASE end["left"][m] = at[m]
      BY <1>2, <3>2
    <3> QED
      BY <1>1, <1>4, <3>1, <3>2
  <2>2. end["right"][m] <= N
    <3>1. CASE t.child["right"][m] \in M /\ end["right"][t.child["right"][m]] = end["right"][m]
      BY <1>1, <1>5, <3>1
    <3>2. CASE end["right"][m] = at[m]
      BY <1>2, <3>2
    <3> QED
      BY <1>1, <1>4, <3>1, <3>2
  <2> QED
    BY <2>1, <2>2
<1>6. M \subseteq P
  <2> HIDE DEF P
  <2> QED
    BY <1>5, TreeInduction, Zenon
<1> QED
  BY <1>2, <1>3, <1>6

\* The nodes in the order of their places.
Row(row, M, at, N) ==
    /\ N \in Nat /\ row \in Seq(M) /\ Len(row) = N
    /\ \A i \in 1 .. N : row[i] \in M /\ at[row[i]] = i
    /\ \A m \in M : at[m] \in 1 .. N /\ row[at[m]] = m

LEMMA RowFound ==
    ASSUME NEW t, NEW M, NEW at, NEW end, Spanned(t, M, at, end), Ranked(t, M, at, end), M # {}
    PROVE  \E row : Row(row, M, at, end["right"][t.root])
<1> DEFINE N == end["right"][t.root]
           row == [i \in 1 .. N |-> CHOOSE m \in M : at[m] = i]
<1>1. /\ \A i \in 1 .. N : \E m \in M : at[m] = i
      /\ \A n, m \in M : at[n] = at[m] => n = m
  BY DEF Ranked
<1>2. t.root \in M
  BY DEF Spanned
<1>3. N \in Nat /\ \A m \in M : at[m] \in 1 .. N
  <2>1. \A m \in M : /\ at[m] \in Int /\ 1 <= end["left"][m] /\ end["left"][m] <= at[m]
                     /\ at[m] <= end["right"][m] /\ end["right"][m] <= N
                     /\ end["left"][m] \in Int /\ end["right"][m] \in Int /\ N \in Nat
    BY RangesInside
  <2> HIDE DEF N
  <2> QED
    BY <1>2, <2>1
<1> HIDE DEF N
<1>4. \A i \in 1 .. N : row[i] \in M /\ at[row[i]] = i
  <2> SUFFICES ASSUME NEW i \in 1 .. N PROVE row[i] \in M /\ at[row[i]] = i
    OBVIOUS
  <2>1. \E m \in M : at[m] = i
    BY <1>1
  <2>2. row[i] = CHOOSE m \in M : at[m] = i
    OBVIOUS
  <2> HIDE DEF row
  <2> QED
    BY <2>1, <2>2, Zenon
<1>5. row \in [1 .. N -> M]
  <2>1. row = [i \in 1 .. N |-> row[i]]
    OBVIOUS
  <2> HIDE DEF row
  <2> QED
    BY <1>4, <2>1
<1> HIDE DEF row
<1>6. row \in Seq(M) /\ Len(row) = N
  BY <1>3, <1>5
<1>7. \A m \in M : row[at[m]] = m
  BY <1>1, <1>3, <1>4
<1>8. Row(row, M, at, N)
  BY <1>3, <1>4, <1>6, <1>7 DEF Row
<1> QED
  BY <1>8 DEF N

\* What is below n, around n itself.
Around(a, n, b) == a \o <<n>> \o b

Inside(k, N, l, r) == l \in Int /\ r \in Int /\ 1 <= l /\ l <= k /\ k <= r /\ r <= N

Joined(row, k, n, l, r) ==
    Around(SubSeq(row, l, k - 1), n, SubSeq(row, k + 1, r)) = SubSeq(row, l, r)

LEMMA RowAround ==
    ASSUME NEW M, NEW at, NEW N, NEW row, Row(row, M, at, N), NEW n \in M,
           NEW l, NEW r, Inside(at[n], N, l, r)
    PROVE  Joined(row, at[n], n, l, r)
<1> DEFINE k == at[n]
<1>1. N \in Nat /\ row \in Seq(M) /\ Len(row) = N /\ k \in 1 .. N /\ row[k] = n
  BY DEF Row
<1> HIDE DEF k
<1>2. /\ l \in 1 .. Len(row) /\ k \in l .. Len(row) /\ l \in 1 .. Len(row) + 1
      /\ k \in l - 1 .. Len(row) /\ r \in k .. Len(row)
  <2>1. l \in Int /\ r \in Int /\ 1 <= l /\ l <= k /\ k <= r /\ r <= N
    BY DEF k, Inside
  <2> QED
    BY <1>1, <2>1
<1>3. SubSeq(row, l, k) = SubSeq(row, l, k - 1) \o <<row[k]>>
  BY <1>1, <1>2, SubSeqRecursiveSecond, Zenon
<1>4. SubSeq(row, l, k) \o SubSeq(row, k + 1, r) = SubSeq(row, l, r)
  BY <1>1, <1>2, ConcatAdjacentSubSeq, Zenon
<1> QED
  BY <1>1, <1>3, <1>4, Zenon DEF k, Around, Joined

LEMMA InOrderRow ==
    ASSUME NEW at, NEW end, Spanned(tree, members, at, end), Ranked(tree, members, at, end),
           NEW row, Row(row, members, at, end["right"][tree.root]), members # {}
    PROVE  InOrder = row
<1> DEFINE N == end["right"][tree.root]
           l(n) == tree.child["left"][n]
           r(n) == tree.child["right"][n]
           Way(f) == f = [n \in members \cup {Nil} |->
                             IF n = Nil THEN <<>> ELSE Around(f[l(n)], n, f[r(n)])]
           down == CHOOSE f : Way(f)
           g == [n \in members \cup {Nil} |->
                    IF n = Nil THEN <<>> ELSE SubSeq(row, end["left"][n], end["right"][n])]
<1>1. /\ Facts(tree, members, at, end) /\ tree.root \in members /\ Nil \notin members
      /\ end["left"][tree.root] = 1 /\ "left" \in Side /\ "right" \in Side
  BY SpannedFacts, RBTreeAssumption DEF Spanned, Ranked, Side
<1>2. \A n \in members : /\ l(n) \in members \cup {Nil} /\ r(n) \in members \cup {Nil}
                         /\ n # Nil
  BY <1>1 DEF Facts
<1>3. g[Nil] = <<>> /\ \A n \in members : g[n] = SubSeq(row, end["left"][n], end["right"][n])
  BY <1>1
<1>4. ASSUME NEW n \in members PROVE g[n] = Around(g[l(n)], n, g[r(n)])
  <2>1. /\ 1 <= end["left"][n] /\ end["left"][n] <= at[n] /\ at[n] <= end["right"][n]
        /\ end["right"][n] <= N
        /\ end["left"][n] \in Int /\ at[n] \in Int /\ end["right"][n] \in Int
    BY RangesInside
  <2>2. g[l(n)] = SubSeq(row, end["left"][n], at[n] - 1)
    <3>1. CASE l(n) = Nil
      <4>1. end["left"][n] = at[n]
        BY <1>1, <3>1 DEF Facts
      <4>2. SubSeq(row, at[n], at[n] - 1) = <<>>
        BY <2>1, SubSeqEmpty
      <4> QED
        BY <1>3, <3>1, <4>1, <4>2
    <3>2. CASE l(n) \in members
      <4>1. end["left"][l(n)] = end["left"][n] /\ end["right"][l(n)] = at[n] + Step("left")
            /\ Step("left") = -1
        BY <1>1, <3>2 DEF Facts, Other, Step
      <4>2. end["right"][l(n)] = at[n] - 1
        BY <2>1, <4>1
      <4> QED
        BY <1>3, <3>2, <4>1, <4>2
    <3> QED
      BY <1>2, <3>1, <3>2
  <2>3. g[r(n)] = SubSeq(row, at[n] + 1, end["right"][n])
    <3>1. CASE r(n) = Nil
      <4>1. end["right"][n] = at[n]
        BY <1>1, <3>1 DEF Facts
      <4>2. SubSeq(row, at[n] + 1, at[n]) = <<>>
        BY <2>1, SubSeqEmpty
      <4> QED
        BY <1>3, <3>1, <4>1, <4>2
    <3>2. CASE r(n) \in members
      <4>1. end["right"][r(n)] = end["right"][n] /\ end["left"][r(n)] = at[n] + Step("right")
            /\ Step("right") = 1
        BY <1>1, <3>2 DEF Facts, Other, Step
      <4>2. end["left"][r(n)] = at[n] + 1
        BY <2>1, <4>1
      <4> QED
        BY <1>3, <3>2, <4>1, <4>2
    <3> QED
      BY <1>2, <3>1, <3>2
  <2>4. Joined(row, at[n], n, end["left"][n], end["right"][n])
    <3>1. Inside(at[n], N, end["left"][n], end["right"][n])
      BY <2>1 DEF Inside
    <3> QED
      BY <3>1, RowAround, Zenon
  <2> HIDE DEF g, l, r
  <2> QED
    BY <1>3, <2>2, <2>3, <2>4 DEF Joined
<1>5. Way(g)
  <2> DEFINE v(n) == IF n = Nil THEN <<>> ELSE Around(g[l(n)], n, g[r(n)])
  <2>1. g = [n \in members \cup {Nil} |-> g[n]]
    OBVIOUS
  <2> HIDE DEF g, l, r
  <2>2. \A n \in members \cup {Nil} : g[n] = v(n)
    BY <1>2, <1>3, <1>4
  <2> HIDE DEF v
  <2>3. g = [n \in members \cup {Nil} |-> v(n)]
    BY <2>1, <2>2
  <2> QED
    BY <2>3 DEF v
<1> HIDE DEF g
<1>6. Way(down)
  <2> HIDE DEF Way
  <2> QED
    BY <1>5
<1>7. InOrder = down[tree.root]
  BY Zenon DEF InOrder, Around
<1> HIDE DEF down
<1>8. down[Nil] = <<>> /\ \A n \in members : down[n] = Around(down[l(n)], n, down[r(n)])
  <2> DEFINE v(n) == IF n = Nil THEN <<>> ELSE Around(down[l(n)], n, down[r(n)])
  <2>1. down = [n \in members \cup {Nil} |-> v(n)]
    BY <1>6
  <2> HIDE DEF v
  <2>2. \A n \in members \cup {Nil} : down[n] = v(n)
    BY <2>1
  <2> HIDE DEF l, r
  <2> QED
    BY <1>2, <2>2 DEF v
<1>9. down[tree.root] = g[tree.root]
  <2> DEFINE P == {n \in members : down[n] = g[n]}
  <2>1. ASSUME NEW n \in members,
               \A s \in Side : tree.child[s][n] \in members => tree.child[s][n] \in P
        PROVE  n \in P
    <3>1. down[l(n)] = g[l(n)] /\ down[r(n)] = g[r(n)]
      BY <1>1, <1>2, <1>3, <1>8, <2>1
    <3> HIDE DEF l, r
    <3>2. down[n] = g[n]
      BY <1>4, <1>8, <3>1, Zenon
    <3> QED
      BY <3>2
  <2>2. members \subseteq P
    <3> HIDE DEF P
    <3> QED
      BY <2>1, TreeInduction, Zenon
  <2> QED
    BY <1>1, <2>2
<1>10. SubSeq(row, 1, N) = row
  BY SubSeqFull, Zenon DEF Row
<1> QED
  BY <1>1, <1>3, <1>7, <1>9, <1>10

LEMMA InOrderEmpty ==
    ASSUME tree.root = Nil, members = {}
    PROVE  InOrder = <<>>
<1> DEFINE l(n) == tree.child["left"][n]
           r(n) == tree.child["right"][n]
           v(f, n) == IF n = Nil THEN <<>> ELSE Around(f[l(n)], n, f[r(n)])
           Way(f) == f = [n \in members \cup {Nil} |-> v(f, n)]
           down == CHOOSE f : Way(f)
           g == [n \in members \cup {Nil} |-> <<>>]
<1>1. \A f : v(f, Nil) = <<>>
  OBVIOUS
<1>2. InOrder = down[Nil]
  BY Zenon DEF InOrder, Around
<1> HIDE DEF v
<1>3. Way(g)
  <2>1. \A n \in members \cup {Nil} : v(g, n) = <<>>
    BY <1>1
  <2> HIDE DEF g
  <2>2. [n \in members \cup {Nil} |-> v(g, n)] = [n \in members \cup {Nil} |-> <<>>]
    BY <2>1
  <2> QED
    BY <2>2 DEF g
<1>4. Way(down)
  <2> HIDE DEF Way
  <2> QED
    BY <1>3
<1> HIDE DEF down
<1> QED
  BY <1>1, <1>2, <1>4

LEMMA InvSearchTree == IInv => SearchTree
<1> SUFFICES ASSUME IInv PROVE SearchTree
  OBVIOUS
<1>1. PICK at, end : Spanned(tree, members, at, end) /\ Ranked(tree, members, at, end)
  BY DEF IInv, TreeInv, Placed, Numbered
<1>2. Shaped(tree, members)
  BY PlacedShape DEF IInv, TreeInv
<1>3. TreeTypeOK
  BY InvTypes
<1>4. \A n \in members, s \in Side : tree.child[s][n] # Nil => Parent(tree.child[s][n]) = n
  BY <1>2 DEF Shaped, Parent
<1> DEFINE nodes == InOrder
<1>5. /\ Len(nodes) = Cardinality(members) /\ Range(nodes) = members
      /\ \A i \in 1 .. Len(nodes) - 1 : KeyOf[nodes[i]] <= KeyOf[nodes[i + 1]]
  <2>1. CASE members = {}
    <3>1. nodes = <<>>
      BY <1>2, <2>1, InOrderEmpty DEF Shaped
    <3>2. Len(<<>>) = 0 /\ DOMAIN <<>> = {}
      OBVIOUS
    <3>3. Range(<<>>) = {}
      BY <3>2 DEF Range
    <3>4. Cardinality(members) = 0
      BY <2>1, FS_EmptySet
    <3> HIDE DEF nodes
    <3> QED
      BY <2>1, <3>1, <3>2, <3>3, <3>4
  <2>2. CASE members # {}
    <3> DEFINE N == end["right"][tree.root]
    <3>1. PICK row : Row(row, members, at, N)
      BY <1>1, <2>2, RowFound, Zenon
    <3>2. nodes = row
      BY <1>1, <2>2, <3>1, InOrderRow, Zenon
    <3> HIDE DEF nodes, N
    <3>3. /\ N \in Nat /\ row \in Seq(members) /\ Len(row) = N /\ DOMAIN row = 1 .. N
          /\ \A i \in 1 .. N : row[i] \in members /\ at[row[i]] = i
          /\ \A m \in members : at[m] \in 1 .. N /\ row[at[m]] = m
      BY <3>1 DEF Row
    <3>4. Range(row) = members
      BY <3>3 DEF Range
    <3>5. Cardinality(members) = N
      <4>1. row \in [1 .. N -> members]
        BY <3>3
      <4>2. row \in Bijection(1 .. N, members)
        BY <3>3, <4>1 DEF Bijection, Injection, Surjection, IsInjective
      <4> QED
        BY <3>3, <4>2, FS_CountingElements DEF ExistsBijection
    <3>6. ASSUME NEW i \in 1 .. N - 1 PROVE KeyOf[row[i]] <= KeyOf[row[i + 1]]
      <4>1. i \in 1 .. N /\ i + 1 \in 1 .. N
        BY <3>3
      <4>2. /\ row[i] \in members /\ row[i + 1] \in members
            /\ at[row[i]] < at[row[i + 1]]
        BY <3>3, <4>1
      <4> QED
        BY <1>1, <4>2 DEF Ranked
    <3> QED
      BY <3>2, <3>3, <3>4, <3>5, <3>6
  <2> QED
    BY <2>1, <2>2
<1> QED
  BY <1>3, <1>4, <1>5, Zenon DEF SearchTree

(***************************************************************************)
(* The lookups.                                                            *)
(***************************************************************************)
LEMMA MinFound ==
    ASSUME NEW at, NEW end, Spanned(tree, members, at, end), Ranked(tree, members, at, end),
           members # {}
    PROVE  TreeMin \in members /\ \A n \in members : KeyOf[TreeMin] <= KeyOf[n]
<1>1. Facts(tree, members, at, end) /\ tree.root \in members /\ Nil \notin members
  BY SpannedFacts, RBTreeAssumption DEF Spanned
<1>2. TreeMin = Least(tree.root)
  BY <1>1 DEF TreeMin
<1>3. Least(tree.root) \in members /\ at[Least(tree.root)] = end["left"][tree.root]
  BY <1>1, LeastFound
<1> DEFINE m == Least(tree.root)
<1> HIDE DEF m
<1>4. m \in members /\ at[m] = 1
  BY <1>3 DEF m, Ranked
<1>5. ASSUME NEW n \in members PROVE KeyOf[m] <= KeyOf[n]
  <2>1. at[n] \in Int /\ 1 <= at[n]
    BY <1>1, <1>4 DEF Facts, Ranked
  <2>2. KeyOf[n] \in Int
    BY <1>1, RBTreeAssumption DEF Facts
  <2>3. CASE at[n] = 1
    <3>1. n = m
      BY <1>4, <2>3 DEF Ranked
    <3> QED
      BY <2>2, <3>1
  <2>4. CASE at[n] # 1
    <3>1. at[m] < at[n]
      BY <1>4, <2>1, <2>4
    <3> QED
      BY <1>4, <3>1 DEF Ranked
  <2> QED
    BY <2>3, <2>4
<1> QED
  BY <1>2, <1>4, <1>5 DEF m

\* scraft_rbt_find goes towards every node that has the key.
Leads(g, n, k) == g[n] \in members /\ KeyOf[g[n]] = k

LEMMA KeyFound ==
    ASSUME NEW at, NEW end, Spanned(tree, members, at, end), Ranked(tree, members, at, end),
           NEW k \in Int, members # {}
    PROVE  IF \E n \in members : KeyOf[n] = k
           THEN Find(k) \in members /\ KeyOf[Find(k)] = k
           ELSE Find(k) = Nil
<1> DEFINE side == [n \in members |-> IF k < KeyOf[n] THEN "left" ELSE "right"]
           Stop == {n \in members : KeyOf[n] = k}
           next(n) == tree.child[IF k < KeyOf[n] THEN "left" ELSE "right"][n]
           v(f, n) == IF n = Nil \/ k = KeyOf[n] THEN n ELSE f[next(n)]
           Way(f) == f = [n \in members \cup {Nil} |-> v(f, n)]
           g == CHOOSE f : Way(f)
<1>1. /\ Facts(tree, members, at, end) /\ tree.root \in members /\ Nil \notin members
      /\ "left" \in Side /\ "right" \in Side
      /\ \A n \in members : n # Nil /\ KeyOf[n] \in Int
  BY SpannedFacts, RBTreeAssumption DEF Spanned, Side
<1>2. side \in [members -> Side] /\ \A n \in members : next(n) = tree.child[side[n]][n]
  BY DEF Side
<1>3. \A n \in members : next(n) \in members \cup {Nil}
  BY <1>1 DEF Facts
<1>4. \E f : Way(f)
  <2>1. PICK f : Follows(f, tree, members, side, Stop)
    <3> HIDE DEF side, Stop
    <3> QED
      BY <1>1, <1>2, PathRecursion, Zenon
  <2>2. ASSUME NEW n \in members \cup {Nil} PROVE f[n] = v(f, n)
    <3>1. CASE n = Nil
      BY <2>1, <3>1 DEF Follows
    <3>2. CASE n \in members
      <4>1. f[n] = IF n \in Stop THEN n ELSE f[next(n)]
        BY <1>2, <2>1, <3>2 DEF Follows
      <4> HIDE DEF next
      <4> QED
        BY <1>1, <3>2, <4>1
    <3> QED
      BY <3>1, <3>2
  <2>3. f = [n \in members \cup {Nil} |-> f[n]]
    BY <2>1 DEF Follows
  <2> HIDE DEF v
  <2>4. Way(f)
    BY <2>2, <2>3
  <2> QED
    BY <2>4
<1>5. Way(g)
  <2> HIDE DEF Way
  <2> QED
    BY <1>4
<1>6. Find(k) = g[tree.root]
  <2>1. Find(k) = IF tree.root = Nil THEN Nil ELSE g[tree.root]
    BY Zenon DEF Find
  <2> QED
    BY <1>1, <2>1
<1> HIDE DEF g
<1>7. \A n \in members \cup {Nil} : g[n] = v(g, n)
  <2> HIDE DEF v
  <2> QED
    BY <1>5
<1> HIDE DEF Way
<1>8. g[Nil] = Nil /\ \A n \in members : g[n] = IF KeyOf[n] = k THEN n ELSE g[next(n)]
  <2> HIDE DEF next
  <2> QED
    BY <1>1, <1>7
<1> HIDE DEF v
<1>9. ASSUME NEW m \in members, KeyOf[m] = k
      PROVE  Leads(g, tree.root, k)
  <2> DEFINE P == {n \in members : Within(at, end, m, n) => Leads(g, n, k)}
  <2>1. ASSUME NEW n \in members, Within(at, end, m, n),
               \A s \in Side : tree.child[s][n] \in members => tree.child[s][n] \in P
        PROVE  Leads(g, n, k)
    <3>1. CASE KeyOf[n] = k
      BY <1>8, <3>1 DEF Leads
    <3>2. CASE KeyOf[n] # k
      <4>1. /\ at[m] \in Int /\ at[n] \in Int /\ end["left"][n] \in Int /\ end["right"][n] \in Int
            /\ end["left"][n] <= at[m] /\ at[m] <= end["right"][n] /\ at[m] # at[n]
        <5>1. at[m] # at[n]
          BY <1>9, <3>2 DEF Ranked
        <5> QED
          BY <1>1, <2>1, <5>1 DEF Facts, Within
      <4>2. /\ at[n] < at[m] => KeyOf[n] <= k
            /\ at[m] < at[n] => k <= KeyOf[n]
        BY <1>9 DEF Ranked
      <4>3. g[n] = g[next(n)]
        BY <1>8, <3>2
      <4>4. next(n) \in members /\ Within(at, end, m, next(n))
        <5>1. CASE k < KeyOf[n]
          <6>1. next(n) = tree.child["left"][n] /\ at[m] < at[n]
            BY <1>1, <4>1, <4>2, <5>1
          <6>2. next(n) # Nil
            BY <1>1, <4>1, <6>1 DEF Facts
          <6>3. /\ next(n) \in members /\ end["left"][next(n)] = end["left"][n]
                /\ end["right"][next(n)] = at[n] + Step("left") /\ Step("left") = -1
            BY <1>1, <1>3, <6>1, <6>2 DEF Facts, Other, Step
          <6> HIDE DEF next
          <6> QED
            BY <4>1, <6>1, <6>3 DEF Within
        <5>2. CASE ~ (k < KeyOf[n])
          <6>1. next(n) = tree.child["right"][n] /\ at[n] < at[m]
            BY <1>1, <3>2, <4>1, <4>2, <5>2
          <6>2. next(n) # Nil
            BY <1>1, <4>1, <6>1 DEF Facts
          <6>3. /\ next(n) \in members /\ end["right"][next(n)] = end["right"][n]
                /\ end["left"][next(n)] = at[n] + Step("right") /\ Step("right") = 1
            BY <1>1, <1>3, <6>1, <6>2 DEF Facts, Other, Step
          <6> HIDE DEF next
          <6> QED
            BY <4>1, <6>1, <6>3 DEF Within
        <5> QED
          BY <5>1, <5>2
      <4>5. next(n) \in P
        BY <1>1, <2>1, <4>4
      <4> HIDE DEF next
      <4> QED
        BY <4>3, <4>4, <4>5 DEF Leads
    <3> QED
      BY <3>1, <3>2
  <2>2. ASSUME NEW n \in members,
               \A s \in Side : tree.child[s][n] \in members => tree.child[s][n] \in P
        PROVE  n \in P
    BY <2>1, <2>2
  <2>3. members \subseteq P
    <3> HIDE DEF P
    <3> QED
      BY <2>2, TreeInduction, Zenon
  <2>4. Within(at, end, m, tree.root)
    BY DEF Spanned
  <2> QED
    BY <1>1, <2>3, <2>4
<1>10. ASSUME \A m \in members : KeyOf[m] # k PROVE g[tree.root] = Nil
  <2> DEFINE P == {n \in members : g[n] = Nil}
  <2>1. ASSUME NEW n \in members,
               \A s \in Side : tree.child[s][n] \in members => tree.child[s][n] \in P
        PROVE  n \in P
    <3>1. g[n] = g[next(n)]
      BY <1>8, <1>10
    <3>2. next(n) = Nil \/ next(n) \in P
      BY <1>1, <1>3, <2>1
    <3> HIDE DEF next
    <3> QED
      BY <1>8, <3>1, <3>2
  <2>2. members \subseteq P
    <3> HIDE DEF P
    <3> QED
      BY <2>1, TreeInduction, Zenon
  <2> QED
    BY <1>1, <2>2
<1>11. CASE \E n \in members : KeyOf[n] = k
  BY <1>6, <1>9, <1>11 DEF Leads
<1>12. CASE ~ \E n \in members : KeyOf[n] = k
  BY <1>6, <1>10, <1>12
<1> QED
  BY <1>11, <1>12

LEMMA InvLookups == IInv => LookupsAgree
<1> SUFFICES ASSUME IInv
             PROVE  /\ members # {} => TreeMin \in members /\ \A n \in members : KeyOf[TreeMin] <= KeyOf[n]
                    /\ \A k \in Range(KeyOf) :
                          IF \E n \in members : KeyOf[n] = k
                          THEN Find(k) \in members /\ KeyOf[Find(k)] = k
                          ELSE Find(k) = Nil
  BY Zenon DEF LookupsAgree
<1>1. PICK at, end : Spanned(tree, members, at, end) /\ Ranked(tree, members, at, end)
  BY DEF IInv, TreeInv, Placed, Numbered
<1>2. members # {} => TreeMin \in members /\ \A n \in members : KeyOf[TreeMin] <= KeyOf[n]
  BY <1>1, MinFound
<1>3. ASSUME NEW k \in Range(KeyOf)
      PROVE  IF \E n \in members : KeyOf[n] = k
             THEN Find(k) \in members /\ KeyOf[Find(k)] = k
             ELSE Find(k) = Nil
  <2>1. k \in Int
    BY RBTreeAssumption DEF Range
  <2>2. CASE members = {}
    <3>1. tree.root = Nil
      BY <1>1, <2>2 DEF Spanned
    <3>2. Find(k) = Nil
      BY <3>1, Zenon DEF Find
    <3> QED
      BY <2>2, <3>2
  <2>3. CASE members # {}
    BY <1>1, <2>1, <2>3, KeyFound
  <2> QED
    BY <2>2, <2>3
<1> QED
  BY <1>2, <1>3, Zenon

(***************************************************************************)
(* The colors.                                                             *)
(***************************************************************************)
\* What the invariant takes to be missing is what is.
LEMMA MissingLack ==
    ASSUME IInv, NEW bh, NEW hp, NEW hs, Leveled(tree, members, bh, hp, hs),
           HangsBelow(tree, members, loop, cur, hp, hs), NEW n \in members, NEW s \in Side
    PROVE  Missing(n, s) = Lack(hp, hs, n, s)
<1>1. Shaped(tree, members)
  BY PlacedShape DEF IInv, TreeInv
<1>2. tree.child[s][n] # tree.root /\ n # Nil
  BY <1>1 DEF Shaped, Separate
<1>3. CASE loop = "delete" /\ cur # tree.root
  <2>1. hp \in members /\ hs \in Side /\ tree.child[hs][hp] = cur /\ tree.parent[cur] = hp
    BY <1>3 DEF HangsBelow
  <2>2. tree.child[Other(hs)][hp] # cur
    <3>1. HasSibling(tree, members, bh, hp, hs)
      BY <1>1, <2>1, SiblingThere, Zenon
    <3> QED
      BY <2>1, <3>1 DEF HasSibling
  <2>3. s = hs \/ s = Other(hs)
    BY <2>1 DEF Side, Other
  <2>4. tree.child[s][n] = cur /\ tree.parent[cur] = n <=> n = hp /\ s = hs
    BY <2>1, <2>2, <2>3
  <2> QED
    BY <1>3, <2>4 DEF Missing, Lack
<1>4. CASE ~ (loop = "delete" /\ cur # tree.root)
  <2>1. hp = Nil
    BY <1>4 DEF HangsBelow
  <2>2. ~ (loop = "delete" /\ tree.child[s][n] = cur)
    BY <1>2, <1>4
  <2> QED
    BY <1>2, <2>1, <2>2 DEF Missing, Lack
<1> QED
  BY <1>3, <1>4

LEMMA HeightFound ==
    ASSUME IInv, NEW bh, NEW hp, NEW hs, Leveled(tree, members, bh, hp, hs),
           HangsBelow(tree, members, loop, cur, hp, hs)
    PROVE  BlackHeight = bh[tree.root] /\ bh[tree.root] \in Nat
<1> DEFINE below(f, n, s) == f[tree.child[s][n]] + Missing(n, s)
           v(f, n) == IF n = Nil THEN 0
                      ELSE LET black == IF tree.color[n] = "black" THEN 1 ELSE 0
                               left  == f[tree.child["left"][n]] + Missing(n, "left")
                               right == f[tree.child["right"][n]] + Missing(n, "right")
                           IN IF left = right THEN left + black ELSE -2 * Cardinality(Node)
           Way(f) == f = [n \in members \cup {Nil} |-> v(f, n)]
           down == CHOOSE f : Way(f)
           g == [n \in members \cup {Nil} |-> bh[n]]
<1>1. PICK at, end : Spanned(tree, members, at, end) /\ Ranked(tree, members, at, end)
  BY DEF IInv, TreeInv, Placed, Numbered
<1>2. /\ Shaped(tree, members) /\ tree.root \in members \cup {Nil} /\ Nil \notin members
      /\ members \subseteq Node /\ "left" \in Side /\ "right" \in Side
      /\ \A n \in members, s \in Side : tree.child[s][n] \in members \cup {Nil}
  <2>1. Shaped(tree, members)
    BY PlacedShape DEF IInv, TreeInv
  <2> QED
    BY <2>1 DEF Shaped, Side
<1>3. /\ \A n \in members \cup {Nil} : bh[n] \in Nat
      /\ bh[Nil] = 0
      /\ \A n \in members, s \in Side :
            bh[n] = bh[tree.child[s][n]] + Lack(hp, hs, n, s) + Dark(tree, n)
  BY <1>2 DEF Leveled, Heights
<1>4. ASSUME NEW f, NEW n \in members, \A s \in Side : f[tree.child[s][n]] = bh[tree.child[s][n]]
      PROVE  v(f, n) = bh[n]
  <2> DEFINE a == bh[tree.child["left"][n]]
             b == bh[tree.child["right"][n]]
             x == Missing(n, "left")
             y == Missing(n, "right")
  <2>1. x = Lack(hp, hs, n, "left") /\ y = Lack(hp, hs, n, "right")
    BY <1>2, MissingLack, Zenon
  <2>2. bh[n] = a + x + Dark(tree, n) /\ bh[n] = b + y + Dark(tree, n)
    BY <1>2, <1>3, <2>1
  <2>3. a \in Nat /\ b \in Nat /\ x \in Nat /\ y \in Nat /\ Dark(tree, n) \in Nat
    BY <1>2, <1>3, <2>1 DEF Lack, Dark
  <2>4. f[tree.child["left"][n]] = a /\ f[tree.child["right"][n]] = b /\ n # Nil
    BY <1>2, <1>4
  <2>5. v(f, n) = IF a + x = b + y THEN a + x + Dark(tree, n) ELSE -2 * Cardinality(Node)
    BY <2>4, Zenon DEF Dark
  <2> HIDE DEF a, b, x, y, v
  <2>6. a + x = b + y
    BY <2>2, <2>3
  <2> QED
    BY <2>2, <2>5, <2>6
<1>5. \A f : v(f, Nil) = 0
  OBVIOUS
<1>6. BlackHeight = down[tree.root]
  BY Zenon DEF BlackHeight
<1> HIDE DEF v
<1>7. Way(g)
  <2>1. \A n \in members \cup {Nil} : g[n] = bh[n]
    OBVIOUS
  <2>2. g = [n \in members \cup {Nil} |-> g[n]]
    OBVIOUS
  <2> HIDE DEF g
  <2>3. \A n \in members \cup {Nil} : v(g, n) = g[n]
    <3>1. ASSUME NEW n \in members PROVE v(g, n) = g[n]
      <4>1. \A s \in Side : g[tree.child[s][n]] = bh[tree.child[s][n]]
        BY <1>2, <2>1
      <4> QED
        BY <1>4, <2>1, <4>1
    <3>2. v(g, Nil) = g[Nil]
      BY <1>3, <1>5, <2>1
    <3> QED
      BY <3>1, <3>2
  <2>4. g = [n \in members \cup {Nil} |-> v(g, n)]
    BY <2>2, <2>3
  <2> QED
    BY <2>4
<1>8. Way(down)
  <2> HIDE DEF Way
  <2> QED
    BY <1>7
<1> HIDE DEF down, g
<1>9. \A n \in members \cup {Nil} : down[n] = v(down, n)
  BY <1>8
<1> HIDE DEF Way
<1>10. down[Nil] = bh[Nil]
  BY <1>3, <1>5, <1>9
<1>11. members \subseteq {n \in members : down[n] = bh[n]}
  <2> DEFINE P == {n \in members : down[n] = bh[n]}
  <2>1. ASSUME NEW n \in members,
               \A s \in Side : tree.child[s][n] \in members => tree.child[s][n] \in P
        PROVE  n \in P
    <3>1. \A s \in Side : down[tree.child[s][n]] = bh[tree.child[s][n]]
      BY <1>2, <1>10, <2>1
    <3>2. v(down, n) = bh[n]
      BY <1>4, <3>1
    <3> QED
      BY <1>9, <3>2
  <2> HIDE DEF P
  <2>2. members \subseteq P
    BY <1>1, <2>1, TreeInduction, Zenon
  <2> QED
    BY <2>2 DEF P
<1> QED
  BY <1>2, <1>3, <1>6, <1>10, <1>11

LEMMA InvRedBlack == IInv => RedBlack
<1> SUFFICES ASSUME IInv PROVE RedBlack
  OBVIOUS
<1>1. PICK bh, hp, hs : /\ Leveled(tree, members, bh, hp, hs)
                        /\ HangsBelow(tree, members, loop, cur, hp, hs)
  BY DEF IInv, TreeInv
<1>2. BlackHeight >= 0
  <2>1. BlackHeight = bh[tree.root] /\ bh[tree.root] \in Nat
    BY <1>1, HeightFound, Zenon
  <2> HIDE DEF BlackHeight
  <2> QED
    BY <2>1
<1>3. tree.color[Nil] = "black"
  BY <1>1 DEF Leveled
<1>4. tree.color[tree.root] = "red" => loop = "insert" /\ cur = tree.root
  BY DEF IInv, TreeInv, RootColored
<1>5. ASSUME NEW n \in members, NEW s \in Side,
             tree.color[n] = "red", tree.color[tree.child[s][n]] = "red"
      PROVE  loop # "idle" /\ cur \in {n, tree.child[s][n]}
  <2>1. RedsOf(tree, members, loop, cur)
    BY DEF IInv, TreeInv
  <2> QED
    BY <1>5, <2>1 DEF RedsOf, Reds
<1> QED
  BY <1>2, <1>3, <1>4, <1>5 DEF RedBlack

(***************************************************************************)
(* The theorems.                                                           *)
(***************************************************************************)
\* In every round of the repairs the tree holds the nodes that were inserted
\* and not deleted, each once and in the order of their keys, and its parents
\* are those of its children.
THEOREM TreeStaysSearchTree == TreeSpec => []SearchTree
  BY TreeInvariant, InvSearchTree, PTL

\* In every round the black heights agree, but for the one node that is
\* missing, and red nodes meet at cur only.
THEOREM TreeStaysRedBlack == TreeSpec => []RedBlack
  BY TreeInvariant, InvRedBlack, PTL

\* Between calls the first timer has the least key, and every key is found
\* that a node has.
THEOREM TreeFindsItsKeys == TreeSpec => []LookupsAgree
  BY TreeInvariant, InvLookups, PTL

(***************************************************************************)
(* The rounds end, for they climb.                                         *)
(***************************************************************************)
\* The equations of Depth, for the root and the parents of t.
DepthBelow(r, par, M, f, m) == IF m = r \/ par[m] \notin M THEN 0 ELSE 1 + f[par[m]]

DepthIn(r, par, M, n) ==
    (CHOOSE f : f = [m \in M \cup {Nil} |-> DepthBelow(r, par, M, f, m)])[n]

LEMMA DepthIs ==
    ASSUME NEW t, NEW n
    PROVE  Depth(t, n) = DepthIn(t.root, t.parent, members, n)
  BY Zenon DEF Depth, DepthIn, DepthBelow

Deeper(t, M, n) ==
    /\ DepthIn(t.root, t.parent, M, n) \in Nat
    /\ DepthIn(t.root, t.parent, M, t.parent[n]) \in Nat
    /\ DepthIn(t.root, t.parent, M, t.parent[n]) < DepthIn(t.root, t.parent, M, n)

LEMMA ParentHigher ==
    ASSUME NEW t, NEW M, Placed(t, M), NEW n \in M \cup {Nil}, n # t.root, t.parent[n] \in M
    PROVE  Deeper(t, M, n)
<1> DEFINE par == t.parent
           r == t.root
           Way(f) == f = [m \in M \cup {Nil} |-> DepthBelow(r, par, M, f, m)]
           up == CHOOSE f : Way(f)
<1>1. PICK at, end : Spanned(t, M, at, end) /\ Ranked(t, M, at, end)
  BY DEF Placed, Numbered
<1>2. /\ Facts(t, M, at, end) /\ Shaped(t, M) /\ Separate(t, M) /\ r \in M /\ Nil \notin M
      /\ "left" \in Side /\ "right" \in Side
  <2>1. Facts(t, M, at, end) /\ Shaped(t, M)
    BY <1>1, PlacedShape, SpannedFacts, Zenon
  <2> QED
    BY <2>1 DEF Shaped, Side
<1> DEFINE top == end["right"][r]
           rank == [m \in M |-> top - (end["right"][m] - end["left"][m])]
<1>3. \A m \in M : /\ 1 <= end["left"][m] /\ end["left"][m] <= at[m] /\ at[m] <= end["right"][m]
                   /\ end["right"][m] <= top
                   /\ end["left"][m] \in Int /\ at[m] \in Int /\ end["right"][m] \in Int
                   /\ top \in Nat
  BY <1>1, RangesInside
<1>4. rank \in [M -> Nat]
  <2>1. \A m \in M : top - (end["right"][m] - end["left"][m]) \in Nat
    <3> HIDE DEF top
    <3> QED
      BY <1>3
  <2> QED
    BY <2>1
<1>5. ASSUME NEW m \in M, m # r PROVE par[m] \in M /\ rank[par[m]] < rank[m]
  <2> DEFINE q == par[m]
             s == SideOf(t, m)
  <2>1. q \in M /\ s \in Side /\ t.child[s][q] = m
    BY <1>2, <1>5 DEF Separate
  <2> HIDE DEF q, s
  <2>2. end[s][m] = end[s][q] /\ end[Other(s)][m] = at[q] + Step(s)
    BY <1>2, <2>1 DEF Facts
  <2>3. end["right"][m] - end["left"][m] < end["right"][q] - end["left"][q]
    <3>1. CASE s = "left"
      BY <1>3, <2>1, <2>2, <3>1 DEF Other, Step
    <3>2. CASE s = "right"
      BY <1>3, <2>1, <2>2, <3>2 DEF Other, Step
    <3> QED
      BY <2>1, <3>1, <3>2 DEF Side
  <2>4. /\ rank[m] = top - (end["right"][m] - end["left"][m])
        /\ rank[q] = top - (end["right"][q] - end["left"][q])
    BY <2>1
  <2> HIDE DEF rank, top
  <2>5. rank[q] < rank[m]
    BY <1>3, <2>1, <2>3, <2>4
  <2> QED
    BY <2>1, <2>5 DEF q
<1> HIDE DEF rank, top
<1>6. \E f : Way(f)
  <2> DEFINE l == [m \in M |-> IF m = r THEN Nil ELSE par[m]]
             join == [x \in M \X Nat \X Nat |-> IF x[1] = r THEN 0 ELSE 1 + x[2]]
  <2>1. /\ l \in [M -> M \cup {Nil}]
        /\ \A m \in M : l[m] # Nil => rank[l[m]] < rank[m]
        /\ \A m \in M : l[m] = IF m = r THEN Nil ELSE par[m]
    BY <1>5
  <2>2. /\ join \in [M \X Nat \X Nat -> Nat]
        /\ \A m \in M, a, b \in Nat : join[<<m, a, b>>] = IF m = r THEN 0 ELSE 1 + a
    OBVIOUS
  <2> HIDE DEF l, join
  <2>3. PICK g \in [M \cup {Nil} -> Nat] : Computes(g, M, Nil, l, l, 0, join)
    <3>1. 0 \in Nat
      OBVIOUS
    <3> QED
      BY <1>2, <1>4, <2>1, <2>2, <3>1, RankRecursion, Zenon
  <2>4. \A m \in M : g[m] = IF m = r THEN 0 ELSE 1 + g[par[m]]
    <3> SUFFICES ASSUME NEW m \in M PROVE g[m] = IF m = r THEN 0 ELSE 1 + g[par[m]]
      OBVIOUS
    <3>1. g[m] = join[<<m, g[l[m]], g[l[m]]>>] /\ g[l[m]] \in Nat
      BY <2>1, <2>3 DEF Computes
    <3>2. g[m] = IF m = r THEN 0 ELSE 1 + g[l[m]]
      BY <2>2, <3>1
    <3> QED
      BY <2>1, <3>2
  <2> DEFINE f == [m \in M \cup {Nil} |-> DepthBelow(r, par, M, g, m)]
  <2>5. \A m \in M \cup {Nil} : f[m] = DepthBelow(r, par, M, g, m)
    OBVIOUS
  <2>6. \A m \in M : f[m] = g[m]
    BY <1>5, <2>4 DEF DepthBelow
  <2>7. \A m \in M \cup {Nil} : DepthBelow(r, par, M, f, m) = DepthBelow(r, par, M, g, m)
    <3> HIDE DEF f
    <3> QED
      BY <2>6 DEF DepthBelow
  <2>8. f = [m \in M \cup {Nil} |-> f[m]]
    OBVIOUS
  <2>9. Way(f)
    <3> HIDE DEF f
    <3> QED
      BY <2>5, <2>7, <2>8
  <2> QED
    BY <2>9
<1>7. Way(up)
  <2> HIDE DEF Way
  <2> QED
    BY <1>6
<1>8. \A m : DepthIn(r, par, M, m) = up[m]
  BY Zenon DEF DepthIn
<1> HIDE DEF up
<1>9. \A m \in M \cup {Nil} : up[m] = DepthBelow(r, par, M, up, m)
  BY <1>7
<1>10. M \subseteq {m \in M : up[m] \in Nat}
  <2> DEFINE P == {m \in M : up[m] \in Nat}
  <2>1. ASSUME NEW m \in M, \A k \in M : rank[k] < rank[m] => k \in P
        PROVE  m \in P
    <3>1. CASE m = r
      BY <1>9, <3>1 DEF DepthBelow
    <3>2. CASE m # r
      <4>1. par[m] \in P /\ par[m] \in M
        BY <1>5, <2>1, <3>2
      <4> QED
        BY <1>9, <3>2, <4>1 DEF DepthBelow
    <3> QED
      BY <3>1, <3>2
  <2> HIDE DEF P
  <2>2. M \subseteq P
    BY <1>4, <2>1, RankInduction
  <2> QED
    BY <2>2 DEF P
<1>11. up[par[n]] \in Nat /\ up[n] = 1 + up[par[n]]
  BY <1>9, <1>10 DEF DepthBelow
<1>12. up[n] \in Nat /\ up[par[n]] < up[n]
  BY <1>11
<1> QED
  BY <1>8, <1>11, <1>12 DEF Deeper

LEMMA InsertClimbs ==
    ASSUME IInv, InsertFix
    PROVE  Climbs
<1> DEFINE p == Parent(cur)
           g == Parent(p)
           s == SideOf(tree, p)
           uncle == tree.child[Other(s)][g]
<1>1. /\ loop = "insert" /\ InsertFixes /\ loop' = loop
      /\ Recolor(s, p, g) \/ Rotate(s, p, g)
  BY Zenon DEF InsertFix
<1>2. Grandparent(tree, members, cur, s, p, g)
  BY <1>1, InsertRound, Zenon
<1>3. Placed(tree, members) /\ Shaped(tree, members)
  BY PlacedShape DEF IInv, TreeInv
<1> HIDE DEF p, g, s
<1>4. CASE Rotate(s, p, g)
  <2>1. Repaired(tree', members, cur')
    BY <1>1, <1>2, <1>4, RotateKeeps, Zenon
  <2>2. ~ InsertFixes'
    BY <2>1 DEF Repaired, InsertFixes, Parent
  <2> QED
    BY <1>1, <2>2 DEF Climbs
<1>5. CASE Recolor(s, p, g)
  <2>1. /\ tree' = Painted(Painted(Painted(tree, p, "black"), uncle, "black"), g, "red")
        /\ cur' = g
    BY <1>5, Zenon DEF Recolor
  <2>2. /\ cur \in members /\ p \in members /\ g \in members /\ p # g /\ cur # p /\ cur # g
        /\ tree.parent[cur] = p /\ tree.parent[p] = g
        /\ tree.color[p] = "red" /\ tree.color[tree.root] = "black"
        /\ cur # tree.root
    BY <1>1, <1>2 DEF Grandparent, InsertFixes
  <2>3. tree'.root = tree.root /\ tree'.parent = tree.parent
    <3>1. tree \in Trees /\ p \in Node /\ g \in Node /\ uncle \in Node \cup {Nil}
      BY <1>2, <1>3, <2>2, Sides DEF Shaped, Grandparent
    <3> HIDE DEF uncle
    <3> QED
      BY <2>1, <3>1 DEF Trees, Painted
  <2>4. Deeper(tree, members, cur)
    BY <1>3, <2>2, ParentHigher
  <2>5. Deeper(tree, members, p)
    BY <1>3, <2>2, ParentHigher
  <2>6. Depth(tree', cur') < Depth(tree, cur)
    <3> DEFINE D(n) == DepthIn(tree.root, tree.parent, members, n)
    <3>1. Depth(tree', cur') = D(g) /\ Depth(tree, cur) = D(cur)
      <4>1. Depth(tree', cur') = DepthIn(tree'.root, tree'.parent, members, cur')
        BY DepthIs
      <4>2. Depth(tree, cur) = DepthIn(tree.root, tree.parent, members, cur)
        BY DepthIs
      <4> QED
        BY <2>1, <2>3, <4>1, <4>2
    <3>2. D(g) < D(p) /\ D(p) < D(cur) /\ D(g) \in Nat /\ D(p) \in Nat /\ D(cur) \in Nat
      BY <2>2, <2>4, <2>5 DEF Deeper
    <3> HIDE DEF D
    <3> QED
      BY <3>1, <3>2
  <2> QED
    BY <2>6 DEF Climbs
<1> QED
  BY <1>1, <1>4, <1>5

LEMMA DeleteClimbs ==
    ASSUME IInv, DeleteFix
    PROVE  Climbs
<1> DEFINE p == Parent(cur)
           s == SideOf(tree, cur)
           t == WithBlackSibling(s, p)
           w == t.child[Other(s)][p]
<1>1. /\ loop = "delete" /\ DeleteFixes /\ loop' = loop
      /\ MoveUp(t, w, p) \/ Borrow(t, s, w, p)
  BY Zenon DEF DeleteFix
<1>2. PICK bh : Short(tree, members, bh, p, s, cur)
  BY <1>1, DeleteRound, Zenon
<1>3. /\ Shaped(tree, members) /\ Placed(tree, members) /\ p \in members /\ s \in Side
      /\ tree.child[s][p] = cur /\ tree.parent[cur] = p /\ cur # tree.root
  BY <1>2, PlacedShape, Zenon DEF Short
<1> HIDE DEF p, s
<1>4. cur \in members \cup {Nil}
  BY <1>3 DEF Shaped
<1>5. BlackBeside(t, p, s, cur)
  BY <1>2, <1>4, BlackSibling, Zenon
<1> HIDE DEF t
<1>6. PICK b : Short(t, members, b, p, s, cur)
  BY <1>5 DEF BlackBeside
<1>7. t \in Trees /\ w \in Node
  <2>1. Shaped(t, members) /\ Leveled(t, members, b, p, s)
    BY <1>6, PlacedShape, Zenon DEF Short
  <2>2. HasSibling(t, members, b, p, s)
    BY <1>3, <2>1, SiblingThere, Zenon
  <2> QED
    BY <2>1, <2>2 DEF Shaped, HasSibling
<1>8. CASE Borrow(t, s, w, p)
  <2>1. cur' = tree'.root
    BY <1>8, Zenon DEF Borrow
  <2>2. ~ DeleteFixes'
    BY <2>1 DEF DeleteFixes
  <2> QED
    BY <1>1, <2>2 DEF Climbs
<1>9. CASE MoveUp(t, w, p)
  <2>1. tree' = Painted(t, w, "red") /\ cur' = p
    BY <1>9, Zenon DEF MoveUp
  <2> HIDE DEF w
  <2>2. ColorSets(t, tree', w, "red")
    <3>1. w \in Node \cup {Nil} /\ "red" \in {"red", "black"}
      BY <1>7
    <3> QED
      BY <1>7, <2>1, <3>1, ColorSet
  <2>3. CASE t.color[p] = "red"
    <3>1. p \in Node
      BY <1>3 DEF Shaped
    <3>2. tree'.color[p] = "red"
      BY <2>2, <2>3, <3>1 DEF ColorSets
    <3>3. ~ DeleteFixes'
      BY <2>1, <3>2 DEF DeleteFixes
    <3> QED
      BY <1>1, <3>3 DEF Climbs
  <2>4. CASE t = tree
    <3>1. tree'.root = tree.root /\ tree'.parent = tree.parent
      BY <2>2, <2>4 DEF ColorSets
    <3>2. Deeper(tree, members, cur)
      BY <1>3, <1>4, ParentHigher
    <3>3. Depth(tree', cur') = DepthIn(tree'.root, tree'.parent, members, cur')
      BY DepthIs
    <3>4. Depth(tree, cur) = DepthIn(tree.root, tree.parent, members, cur)
      BY DepthIs
    <3>5. Depth(tree', cur') < Depth(tree, cur)
      BY <1>3, <2>1, <3>1, <3>2, <3>3, <3>4 DEF Deeper
    <3> QED
      BY <3>5 DEF Climbs
  <2> QED
    BY <1>5, <2>3, <2>4 DEF BlackBeside
<1> QED
  BY <1>1, <1>8, <1>9

\* A repair ends: each of its rounds is the last, or the next one starts from
\* higher up in the tree.
THEOREM TreeRepairsClimb == TreeSpec => RoundsClimb
<1>1. IInv /\ [TreeNext]_treeVars => [Climbs]_treeVars
  <2> SUFFICES ASSUME IInv, TreeNext PROVE Climbs
    OBVIOUS
  <2>1. CASE \E n \in Node : Insert(n) \/ Delete(n)
    BY <2>1 DEF Insert, Delete, Climbs
  <2>2. CASE InsertEnds \/ DeleteEnds
    BY <2>2 DEF InsertEnds, DeleteEnds, Climbs
  <2>3. CASE InsertFix
    BY <2>3, InsertClimbs, Zenon
  <2>4. CASE DeleteFix
    BY <2>4, DeleteClimbs, Zenon
  <2> QED
    BY <2>1, <2>2, <2>3, <2>4, Zenon DEF TreeNext
<1> QED
  BY <1>1, TreeInvariant, PTL DEF TreeSpec, RoundsClimb
=============================================================================
