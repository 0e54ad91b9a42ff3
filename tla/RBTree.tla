-------------------------------- MODULE RBTree --------------------------------
(***************************************************************************)
(* The red-black tree (util/scraft_rbt.c) in which p7, p7r and ek3 keep      *)
(* their timers.  Insertion and deletion are one step up to their loops,    *)
(* and one step for each round of the loop that repairs the colors.  The    *)
(* two mirrored halves of each loop are one action with a side.            *)
(***************************************************************************)
EXTENDS Integers, Sequences, FiniteSets, Functions

CONSTANTS Node,     \* struct scraft_rbtree_node
          KeyOf,    \* *(node->key_ref), the same while the node is in the tree
          Nil,      \* tree->sentinel
          NoNode    \* NULL, and what is not read any more

ASSUME RBTreeAssumption ==
    /\ Nil \notin Node /\ NoNode \notin Node \cup {Nil}
    /\ KeyOf \in [Node -> Int]

Side == {"left", "right"}
Other(s) == IF s = "left" THEN "right" ELSE "left"

VARIABLES tree,      \* root, and the child, parent and color of the nodes
          members,   \* the nodes inserted and not deleted since
          loop, cur    \* in which loop, and its node (`node' or `tmp')

treeVars == <<tree, members, loop, cur>>

TreeInit ==
    /\ tree = [root |-> Nil,
               child |-> [s \in Side |-> [n \in Node |-> NoNode]],
               parent |-> [n \in Node \cup {Nil} |-> NoNode],
               color |-> [n \in Node \cup {Nil} |-> "black"]]
    /\ members = {}
    /\ loop = "idle" /\ cur = Nil

Parent(n) == tree.parent[n]
SideOf(t, n) == IF n = t.child["left"][t.parent[n]] THEN "left" ELSE "right"
Painted(t, n, c) == [t EXCEPT !.color[n] = c]
WithChild(t, s, n, m) == [t EXCEPT !.child[s][n] = m]
WithParent(t, n, m) == [t EXCEPT !.parent[n] = m]

\* Both children of n are none: Nil, or NoNode in a node that is free.
Childless(t, n, none) == WithChild(WithChild(t, "left", n, none), "right", n, none)

\* In t, new comes where n is below n's parent, or at the root.
Replaced(t, n, new) ==
    IF n = t.root THEN [t EXCEPT !.root = new]
    ELSE WithChild(t, SideOf(t, n), t.parent[n], new)

\* m gets the parent p, but for the sentinel.
Adopted(t, m, p) == IF m = Nil THEN t ELSE WithParent(t, m, p)

\* A fault: the subtree that changes sides keeps its parent.
RotatedOrphan(t, s, n) ==
    LET up     == t.child[Other(s)][n]
        middle == t.child[s][up]
        t1     == WithChild(t, Other(s), n, middle)
        t2     == Replaced(WithParent(t1, up, t.parent[n]), n, up)
    IN WithParent(WithChild(t2, s, up, n), n, up)

\* rbt_left_rotate (s = "left") and rbt_right_rotate: n goes down on side s,
\* and its child from the other side comes up.
Rotated(t, s, n) ==
    LET up     == t.child[Other(s)][n]
        middle == t.child[s][up]
        t1     == Adopted(WithChild(t, Other(s), n, middle), middle, n)
        t2     == Replaced(WithParent(t1, up, t.parent[n]), n, up)
    IN WithParent(WithChild(t2, s, up, n), n, up)

(***************************************************************************)
(* scraft_rbt_insert.                                                      *)
(***************************************************************************)
\* The side of p on which n belongs.
SideBelow(n, p) == IF KeyOf[n] <= KeyOf[p] THEN "left" ELSE "right"

\* rbt_bst_insert goes down to the node that gets n as its child.
Leaf(n) ==
    LET down[p \in members] ==
            LET next == tree.child[SideBelow(n, p)][p]
            IN IF next = Nil THEN p ELSE down[next]
    IN down[tree.root]

InsertFirst(n) ==
    /\ tree.root = Nil
    /\ tree' = Painted(WithParent(Childless([tree EXCEPT !.root = n], n, Nil), n, NoNode),
                       n, "black")
    /\ UNCHANGED <<loop, cur>>

InsertBelow(n) ==
    /\ tree.root # Nil
    /\ LET p == Leaf(n) IN
       tree' = Painted(WithParent(WithChild(Childless(tree, n, Nil), SideBelow(n, p), p, n),
                                  n, p), n, "red")
    /\ loop' = "insert" /\ cur' = n

Insert(n) ==
    /\ loop = "idle" /\ n \notin members
    /\ members' = members \cup {n}
    /\ InsertFirst(n) \/ InsertBelow(n)

InsertFixes == cur # tree.root /\ tree.color[Parent(cur)] = "red"

\* The uncle is red: the trouble moves two levels up.
Recolor(s, p, g) ==
    LET uncle == tree.child[Other(s)][g] IN
    /\ tree.color[uncle] = "red"
    /\ tree' = Painted(Painted(Painted(tree, p, "black"), uncle, "black"), g, "red")
    /\ cur' = g

\* A fault: an inner grandchild is not rotated outside first.
RotateOnce(s, p, g) ==
    /\ tree.color[tree.child[Other(s)][g]] = "black"
    /\ tree' = Rotated(Painted(Painted(tree, p, "black"), g, "red"), Other(s), g)
    /\ UNCHANGED cur

\* The uncle is black: one rotation or two repair the tree.
Rotate(s, p, g) ==
    LET inner == cur = tree.child[Other(s)][p]
        t     == IF inner THEN Rotated(tree, s, p) ELSE tree
        low   == IF inner THEN p ELSE cur
        mid   == t.parent[low]
    IN /\ tree.color[tree.child[Other(s)][g]] = "black"
       /\ tree' = Rotated(Painted(Painted(t, mid, "black"), g, "red"), Other(s), g)
       /\ cur' = low

InsertFix ==
    /\ loop = "insert" /\ InsertFixes
    /\ LET p == Parent(cur)
           g == Parent(p)
           s == SideOf(tree, p)
       IN Recolor(s, p, g) \/ Rotate(s, p, g)
    /\ UNCHANGED <<members, loop>>

InsertEnds ==
    /\ loop = "insert" /\ ~ InsertFixes
    /\ tree' = Painted(tree, tree.root, "black")
    /\ loop' = "idle" /\ cur' = Nil
    /\ UNCHANGED members

(***************************************************************************)
(* scraft_rbt_delete.                                                      *)
(***************************************************************************)
\* scraft_rbtree_getmin
Least(n) ==
    LET down[m \in members] == IF tree.child["left"][m] = Nil THEN m
                               ELSE down[tree.child["left"][m]]
    IN down[n]

\* The node that leaves its place: n or, if n has two children, its successor;
Subst(n) == IF \E s \in Side : tree.child[s][n] = Nil THEN n
            ELSE Least(tree.child["right"][n])

\* and that node's only child or the sentinel, which comes there.
Heir(m) == IF tree.child["left"][m] = Nil THEN tree.child["right"][m]
           ELSE tree.child["left"][m]

\* Nobody reads the fields of a node that was deleted.
Freed(t, n) == Painted(WithParent(Childless(t, n, NoNode), n, NoNode), n, "black")

\* The root goes, and it has a child at most.
DeleteRoot(n) ==
    LET tmp == Heir(n) IN
    /\ Subst(n) = n /\ n = tree.root
    /\ tree' = Freed(Painted([tree EXCEPT !.root = tmp], tmp, "black"), n)
    /\ UNCHANGED <<loop, cur>>

\* t with the child tmp in the place of n.
Unlinked(n, tmp) == WithParent(Replaced(tree, n, tmp), tmp, Parent(n))

\* t with tmp in the place of subst, and subst in that of n.
Exchanged(n, subst, tmp) ==
    LET t1 == WithParent(Replaced(tree, subst, tmp), tmp,
                         IF Parent(subst) = n THEN subst ELSE Parent(subst))
        t2 == WithChild(WithChild(t1, "left", subst, t1.child["left"][n]),
                        "right", subst, t1.child["right"][n])
        t3 == Replaced(Painted(WithParent(t2, subst, t1.parent[n]),
                               subst, t1.color[n]), n, subst)
    IN Adopted(Adopted(t3, t3.child["left"][subst], subst),
               t3.child["right"][subst], subst)

\* The colors are to be repaired if a black node has left its place.
DeleteBelow(n) ==
    LET subst == Subst(n)
        tmp   == Heir(subst)
    IN /\ subst # tree.root
       /\ tree' = Freed(IF subst = n THEN Unlinked(n, tmp)
                        ELSE Exchanged(n, subst, tmp), n)
       /\ IF tree.color[subst] = "red" THEN UNCHANGED <<loop, cur>>
          ELSE loop' = "delete" /\ cur' = tmp

Delete(n) ==
    /\ loop = "idle" /\ n \in members
    /\ members' = members \ {n}
    /\ DeleteRoot(n) \/ DeleteBelow(n)

DeleteFixes == cur # tree.root /\ tree.color[cur] = "black"

\* A red sibling (fix_target) is rotated up, so that the sibling is black.
WithBlackSibling(s, p) ==
    LET w == tree.child[Other(s)][p] IN
    IF tree.color[w] = "black" THEN tree
    ELSE Rotated(Painted(Painted(tree, w, "black"), p, "red"), s, p)

\* The sibling's children are black: the trouble moves up.
MoveUp(t, w, p) ==
    /\ \A s \in Side : t.color[t.child[s][w]] = "black"
    /\ tree' = Painted(t, w, "red")
    /\ cur' = p

\* A fault: the outer nephew keeps its color.
BorrowRed(t, s, w, p) ==
    LET inner == t.child[s][w]
        outer == t.child[Other(s)][w]
        far   == t.color[outer] = "black"
        t1    == IF far THEN Rotated(Painted(Painted(t, inner, "black"), w, "red"),
                                     Other(s), w) ELSE t
        w1    == t1.child[Other(s)][p]
        t2    == Painted(Painted(t1, w1, t1.color[p]), p, "black")
    IN /\ \E c \in Side : t.color[t.child[c][w]] = "red"
       /\ tree' = Rotated(t2, s, p)
       /\ cur' = tree'.root

\* One of them is red: one rotation or two repair the tree.
Borrow(t, s, w, p) ==
    LET inner == t.child[s][w]
        outer == t.child[Other(s)][w]
        far   == t.color[outer] = "black"
        t1    == IF far THEN Rotated(Painted(Painted(t, inner, "black"), w, "red"),
                                     Other(s), w) ELSE t
        w1    == t1.child[Other(s)][p]
        t2    == Painted(Painted(t1, w1, t1.color[p]), p, "black")
        t3    == Painted(t2, t2.child[Other(s)][w1], "black")
    IN /\ \E c \in Side : t.color[t.child[c][w]] = "red"
       /\ tree' = Rotated(t3, s, p)
       /\ cur' = tree'.root

DeleteFix ==
    /\ loop = "delete" /\ DeleteFixes
    /\ LET p == Parent(cur)
           s == SideOf(tree, cur)
           t == WithBlackSibling(s, p)
           w == t.child[Other(s)][p]
       IN MoveUp(t, w, p) \/ Borrow(t, s, w, p)
    /\ UNCHANGED <<members, loop>>

DeleteEnds ==
    /\ loop = "delete" /\ ~ DeleteFixes
    /\ tree' = Painted(tree, cur, "black")
    /\ loop' = "idle" /\ cur' = Nil
    /\ UNCHANGED members

TreeNext == \/ \E n \in Node : Insert(n) \/ Delete(n)
            \/ InsertFix \/ InsertEnds \/ DeleteFix \/ DeleteEnds

TreeSpec == TreeInit /\ [][TreeNext]_treeVars

(***************************************************************************)
(* Lookups, which change nothing.                                          *)
(***************************************************************************)
\* scraft_rbtree_min
TreeMin == IF tree.root = Nil THEN Nil ELSE Least(tree.root)

\* A fault: an equal key is looked for further down.
FindStrict(k) ==
    LET down[n \in members \cup {Nil}] ==
            IF n = Nil THEN Nil
            ELSE down[tree.child[IF k <= KeyOf[n] THEN "left" ELSE "right"][n]]
    IN down[tree.root]

\* scraft_rbt_find; Nil is NULL.
Find(k) ==
    LET down[n \in members \cup {Nil}] ==
            IF n = Nil \/ k = KeyOf[n] THEN n
            ELSE down[tree.child[IF k < KeyOf[n] THEN "left" ELSE "right"][n]]
    IN IF tree.root = Nil THEN Nil ELSE down[tree.root]

-----------------------------------------------------------------------------
TreeTypeOK ==
    /\ tree.root \in Node \cup {Nil}
    /\ tree.child \in [Side -> [Node -> Node \cup {Nil, NoNode}]]
    /\ tree.parent \in [Node \cup {Nil} -> Node \cup {NoNode}]
    /\ tree.color \in [Node \cup {Nil} -> {"red", "black"}]
    /\ members \subseteq Node
    /\ loop \in {"idle", "insert", "delete"}
    /\ cur \in Node \cup {Nil}

InOrder ==
    LET f[n \in members \cup {Nil}] ==
            IF n = Nil THEN <<>>
            ELSE f[tree.child["left"][n]] \o <<n>> \o f[tree.child["right"][n]]
    IN f[tree.root]

\* The tree holds exactly the nodes that were inserted and not deleted, each
\* once, in the order of their keys, and the way up is the way down: in every
\* round of the repairs.
SearchTree ==
    LET nodes == InOrder IN
    /\ TreeTypeOK
    /\ Len(nodes) = Cardinality(members) /\ Range(nodes) = members
    /\ \A i \in 1 .. Len(nodes) - 1 : KeyOf[nodes[i]] <= KeyOf[nodes[i + 1]]
    /\ \A n \in members, s \in Side :
          tree.child[s][n] # Nil => Parent(tree.child[s][n]) = n

\* One black node is missing below the place of cur during a deletion.
Missing(p, s) ==
    IF loop = "delete" /\ tree.child[s][p] = cur /\ tree.parent[cur] = p THEN 1 ELSE 0

\* The black nodes on each way down from the root, or a negative number where
\* they are not as many on each.
BlackHeight ==
    LET f[n \in members \cup {Nil}] ==
            IF n = Nil THEN 0
            ELSE LET black == IF tree.color[n] = "black" THEN 1 ELSE 0
                     left  == f[tree.child["left"][n]] + Missing(n, "left")
                     right == f[tree.child["right"][n]] + Missing(n, "right")
                 IN IF left = right THEN left + black ELSE -2 * Cardinality(Node)
    IN f[tree.root]

\* Every way down has as many black nodes, and no red node has a red child:
\* what makes lookups logarithmic.  During a repair cur alone may break it.
RedBlack ==
    /\ BlackHeight >= 0
    /\ tree.color[Nil] = "black"
    /\ tree.color[tree.root] = "red" => loop = "insert" /\ cur = tree.root
    /\ \A n \in members, s \in Side :
          LET m == tree.child[s][n] IN
          tree.color[n] = "red" /\ tree.color[m] = "red" =>
              loop # "idle" /\ cur \in {n, m}

\* The way from n up to the root of t.
Depth(t, n) ==
    LET up[m \in members \cup {Nil}] ==
            IF m = t.root \/ t.parent[m] \notin members THEN 0 ELSE 1 + up[t.parent[m]]
    IN up[n]

\* A round of a repair is the last, or the next one starts from higher up in
\* the tree;
Climbs ==
    loop # "idle" /\ loop' = loop =>
        \/ (IF loop = "insert" THEN ~ InsertFixes ELSE ~ DeleteFixes)'
        \/ Depth(tree', cur') < Depth(tree, cur)

\* and so the repairs end.
RoundsClimb == [][Climbs]_treeVars

\* Between calls: the first timer to expire is the least, and a key is found
\* when a node has it.
LookupsAgree ==
    loop = "idle" =>
        /\ members # {} => /\ TreeMin \in members
                           /\ \A n \in members : KeyOf[TreeMin] <= KeyOf[n]
        /\ \A k \in Range(KeyOf) :
              IF \E n \in members : KeyOf[n] = k
              THEN Find(k) \in members /\ KeyOf[Find(k)] = k
              ELSE Find(k) = Nil
=============================================================================
