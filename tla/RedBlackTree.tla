----------------------------- MODULE RedBlackTree -----------------------------
(***************************************************************************)
(* The tree of src/win32/wepoll.c that holds the ports and the sockets: a  *)
(* red-black tree of nodes that lie in the objects they stand for, so that *)
(* an insertion or a deletion changes pointers and colours only.           *)
(*                                                                         *)
(* A node is its key, 0 is NULL.  A side is the name of the field, as the  *)
(* macros of the source take cis and trans.                                *)
(***************************************************************************)
EXTENDS Integers, FiniteSets

CONSTANT MaxKey          \* BOUND

RedBlackTreeAssumption == MaxKey \in Nat

VARIABLES
    tree,                \* root and the fields of every node
    added                \* keys tree_add took and tree_del did not yet give back

vars == <<tree, added>>

Keys == 1..MaxKey
Nodes == 0..MaxKey
Tree == [root : Nodes, left : [Keys -> Nodes], right : [Keys -> Nodes],
         parent : [Keys -> Nodes], red : [Keys -> BOOLEAN]]

TypeOK == tree \in Tree /\ added \in SUBSET Keys

Init ==
    /\ tree = [root |-> 0, left |-> [k \in Keys |-> 0], right |-> [k \in Keys |-> 0],
               parent |-> [k \in Keys |-> 0], red |-> [k \in Keys |-> FALSE]]
    /\ added = {}

Other(side) == IF side = "left" THEN "right" ELSE "left"
SideOf(t, node, parent) == IF t.left[parent] = node THEN "left" ELSE "right"

(* What points down to node points to other instead. *)
Replace(t, parent, node, other) ==
    IF parent = 0 THEN [t EXCEPT !.root = other]
                  ELSE [t EXCEPT ![SideOf(t, node, parent)][parent] = other]

Attach(t, node, parent) == IF node = 0 THEN t ELSE [t EXCEPT !.parent[node] = parent]
Paint(t, node, red) == IF node = 0 THEN t ELSE [t EXCEPT !.red[node] = red]
IsRed(t, node) == node # 0 /\ t.red[node]

Put(t, side, node, other) == [t EXCEPT ![side][node] = other]

(* q takes the place of p above it. *)
Raise(t, q, p) ==
    Attach(Attach(Replace(t, t.parent[p], p, q), q, t.parent[p]), p, q)

(* Mutation: the subtree that changes sides is not told its new parent. *)
RotateDetached(t, p, cis) ==
    LET q == t[Other(cis)][p]
    IN  Put(Put(Raise(t, q, p), Other(cis), p, t[cis][q]), cis, q, p)

(* TREE__ROTATE: p goes down on side cis, its child on the other side up. *)
Rotate(t, p, cis) ==
    LET q == t[Other(cis)][p]
    IN  Put(Attach(Put(Raise(t, q, p), Other(cis), p, t[cis][q]), t[cis][q], p), cis, q, p)

-----------------------------------------------------------------------------
(* A loop that goes down or up the tree; no path is longer than there are keys. *)
Walk(step, start) ==
    LET at[n \in 0..MaxKey] == IF n = 0 THEN start ELSE step[at[n - 1]]
    IN  at[MaxKey]

Child(t, node, key) == IF key < node THEN t.left[node] ELSE t.right[node]

(* tree_find: the way down ends in the key or in NULL. *)
Find(t, key) ==
    Walk([node \in Nodes |-> IF node \in {0, key} THEN node ELSE Child(t, node, key)], t.root)

(* The node that gets the key as a child, NULL in an empty tree. *)
Bottom(t, key) ==
    Walk([node \in Nodes |-> IF node = 0 \/ Child(t, node, key) = 0 THEN node
                             ELSE Child(t, node, key)], t.root)

(* TREE__REBALANCE_AFTER_INSERT, if the loop goes on. *)
InsertRound(s) ==
    LET t == s.tree
        node == s.node
        parent == t.parent[node]
        grandparent == t.parent[parent]
        cis == SideOf(t, parent, grandparent)
        uncle == t[Other(cis)][grandparent]
        inner == node = t[Other(cis)][parent]
        straight == IF inner THEN Rotate(t, parent, cis) ELSE t
        middle == IF inner THEN node ELSE parent
    IN  IF ~IsRed(t, parent) THEN s
        ELSE IF IsRed(t, uncle)
        THEN [tree |-> Paint(Paint(Paint(t, parent, FALSE), uncle, FALSE), grandparent, TRUE),
              node |-> grandparent]
        ELSE [tree |-> Rotate(Paint(Paint(straight, middle, FALSE), grandparent, TRUE),
                              grandparent, Other(cis)),
              node |-> IF inner THEN parent ELSE node]

(* The loop goes up, and ends at the root at the latest. *)
RebalanceAfterInsert(t, node) ==
    LET end == Walk([s \in [tree : Tree, node : Nodes] |-> InsertRound(s)],
                    [tree |-> t, node |-> node]).tree
    IN  Paint(end, end.root, FALSE)

(* A key that is there already is refused. *)
Add(key) ==
    /\ Find(tree, key) = 0
    /\ LET parent == Bottom(tree, key)
           linked == IF parent = 0 THEN [tree EXCEPT !.root = key]
                     ELSE [tree EXCEPT ![IF key < parent THEN "left" ELSE "right"][parent] = key]
           node == [linked EXCEPT !.left[key] = 0, !.right[key] = 0,
                                  !.parent[key] = parent, !.red[key] = TRUE]
       IN  tree' = RebalanceAfterInsert(node, key)
    /\ added' = added \cup {key}

-----------------------------------------------------------------------------
(* A red sibling goes up, what node has then for a sibling is black. *)
BlackSibling(t, parent, cis) ==
    LET sibling == t[Other(cis)][parent]
    IN  IF ~IsRed(t, sibling) THEN t
        ELSE Rotate(Paint(Paint(t, sibling, FALSE), parent, TRUE), parent, cis)

(* Of the sibling's children the one away from node is red. *)
RedOutside(t, sibling, trans) ==
    LET inner == t[Other(trans)][sibling]
    IN  IF IsRed(t, t[trans][sibling]) THEN t
        ELSE Rotate(Paint(Paint(t, inner, FALSE), sibling, TRUE), sibling, trans)

(* The parent, black now, goes down to node. *)
BlackFor(t, parent, cis) ==
    LET sibling == t[Other(cis)][parent]
    IN  Rotate(Paint(Paint(Paint(t, sibling, t.red[parent]), parent, FALSE),
                     t[Other(cis)][sibling], FALSE), parent, cis)

(* TREE__REBALANCE_AFTER_REMOVE, if the loop goes on: the paths through    *)
(* node, maybe NULL, have a black node less than those through its sibling. *)
RemoveRound(s) ==
    LET parent == s.parent
        cis == SideOf(s.tree, s.node, parent)
        t == BlackSibling(s.tree, parent, cis)
        sibling == t[Other(cis)][parent]
        rotated == BlackFor(RedOutside(t, sibling, Other(cis)), parent, cis)
    IN  IF s.node = s.tree.root \/ IsRed(s.tree, s.node) THEN s
        ELSE IF IsRed(t, t.left[sibling]) \/ IsRed(t, t.right[sibling])
        THEN [tree |-> rotated, node |-> rotated.root, parent |-> 0]
        ELSE [tree |-> Paint(t, sibling, TRUE), node |-> parent, parent |-> t.parent[parent]]

RebalanceAfterRemove(t, node, parent) ==
    LET end == Walk([s \in [tree : Tree, node : Nodes, parent : Nodes] |-> RemoveRound(s)],
                    [tree |-> t, node |-> node, parent |-> parent])
    IN  Paint(end.tree, end.node, FALSE)

Leftmost(t, node) ==
    Walk([k \in Nodes |-> IF k = 0 \/ t.left[k] = 0 THEN k ELSE t.left[k]], node)

(* next has what was left of the node, and its parent and colour; then what  *)
(* was right of it too, when next itself was further down, where child stays. *)
Placed(t, next, left, parent, red) ==
    [t EXCEPT !.red[next] = red, !.left[next] = left, !.parent[left] = next, !.parent[next] = parent]
Freed(t, next, right, child, parent) ==
    [t EXCEPT !.left[parent] = child, !.right[next] = right, !.parent[right] = next]

(* node leaves the tree; with two children its successor takes its place.   *)
(* What is left to repair: the tree, the child that moved up, its parent,   *)
(* and the colour that is missing.                                          *)
Unlink(t, node) ==
    LET left == t.left[node]
        right == t.right[node]
        two == left # 0 /\ right # 0
        next == IF left = 0 THEN right ELSE IF right = 0 THEN left ELSE Leftmost(t, right)
        up == Replace(t, t.parent[node], node, next)
        placed == Placed(up, next, left, t.parent[node], t.red[node])
        child == IF two THEN t.right[next] ELSE next
        parent == IF ~two THEN t.parent[node] ELSE IF next = right THEN next ELSE t.parent[next]
        moved == IF ~two THEN up ELSE IF next = right THEN placed
                 ELSE Freed(placed, next, right, child, parent)
    IN  [tree |-> Attach(moved, child, parent), child |-> child, parent |-> parent,
         red |-> IF two THEN t.red[next] ELSE t.red[node]]

(* The node's own fields are left as they are, for tree_add to write. *)
Clear(t, node) ==
    [t EXCEPT !.left[node] = 0, !.right[node] = 0, !.parent[node] = 0, !.red[node] = FALSE]

Del(key) ==
    /\ Find(tree, key) # 0
    /\ LET u == Unlink(tree, key)
           repaired ==
               IF u.red THEN u.tree
               ELSE IF IsRed(u.tree, u.child) THEN Paint(u.tree, u.child, FALSE)
               ELSE RebalanceAfterRemove(u.tree, u.child, u.parent)
       IN  tree' = Clear(repaired, key)
    /\ added' = added \ {key}

Next == \E key \in Keys : Add(key) \/ Del(key)

Spec == Init /\ [][Next]_vars

-----------------------------------------------------------------------------
(* The numbers of black nodes on the paths down from a node, from those of its children. *)
BlackHeights(t, node) ==
    Walk([heights \in [Nodes -> SUBSET Nat] |->
             [k \in Nodes |->
                 IF k = 0 THEN {0}
                 ELSE {h + (IF t.red[k] THEN 0 ELSE 1) :
                          h \in heights[t.left[k]] \cup heights[t.right[k]]}]],
         [k \in Nodes |-> IF k = 0 THEN {0} ELSE {}])[node]

(* The tree finds the keys that were added and not deleted, no others, and   *)
(* the nodes know their parents, without which a later rotation would lose   *)
(* part of the tree.                                                         *)
FindsWhatWasAdded ==
    /\ \A key \in Keys : Find(tree, key) # 0 <=> key \in added
    /\ \A key \in added :
          IF tree.parent[key] = 0 THEN tree.root = key
          ELSE key \in {tree.left[tree.parent[key]], tree.right[tree.parent[key]]}

(* It stays balanced after any sequence of calls: no red node has a red      *)
(* child, all paths have the same number of black nodes.                     *)
Balanced ==
    /\ ~IsRed(tree, tree.root)
    /\ \A key \in added : tree.red[key] => ~IsRed(tree, tree.left[key]) /\ ~IsRed(tree, tree.right[key])
    /\ Cardinality(BlackHeights(tree, tree.root)) = 1

TreeCorrect == FindsWhatWasAdded /\ Balanced
===============================================================================
