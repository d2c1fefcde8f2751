-------------------------------- MODULE RBTree --------------------------------
(***************************************************************************)
(* The red-black tree of the hash ring (lib/ring/rbtree.js): top-down      *)
(* insertion and removal, and the iterator.  A node is known by its key;   *)
(* where the code copies a key from one node into another, the node is     *)
(* renamed.  Every loop is a function of the number of its passes, up to   *)
(* more of them than it needs.                                             *)
(***************************************************************************)
EXTENDS Integers, Sequences, FiniteSets

CONSTANTS
  Nil,      \* null
  Fake      \* the fake root above the root

Point == Nat \X Nat     \* a hash, and the address of its server
ASSUME RBTreeAssumption == Nil # Fake /\ Nil \notin Point /\ Fake \notin Point

(* HashRing.comparator (index.js 38-57): points of one hash are ordered by *)
(* the address of their server, which a key that is looked up has not.     *)
Less(a, b) == a[1] < b[1] \/ (a[1] = b[1] /\ a[2] < b[2])

Dir == {"left", "right"}
Other(dir) == IF dir = "left" THEN "right" ELSE "left"
Toward(x, key) == IF Less(x, key) THEN "right" ELSE "left"

EmptyTree == [nodes |-> {Fake}, red |-> {}, child |-> [slot \in {Fake} \X Dir |-> Nil]]
Root(t) == t.child[<<Fake, "right">>]
KeysOf(t) == t.nodes \ {Fake}

SetChild(t, x, dir, c) == [t EXCEPT !.child = [@ EXCEPT ![<<x, dir>>] = c]]
Paint(t, reds, blacks) == [t EXCEPT !.red = (@ \cup reds) \ blacks]

(* A new red node, below p. *)
Attach(t, key, p, dir) ==
  [nodes |-> t.nodes \cup {key}, red |-> t.red \cup {key},
   child |-> [slot \in (t.nodes \cup {key}) \X Dir |->
                IF slot = <<p, dir>> THEN key
                ELSE IF slot[1] = key THEN Nil ELSE t.child[slot]]]

----------------------------------------------------------------------------
(* Faulty variant: the nodes keep their colours. *)
RotatePlain(t, x, dir) ==
  LET save == t.child[<<x, Other(dir)>>]
  IN [tree |-> SetChild(SetChild(t, x, Other(dir), t.child[<<save, dir>>]), save, dir, x),
      top |-> save]
(* singleRotate (54-64) and doubleRotate (66-69): the tree, and what the   *)
(* caller hangs where x was.                                               *)
Rotate(t, x, dir) ==
  LET save == t.child[<<x, Other(dir)>>]
      moved == SetChild(SetChild(t, x, Other(dir), t.child[<<save, dir>>]), save, dir, x)
  IN [tree |-> Paint(moved, {x}, {save}), top |-> save]
Hang(r, parent, dir) == SetChild(r.tree, parent, dir, r.top)
DoubleRotate(t, x, dir) ==
  Rotate(Hang(Rotate(t, t.child[<<x, Other(dir)>>], Other(dir)), x, Other(dir)), x, dir)

(* One pass of insert's loop (90-132): node is where the walk for key is;  *)
(* p, gp and ggp are above it.  A new node, or a colour flip (91-101).     *)
Grown(s, key) ==
  LET children == {s.tree.child[<<s.node, d>>] : d \in Dir}
  IN IF s.node = Nil THEN Attach(s.tree, key, s.p, s.dir)
     ELSE IF children \subseteq s.tree.red THEN Paint(s.tree, {s.node}, children)
     ELSE s.tree
(* The red violation is fixed (103-112). *)
Fixed(t, s, here) ==
  IF ~({here, s.p} \subseteq t.red) THEN t
  ELSE Hang(IF here = t.child[<<s.p, s.last>>] THEN Rotate(t, s.gp, Other(s.last))
                                            ELSE DoubleRotate(t, s.gp, Other(s.last)),
            s.ggp, IF t.child[<<s.ggp, "right">>] = s.gp THEN "right" ELSE "left")
InsertStep(s, key) ==
  LET here == IF s.node = Nil THEN key ELSE s.node
      t == Fixed(Grown(s, key), s, here)
      next == Toward(here, key)
  IN [tree |-> t, ggp |-> IF s.gp = Nil THEN s.ggp ELSE s.gp, gp |-> s.p, p |-> here,
      node |-> t.child[<<here, next>>], dir |-> next, last |-> s.dir, done |-> here = key]

(* insert (72-146). *)
InsertPasses(t) == 2 * Cardinality(KeysOf(t)) + 1
InsertWalk(t, key) ==
  LET walk[n \in 0..InsertPasses(t)] ==
        IF n = 0
        THEN [tree |-> t, ggp |-> Fake, gp |-> Nil, p |-> Nil, node |-> Root(t),
              dir |-> "left", last |-> "left", done |-> FALSE]
        ELSE LET s == walk[n - 1] IN IF s.done THEN s ELSE InsertStep(s, key)
  IN walk[InsertPasses(t)]
Insert(t, key) ==
  LET t1 == IF Root(t) = Nil THEN Attach(t, key, Fake, "right") ELSE InsertWalk(t, key).tree
  IN Paint(t1, {}, {Root(t1)})

(* A child of the sibling lends its colour (199-213).  Both the turns and   *)
(* the last two colours are those of the node that then is below gp.       *)
Lent(t, gp, p, node, lastDir) ==
  LET sibling == t.child[<<p, Other(lastDir)>>]
      gpDir == IF t.child[<<gp, "right">>] = p THEN "right" ELSE "left"
      turned == Hang(IF t.child[<<sibling, lastDir>>] \in t.red THEN DoubleRotate(t, p, lastDir)
                                                            ELSE Rotate(t, p, lastDir),
                     gp, gpDir)
      gpc == turned.child[<<gp, gpDir>>]
  IN Paint(turned, {gpc, node}, {turned.child[<<gpc, d>>] : d \in Dir})

(* The red node is pushed below p (184-216): the tree, and the parent of   *)
(* the node then.                                                          *)
PushRed(t, gp, p, node, dir, lastDir) ==
  LET sibling == t.child[<<p, Other(lastDir)>>]
      r == Rotate(t, node, dir)
  IN IF node \in t.red \/ t.child[<<node, dir>>] \in t.red THEN [tree |-> t, parent |-> p]
     ELSE IF t.child[<<node, Other(dir)>>] \in t.red
     THEN [tree |-> Hang(r, p, lastDir), parent |-> r.top]
     ELSE IF sibling = Nil THEN [tree |-> t, parent |-> p]
     ELSE IF \A d \in Dir : t.child[<<sibling, d>>] \notin t.red
     THEN [tree |-> Paint(t, {sibling, node}, {p}), parent |-> p]
     ELSE [tree |-> Lent(t, gp, p, node, lastDir), parent |-> p]

(* One pass of remove's loop (167-217); found is Nil until the key was met.*)
RemoveStep(s, key) ==
  LET next == s.tree.child[<<s.node, s.dir>>]
      dir == Toward(next, key)
      push == PushRed(s.tree, s.p, s.node, next, dir, s.dir)
  IN IF next = Nil THEN s
     ELSE [tree |-> push.tree, p |-> push.parent, node |-> next, dir |-> dir,
           found |-> IF next = key THEN key ELSE s.found]

(* The node at the bottom is taken out, and takes the place of the one     *)
(* that was found (219-225).                                               *)
Splice(t, found, p, node) ==
  LET left == t.child[<<node, "left">>]
      t1 == SetChild(t, p, IF t.child[<<p, "right">>] = node THEN "right" ELSE "left",
                     IF left = Nil THEN t.child[<<node, "right">>] ELSE left)
      was(x) == IF x = node THEN found ELSE x
      is(x) == IF x = found THEN node ELSE x
      nodes == t.nodes \ {found}
  IN [nodes |-> nodes, red |-> {x \in nodes : was(x) \in t.red},
      child |-> [slot \in nodes \X Dir |-> is(t1.child[<<was(slot[1]), slot[2]>>])]]

(* remove (154-234). *)
RemoveWalk(t, key) ==
  LET walk[n \in 0..Cardinality(KeysOf(t))] ==
        IF n = 0 THEN [tree |-> t, p |-> Nil, node |-> Fake, dir |-> "right", found |-> Nil]
        ELSE RemoveStep(walk[n - 1], key)
  IN walk[Cardinality(KeysOf(t))]
RemoveNode(t, key) ==
  LET end == RemoveWalk(t, key)
      t1 == IF end.found = Nil THEN end.tree
            ELSE Splice(end.tree, end.found, end.p, end.node)
  IN IF Root(t) = Nil THEN t ELSE Paint(t1, {}, {Root(t1)})

----------------------------------------------------------------------------
(* The iterator: the node it is at and the ancestors to come back to       *)
(* (293-344).                                                              *)
NoIterator == [cursor |-> Nil, ancestors |-> << >>]
MinNode(t, ancestors, start) ==
  LET walk[n \in 0..Cardinality(t.nodes)] ==
        IF n = 0 THEN [cursor |-> start, ancestors |-> ancestors]
        ELSE LET i == walk[n - 1]
                 left == t.child[<<i.cursor, "left">>]
             IN IF left = Nil THEN i
                ELSE [cursor |-> left, ancestors |-> Append(i.ancestors, i.cursor)]
  IN walk[Cardinality(t.nodes)]

(* Back to the last ancestor of those that `here` holds of. *)
BackTo(ancestors, here) ==
  LET n == CHOOSE i \in here : \A j \in here : j <= i
  IN IF here = {} THEN NoIterator
     ELSE [cursor |-> ancestors[n], ancestors |-> SubSeq(ancestors, 1, n - 1)]

(* Going up (316-327): past every ancestor whose right child is left.      *)
NextOf(t, i) ==
  LET n == Len(i.ancestors)
      way == Append(i.ancestors, i.cursor)
      right == t.child[<<i.cursor, "right">>]
  IN IF i.cursor = Nil THEN IF Root(t) = Nil THEN i ELSE MinNode(t, << >>, Root(t))
     ELSE IF right = Nil
     THEN BackTo(i.ancestors, {k \in 1..n : t.child[<<way[k], "right">>] # way[k + 1]})
     ELSE MinNode(t, way, right)

(* lowerBound (237-262): the way down, and back up to the first larger key.*)
WayTo(t, key) ==
  LET walk[n \in 0..Cardinality(t.nodes)] ==
        IF n = 0 THEN [cursor |-> Root(t), ancestors |-> << >>]
        ELSE LET i == walk[n - 1] IN
             IF i.cursor \in {Nil, key} THEN i
             ELSE [cursor |-> t.child[<<i.cursor, Toward(i.cursor, key)>>],
                   ancestors |-> Append(i.ancestors, i.cursor)]
  IN walk[Cardinality(t.nodes)]
LowerBound(t, key) ==
  LET way == WayTo(t, key)
  IN IF way.cursor # Nil THEN way
     ELSE BackTo(way.ancestors,
                 {k \in 1..Len(way.ancestors) : Less(key, way.ancestors[k])})

(* upperBound (265-273): lowerBound never stops before the key. *)
UpperBound(t, key) ==
  LET walk[n \in 0..Cardinality(t.nodes)] ==
        IF n = 0 THEN LowerBound(t, key)
        ELSE LET i == walk[n - 1]
             IN IF i.cursor # Nil /\ Less(i.cursor, key) THEN NextOf(t, i) ELSE i
  IN walk[Cardinality(t.nodes)]

----------------------------------------------------------------------------
(* What a red-black tree is.  <<x, y>> is in Under(t) if y is x or below   *)
(* it: in every set that holds x and, with a key, its children.            *)
Closed(t, S) == \A x \in S : \A d \in Dir : t.child[<<x, d>>] = Nil \/ t.child[<<x, d>>] \in S
Under(t) ==
  LET sets == {S \in SUBSET KeysOf(t) : Closed(t, S)}
  IN {xy \in KeysOf(t) \X KeysOf(t) : \A S \in sets : xy[1] \in S => xy[2] \in S}

Ends(t) == {x \in KeysOf(t) : \E d \in Dir : t.child[<<x, d>>] = Nil}
BlacksAbove(t, under, x) == Cardinality({y \in KeysOf(t) \ t.red : <<y, x>> \in under})

(* Every key is under the root, on its side of the keys above it; the root *)
(* is black; no red node has a red child; as many black nodes lie above    *)
(* every place where a key may be added.                                   *)
IsRedBlack(t) ==
  LET under == Under(t) IN
  /\ \A x \in KeysOf(t) : <<Root(t), x>> \in under
  /\ \A x, y \in KeysOf(t) : \A d \in Dir :
       <<t.child[<<x, d>>], y>> \in under => y # x /\ Toward(x, y) = d
  /\ Root(t) \notin t.red
  /\ \A x \in t.red : \A d \in Dir : t.child[<<x, d>>] \notin t.red
  /\ \A x, y \in Ends(t) : BlacksAbove(t, under, x) = BlacksAbove(t, under, y)
=============================================================================
