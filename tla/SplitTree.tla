----------------------------- MODULE SplitTree -----------------------------
(***************************************************************************)
(* The panes of a tab, mux/src/tab.rs over the tree of crates/bintree: how *)
(* splits, closings, resizes and zooming change the tree, the sizes kept   *)
(* in its splits, and which pane is active.                                *)
(*                                                                         *)
(* A position in the tree is the sequence of turns from the root, 0 to the *)
(* first child and 1 to the second.  A size has columns and rows; the axis *)
(* of a split is the one it divides.  Pixels, the panes' own copies of     *)
(* their sizes and the choice of a neighbour by direction are left out.    *)
(***************************************************************************)
EXTENDS Integers, FiniteSets, SequencesExt, FiniteSetsExt

CONSTANTS
  Panes,
  Sizes,   \* the sizes a window gives the tab
  Deltas,  \* how far a split is moved at a time
  Requests, \* the shares asked for a new pane, in cells or percent
  Gutter,  \* the cells between two panes, of each axis
  None

VARIABLES
  tree,    \* see TreeOK
  size,    \* the tab's size, TabInner::size
  active,  \* index of the active pane, from 0
  zoomed,  \* the zoomed pane or None
  before,  \* size_before_zoom
  broken   \* has a resize gone on for ever, a size wrapped around, or the tree been lost?

vars == <<tree, size, active, zoomed, before, broken>>

Axes == {"cols", "rows"}
Cross(x) == IF x = "cols" THEN "rows" ELSE "cols"
Bit == {0, 1}

(* A size of zero is ignored by resize. *)
ASSUME SplitAssumption ==
  /\ Gutter \in [Axes -> Nat \ {0}]
  /\ Sizes \subseteq [Axes -> Nat \ {0}]
  /\ Deltas \subseteq Int
  /\ Requests \subseteq [unit : {"percent", "cells"}, n : Nat]
  /\ None \notin Panes

SizeType == [Axes -> Nat]
SplitType == [axis : Axes, first : SizeType, second : SizeType]

NoTree == [split |-> <<>>, leaf |-> <<>>]

Nodes(t) == DOMAIN t.split \cup DOMAIN t.leaf
Children(D) == {Append(p, b) : p \in D, b \in Bit}
PaneSet(t) == {t.leaf[p] : p \in DOMAIN t.leaf}

(* A proper binary tree with every pane once. *)
TreeOK(t) ==
  /\ t = [split |-> t.split, leaf |-> t.leaf]
  /\ t.split \in [DOMAIN t.split -> SplitType]
  /\ t.leaf \in [DOMAIN t.leaf -> Panes] /\ IsInjective(t.leaf)
  /\ Nodes(t) \subseteq Seq(Bit) /\ IsFiniteSet(Nodes(t))
  /\ DOMAIN t.split \cap DOMAIN t.leaf = {}
  /\ Nodes(t) \ {<<>>} = Children(DOMAIN t.split)

(* Preorder: what is above comes first, then what is to the left. *)
Before(p, q) ==
  \/ p # q /\ IsPrefix(p, q)
  \/ \E i \in DOMAIN p \cap DOMAIN q : p[i] < q[i] /\ \A j \in 1..i - 1 : p[j] = q[j]

(* The leaves are numbered in preorder. *)
Index(t, p) == Cardinality({q \in DOMAIN t.leaf : Before(q, p)})
LeafAt(t, i) == CHOOSE p \in DOMAIN t.leaf : Index(t, p) = i
PathOf(t, pane) == CHOOSE p \in DOMAIN t.leaf : t.leaf[p] = pane

(* get_active_pane, None when the index has run out of the tree *)
Focused ==
  IF zoomed # None THEN zoomed
  ELSE IF active < Cardinality(DOMAIN tree.leaf) THEN tree.leaf[LeafAt(tree, active)]
  ELSE None

TypeOK ==
  /\ TreeOK(tree)
  /\ size \in SizeType /\ before \in SizeType
  /\ zoomed \in PaneSet(tree) \cup {None}
  /\ broken \in BOOLEAN
  /\ active \in Nat

Init ==
  /\ \E p \in Panes : tree = [split |-> <<>>, leaf |-> [q \in {<<>>} |-> p]]
  /\ size \in Sizes
  /\ active = 0 /\ zoomed = None /\ before = size /\ broken = FALSE

-----------------------------------------------------------------------------
(* Sizes. *)
Less(a, b) == IF a > b THEN a - b ELSE 0

(* SplitDirectionAndSize::width, height *)
Extent(s) ==
  [x \in Axes |-> IF x = s.axis THEN s.first[x] + s.second[x] + Gutter[x] ELSE s.first[x]]

Side(s, b) == IF b = 0 THEN s.first ELSE s.second

(* What the parent keeps for a position; the tab's size s for the root. *)
Allotted(t, s, p) == IF p = <<>> THEN s ELSE Side(t.split[Front(p)], Last(p))

(* compute_min_size, for every position *)
MinSize(t, x) ==
  LET least[p \in Nodes(t)] ==
        IF p \in DOMAIN t.leaf THEN 1
        ELSE LET a == least[Append(p, 0)]
                 b == least[Append(p, 1)]
             IN IF t.split[p].axis = x THEN a + b + Gutter[x] ELSE Max({a, b})
  IN least

Sized(t, p, b, x, n) ==
  IF t = NoTree THEN NoTree
  ELSE IF b = 0 THEN [t EXCEPT !.split[p].first[x] = n]
  ELSE [t EXCEPT !.split[p].second[x] = n]

(* A split across x: both children are larger by n, below[b] of their trees. *)
Across(t, p, x, n, least, below) ==
  LET first == t.split[p].first[x]
      new   == Max({first + n, least})
      d     == new - first
  IN IF d = 0 THEN t
     ELSE Sized(Sized(below[1][below[0][t][d]][d], p, 0, x, new), p, 1, x, new)

(* A split along x: one cell for (or from) the child whose turn it is, or  *)
(* for the other when there is none to take.  It is no tree any more when  *)
(* both are at one cell: the loop finds nothing and goes on.               *)
Cell(l, p, x, d, below) ==
  LET has(b) == Side(l.t.split[p], b)[x]
      b == IF d > 0 \/ has(l.turn) > 1 THEN l.turn ELSE 1 - l.turn
  IN IF l.t = NoTree \/ (d < 0 /\ has(b) <= 1) THEN [l EXCEPT !.t = NoTree]
     ELSE [t |-> Sized(below[b][l.t][d], p, b, x, has(b) + d), turn |-> 1 - b]

Along(t, p, x, n, below) ==
  LET d == IF n > 0 THEN 1 ELSE -1
      loop[k \in 0..n * d] ==
        IF k = 0 THEN [t |-> t, turn |-> 0] ELSE Cell(loop[k - 1], p, x, d, below)
  IN loop[n * d].t

(* The trees of this shape, with sizes of their own *)
Shape(t) == [split : [DOMAIN t.split -> SplitType], leaf : {t.leaf}]
Outcomes(t) == Shape(t) \cup {NoTree}

(* What it takes at p to make a tree larger by n, at its children given *)
Growing(t, p, x, least, below) ==
  [u \in Outcomes(t) |-> [n \in Int |->
     IF u = NoTree \/ n = 0 \/ p \in DOMAIN t.leaf THEN u
     ELSE IF t.split[p].axis = x THEN Along(u, p, x, n, below)
     ELSE Across(u, p, x, n, least, below)]]

(* adjust_x_size and adjust_y_size: t larger by n along x. *)
Adjust(t, x, n) ==
  LET least == MinSize(t, x)
      grow[p \in Nodes(t)] ==
        Growing(t, p, x, least[p], [b \in Bit |-> grow[Append(p, b)]])
  IN IF t = NoTree THEN NoTree ELSE grow[<<>>][t][n]

(* Mutant: the gutter between the children is forgotten. *)
ApplySizeNoGutter(t, p, s) ==
  IF p \notin DOMAIN t.split THEN t
  ELSE LET x == t.split[p].axis IN
    [t EXCEPT !.split[p].first[Cross(x)]  = s[Cross(x)],
              !.split[p].second = [y \in Axes |->
                 IF y = x THEN Less(s[x], t.split[p].first[x]) ELSE s[y]]]

(* apply_pane_size: the first child keeps its share. *)
ApplySize(t, p, s) ==
  IF p \notin DOMAIN t.split THEN t
  ELSE LET x == t.split[p].axis IN
    [t EXCEPT !.split[p].first[Cross(x)]  = s[Cross(x)],
              !.split[p].second = [y \in Axes |->
                 IF y = x THEN Less(s[x], Gutter[x] + t.split[p].first[x]) ELSE s[y]]]

(* preorder_next: the position after p, if any *)
After(t, p) ==
  IF p \in DOMAIN t.split THEN {Append(p, 0)}
  ELSE LET turns == {i \in DOMAIN p : p[i] = 0} IN
       IF turns = {} THEN {} ELSE {Append(SubSeq(p, 1, Max(turns) - 1), 1)}

(* cascade_size_from_cursor, from behind p on; w.at is where it is. *)
Resize1(w, s) ==
  LET p == CHOOSE q \in w.at : TRUE
      t == ApplySize(w.t, p, Allotted(w.t, s, p))
  IN IF w.at = {} THEN w ELSE [t |-> t, at |-> After(t, p)]

Cascade(t, s, p) ==
  LET walk[k \in 0..Cardinality(Nodes(t))] ==
        IF k = 0 THEN [t |-> t, at |-> After(t, p)] ELSE Resize1(walk[k - 1], s)
  IN walk[Cardinality(Nodes(t))].t

-----------------------------------------------------------------------------
(* resize and resize_visual, of a tab that is not zoomed *)
AtLeast(t, s) == [x \in Axes |-> Max({s[x], MinSize(t, x)[<<>>]})]

Resized(t, from, s) ==
  LET new == AtLeast(t, s) IN
  Adjust(Adjust(t, "cols", new["cols"] - from["cols"]), "rows", new["rows"] - from["rows"])

(* A tab with panes whose sizes can be reckoned with *)
Usable == PaneSet(tree) # {} /\ ~broken

(* The steps of a resize: from what size, to what, and what comes of it. *)
Becomes(t, s) ==
  IF t = NoTree THEN broken' = TRUE /\ UNCHANGED <<tree, size>>
  ELSE tree' = t /\ size' = s /\ UNCHANGED broken

Resize(s) ==
  /\ Usable
  /\ UNCHANGED <<active, zoomed, before>>
  /\ IF zoomed # None THEN Becomes(tree, s)
     ELSE Becomes(Resized(tree, size, s), AtLeast(tree, s))

ToggleZoom ==
  /\ Usable
  /\ UNCHANGED active
  /\ IF zoomed # None
       THEN /\ zoomed' = None
            /\ Becomes(Resized(tree, before, size), AtLeast(tree, size))
            /\ UNCHANGED before
       ELSE /\ zoomed' = Focused
            /\ before' = size
            /\ UNCHANGED <<tree, size, broken>>

-----------------------------------------------------------------------------
(* The nodes that at maps go to the positions it gives them. *)
Moved(f, at) ==
  LET kept == DOMAIN f \cap DOMAIN at IN
  [p \in {at[r] : r \in kept} |-> f[CHOOSE r \in kept : at[r] = p]]

Relocated(t, at) == [split |-> Moved(t.split, at), leaf |-> Moved(t.leaf, at)]

(* Everything from position q down goes one level deeper, as child b. *)
Deeper(t, q, b) ==
  Relocated(t, [r \in Nodes(t) |-> IF IsPrefix(q, r) THEN InsertAt(r, Len(q) + 1, b) ELSE r])

(* Mutant: the removed child stays, its sibling goes. *)
UnsplitOther(t, q, b) ==
  LET kept == {r \in Nodes(t) : IsPrefix(q, r) => IsPrefix(Append(q, 1 - b), r)} IN
  Relocated(t, [r \in kept |-> IF IsPrefix(q, r) THEN RemoveAt(r, Len(q) + 1) ELSE r])

(* unsplit_leaf: the split at q replaced by what its child b holds. *)
Unsplit(t, q, b) ==
  LET kept == {r \in Nodes(t) : IsPrefix(q, r) => IsPrefix(Append(q, b), r)} IN
  Relocated(t, [r \in kept |-> IF IsPrefix(q, r) THEN RemoveAt(r, Len(q) + 1) ELSE r])

With(f, p, v) == [q \in DOMAIN f \cup {p} |-> IF q = p THEN v ELSE f[q]]

(* split_node_and_insert, split_leaf_and_insert: pane becomes child b of a new split *)
Inserted(t, q, b, pane, info) ==
  LET u == Deeper(t, q, 1 - b) IN
  [split |-> With(u.split, q, info), leaf |-> With(u.leaf, Append(q, b), pane)]

(* compute_split_size *)
SplitInfo(s, x, b, ask) ==
  LET target == Max({1, IF ask.unit = "percent" THEN (s[x] * ask.n) \div 100 ELSE ask.n})
      remain == Less(s[x], target + Gutter[x])
      at(n)  == [s EXCEPT ![x] = n]
  IN [axis |-> x, first |-> at(IF b = 1 THEN remain ELSE target),
                  second |-> at(IF b = 1 THEN target ELSE remain)]

HasSpace(info) ==
  /\ \A x \in Axes : info.first[x] > 0 /\ info.second[x] > 0
  /\ \A x \in Axes : info.second[x] + (IF x = info.axis THEN info.first[x] + Gutter[x] ELSE 0) <= size[x]

(* split_and_insert of a pane next to the i-th, as its first or second *)
Split(pane, i, x, b, ask) ==
  LET q    == LeafAt(tree, i)
      info == SplitInfo(Allotted(tree, size, q), x, b, ask)
  IN
  /\ Usable
  /\ zoomed = None
  /\ HasSpace(info)
  /\ tree' = Inserted(tree, q, b, pane, info)
  /\ active' = IF b = 1 THEN i + 1 ELSE active
  /\ UNCHANGED <<size, zoomed, before, broken>>

(* A pane refuses its new size: the tree is in hand then, and is lost. *)
SplitBreaks(i, x, b, ask) ==
  /\ Usable
  /\ zoomed = None
  /\ HasSpace(SplitInfo(Allotted(tree, size, LeafAt(tree, i)), x, b, ask))
  /\ broken' = TRUE
  /\ UNCHANGED <<tree, size, active, zoomed, before>>

(* A split at the top: all that is there is resized to its share first. *)
SplitTop(pane, x, b, ask) ==
  LET info  == SplitInfo(size, x, b, ask)
      share == IF b = 1 THEN info.first ELSE info.second
      t     == Resized(tree, size, share)
  IN
  /\ Usable
  /\ zoomed = None
  /\ Cardinality(PaneSet(tree)) > 1
  /\ HasSpace(info)
  /\ Becomes(IF t = NoTree THEN t ELSE Inserted(t, <<>>, b, pane, info), AtLeast(tree, share))
  /\ active' = IF t = NoTree THEN active ELSE IF b = 1 THEN Cardinality(PaneSet(tree)) ELSE 0
  /\ UNCHANGED <<zoomed, before>>

-----------------------------------------------------------------------------
(* remove_pane_if: one pass in preorder takes out the panes of S it meets. *)
(* After a removal it goes on behind the sibling, and counts on from where *)
(* it was.                                                                 *)
Without(t, p) ==
  IF p = <<>> THEN NoTree
  ELSE ApplySize(Unsplit(t, Front(p), 1 - Last(p)), Front(p), Extent(t.split[Front(p)]))

Visit(r, S) ==
  LET p == CHOOSE q \in r.at : TRUE
      t == IF r.gone = {} THEN r.t ELSE ApplySize(r.t, p, Allotted(r.t, size, p))
      u == Without(r.t, p)
      on(v, i) == [t |-> v, at |-> After(v, p), i |-> i, gone |-> r.gone, indices |-> r.indices]
  IN IF r.at = {} THEN r
     ELSE IF p \in DOMAIN r.t.split THEN on(t, r.i)
     ELSE IF r.t.leaf[p] \notin S THEN on(r.t, r.i + 1)
     ELSE [t |-> u, at |-> IF p = <<>> THEN {} ELSE After(u, Front(p)), i |-> r.i + 1,
           gone |-> r.gone \cup {r.t.leaf[p]}, indices |-> r.indices \cup {r.i}]

(* Each removal may send it back, so it visits at most a square of nodes. *)
Visits == Cardinality(Nodes(tree)) * Cardinality(Nodes(tree))

Removal(S) ==
  LET pass[k \in 0..Visits] ==
        IF k = 0 THEN [t |-> tree, at |-> {<<>>}, i |-> 0, gone |-> {}, indices |-> {}]
        ELSE Visit(pass[k - 1], S)
  IN pass[Visits]

(* Mutant: the index of the active pane is not shifted. *)
RemoveIfNoShift(S) ==
  LET r == Removal(S) IN
  /\ Usable
  /\ S \cap PaneSet(tree) # {}
  /\ tree' = r.t
  /\ active' = Min({active, Less(Cardinality(DOMAIN r.t.leaf), 1)})
  /\ zoomed' = IF zoomed \in r.gone THEN None ELSE zoomed
  /\ UNCHANGED <<size, before, broken>>

(* Mutant: the zoomed pane is forgotten in the tree only. *)
RemoveIfKeepsZoom(S) ==
  LET r == Removal(S) IN
  /\ Usable
  /\ S \cap PaneSet(tree) # {}
  /\ tree' = r.t
  /\ active' = Less(active, Cardinality({i \in r.indices : i <= active}))
  /\ UNCHANGED <<size, zoomed, before, broken>>

(* prune_dead_panes, kill_pane, remove_pane *)
RemoveIf(S) ==
  LET r == Removal(S) IN
  /\ Usable
  /\ S \cap PaneSet(tree) # {}
  /\ tree' = r.t
  /\ active' = Less(active, Cardinality({i \in r.indices : i <= active}))
  /\ zoomed' = IF zoomed \in r.gone THEN None ELSE zoomed
  /\ UNCHANGED <<size, before, broken>>

-----------------------------------------------------------------------------
(* adjust_node_at_cursor; no tree if the size would be below zero. *)
Shifted(t, p, d) ==
  LET s     == t.split[p]
      x     == s.axis
      total == Extent(s)[x]
      first == Min({Max({s.first[x] + d, 1}), total - 2})
  IN IF first < 0 THEN NoTree
     ELSE [t EXCEPT !.split[p].first[x]  = first,
                    !.split[p].second[x] = Less(total, first + Gutter[x])]

(* resize_split_by and, for a split above the active pane, adjust_pane_size *)
MoveSplit(p, d) ==
  /\ Usable
  /\ zoomed = None
  /\ LET t == Shifted(tree, p, d) IN
       Becomes(IF t = NoTree THEN NoTree ELSE Cascade(t, size, p), size)
  /\ UNCHANGED <<active, zoomed, before>>

(* toggle_pane_split_direction of the split above the active pane *)
ToggleDirection ==
  LET p     == Front(LeafAt(tree, active))
      x     == Cross(tree.split[p].axis)
      total == Extent(tree.split[p])
      half  == (total[x] - Gutter[x]) \div 2
      info  == [axis |-> x, first |-> [total EXCEPT ![x] = half],
                            second |-> [total EXCEPT ![x] = @ - Gutter[x] - half]]
      t     == IF total[x] < Gutter[x] + 2 THEN tree ELSE [tree EXCEPT !.split[p] = info]
  IN
  /\ Usable
  /\ zoomed = None /\ Focused # None
  /\ Cardinality(PaneSet(tree)) > 1
  /\ tree' = Cascade(t, size, p)
  /\ UNCHANGED <<size, active, zoomed, before, broken>>

(* rotate_clockwise and rotate_counter_clockwise *)
Rotate(clockwise) ==
  LET n == Cardinality(PaneSet(tree))
      from(i) == IF clockwise THEN IF i = 0 THEN n - 1 ELSE i - 1
                 ELSE IF i = n - 1 THEN 0 ELSE i + 1
  IN
  /\ Usable
  /\ tree' = [tree EXCEPT !.leaf =
                [p \in DOMAIN tree.leaf |-> tree.leaf[LeafAt(tree, from(Index(tree, p)))]]]
  /\ UNCHANGED <<size, active, zoomed, before, broken>>

(* swap_active_with_index, which the pane selection calls on a tab that it *)
(* has un-zoomed.                                                          *)
Swap(i, keepFocus) ==
  LET a == LeafAt(tree, active)
      p == LeafAt(tree, i)
  IN
  /\ Usable
  /\ zoomed = None /\ Focused # None
  /\ tree' = [tree EXCEPT !.leaf[a] = tree.leaf[p], !.leaf[p] = tree.leaf[a]]
  /\ active' = IF keepFocus THEN i ELSE active
  /\ UNCHANGED <<size, zoomed, before, broken>>

(* set_active_pane, which un-zooms *)
Activate(pane) ==
  /\ Usable
  /\ pane # Focused
  /\ zoomed' = None
  /\ active' = Index(tree, PathOf(tree, pane))
  /\ IF zoomed = None THEN UNCHANGED <<tree, size, broken>>
     ELSE Becomes(Resized(tree, before, size), AtLeast(tree, size))
  /\ UNCHANGED before

(* set_active_idx with the index of a visible pane: a zoomed one has 0. *)
ActivateIndex(i) ==
  /\ Usable
  /\ i # active
  /\ zoomed # None => i = 0
  /\ active' = i
  /\ UNCHANGED <<tree, size, zoomed, before, broken>>

-----------------------------------------------------------------------------
Indices == 0..Cardinality(PaneSet(tree)) - 1
Next ==
  \/ \E s \in Sizes : Resize(s)
  \/ ToggleZoom \/ ToggleDirection
  \/ \E pane \in Panes \ PaneSet(tree), x \in Axes, b \in {0, 1}, ask \in Requests :
       SplitTop(pane, x, b, ask) \/ \E i \in Indices : Split(pane, i, x, b, ask)
  \/ \E i \in Indices, x \in Axes, b \in {0, 1}, ask \in Requests : SplitBreaks(i, x, b, ask)
  \/ \E S \in SUBSET Panes : RemoveIf(S)
  \/ \E p \in DOMAIN tree.split, d \in Deltas : MoveSplit(p, d)
  \/ \E clockwise \in BOOLEAN : Rotate(clockwise)
  \/ \E i \in Indices : ActivateIndex(i) \/ \E keepFocus \in BOOLEAN : Swap(i, keepFocus)
  \/ \E pane \in PaneSet(tree) : Activate(pane)

Spec == Init /\ [][Next]_vars

-----------------------------------------------------------------------------
(* The sizes kept in the splits fill the space s: both sides of a split    *)
(* have a cell, and with the gutter they are what the parent keeps.        *)
Tiled(t, s) ==
  \A p \in DOMAIN t.split :
    /\ Extent(t.split[p]) = Allotted(t, s, p)
    /\ LET x == Cross(t.split[p].axis) IN t.split[p].second[x] = t.split[p].first[x]
    /\ \A x \in Axes : t.split[p].first[x] > 0 /\ t.split[p].second[x] > 0

Larger(s, t) == \A x \in Axes : s[x] >= t[x]

(* What may leave a tab that was tiled untiled, as the code stands: to     *)
(* shrink it, to move a split, to turn one, and to split at the top.       *)
Rough ==
  \/ ~Larger(size', size)
  \/ \E p \in DOMAIN tree.split, d \in Deltas : MoveSplit(p, d)
  \/ \E pane \in Panes, x \in Axes, b \in {0, 1}, ask \in Requests : SplitTop(pane, x, b, ask)
  \/ ToggleDirection

(* Splits, closings of any number of panes at once, growth, rotation and   *)
(* swaps leave a tab tiled that was: no pane loses its last cell, overlaps *)
(* another or leaves a gap (tab.rs: compute_split_size, remove_pane_if,    *)
(* apply_pane_size, adjust_x_size).                                        *)
TilingStays ==
  [][/\ zoomed = None /\ zoomed' = None
     /\ Tiled(tree, size) /\ ~Tiled(tree', size')
     => Rough]_vars

(* Whatever panes are to go, a pass of remove_pane_if takes some of them   *)
(* and no others, and those that stay are there once, in their order; so   *)
(* repeated prunes come to an end (remove_pane_if over unsplit_leaf).      *)
PassTakesSome ==
  \A S \in (SUBSET PaneSet(tree)) \ {{}} :
    LET r == Removal(S) IN
    /\ r.gone # {} /\ r.gone \subseteq S
    /\ PaneSet(r.t) = PaneSet(tree) \ r.gone /\ IsInjective(r.t.leaf)
    /\ \A p, q \in PaneSet(r.t) :
         Before(PathOf(r.t, p), PathOf(r.t, q)) <=> Before(PathOf(tree, p), PathOf(tree, q))

(* To close one pane leaves the focus on the pane that has it, if it is    *)
(* another one, whichever side it is on (remove_pane_if, get_active_pane). *)
FocusStays ==
  [][Focused' # Focused /\ tree' # tree => \A p \in Panes \ {Focused} : ~RemoveIf({p})]_vars
=============================================================================
