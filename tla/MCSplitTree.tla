---------------------------- MODULE MCSplitTree ----------------------------
EXTENDS SplitTree, TLC

MCSizes    == {[cols |-> 8, rows |-> 3], [cols |-> 6, rows |-> 3]}
MCDeltas   == {-1}
MCRequests == {[unit |-> "percent", n |-> 50], [unit |-> "cells", n |-> 1]}
MCGutter   == [cols |-> 1, rows |-> 1]  \* split_pane_gap = 0
Symm       == Permutations(Panes)

(* The bound: a pass that removes several panes can leave a tab without an   *)
(* active pane, and a narrow nested resize one that is not tiled; what       *)
(* follows such a state is not looked at.                                    *)
SomePaneIsActive == PaneSet(tree) # {} => Focused # None
Sound == SomePaneIsActive /\ Tiled(tree, IF zoomed = None THEN size ELSE before)
=============================================================================
