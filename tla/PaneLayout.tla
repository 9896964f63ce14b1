---------------------------- MODULE PaneLayout -----------------------------
(***************************************************************************)
(* The panes of a tab (ui/state.rs, ui/layout.rs) and the binary tree of   *)
(* splits they sit in, which is iced's pane grid.                          *)
(*                                                                         *)
(* A pane's place is its path from the root: 0 for the left or upper part  *)
(* of a split, 1 for the other.  The tree is the set of the paths of its   *)
(* leaves.  Ratios, axes, profiles and the pane shown alone only matter to *)
(* the drawing and are left out.  Identifiers of panes are numbered from 0 *)
(* in every tab: a pane of one tab and one of another may well be equal.   *)
(* The numbers that the grid spends on its splits, and on the pane that a  *)
(* drag makes for a moment before it gets its own number back, are skipped.*)
(***************************************************************************)
EXTENDS Integers, Sequences, FiniteSets

Paths(depth) == UNION {[1..n -> {0, 1}] : n \in 0..depth}

(* At split k of the way to p the way to q takes the other part.           *)
PartAt(p, q, k) ==
  k \in 1..Len(p) /\ k <= Len(q) /\ p[k] # q[k] /\ \A i \in 1..(k - 1) : p[i] = q[i]

Left(p, q) == \E k \in 1..Len(p) : PartAt(p, q, k) /\ p[k] < q[k]

Under(root, p) == Len(root) <= Len(p) /\ \A i \in 1..Len(root) : p[i] = root[i]

(* Every split has both of its parts and no pane is inside another one.    *)
IsTree(paths) ==
  /\ paths # {}
  /\ \A p \in paths, q \in paths : Under(p, q) => p = q
  /\ \A p \in paths : \A k \in 1..Len(p) : \E q \in paths : PartAt(p, q, k)

Panes(t) == DOMAIN t.at
Shape(t) == {t.at[p] : p \in Panes(t)}
Rank(t, p) == Cardinality({q \in Panes(t) : Left(t.at[q], t.at[p])})
PaneAt(t, k) == CHOOSE p \in Panes(t) : Rank(t, p) = k

(* Tab::new and Tab::from_state                                            *)
NewTabOf(s) ==
  [at |-> [p \in {0} |-> <<>>], slot |-> [p \in {0} |-> s], focus |-> 0, last |-> 0]

TabOf(paths, slots) ==
  LET n == Cardinality(paths)
      at == [i \in 0..(n - 1) |->
               CHOOSE p \in paths : Cardinality({q \in paths : Left(q, p)}) = i]
  IN [at |-> at, slot |-> [i \in 0..(n - 1) |-> slots[i + 1]],
      focus |-> 0, last |-> n - 1]

(* pane_grid's split: the new pane is the second part.                     *)
SplitPane(t, target, new, first) ==
  [q \in Panes(t) \union {new} |->
     IF q = new THEN Append(t.at[target], 1 - first)
     ELSE IF q = target THEN Append(t.at[target], first)
     ELSE t.at[q]]

SplitFocus(t, s) ==
  LET new == t.last + 1
  IN [at |-> SplitPane(t, t.focus, new, 0),
      slot |-> [q \in Panes(t) \union {new} |-> IF q = new THEN s ELSE t.slot[q]],
      focus |-> new, last |-> new]

(* pane_grid's close: the other part of the split moves up, and its first  *)
(* pane is the sibling.                                                    *)
Sibling(t, p) ==
  LET path == t.at[p] IN [path EXCEPT ![Len(path)] = 1 - @]

Without(t, p) ==
  LET path == t.at[p]
      up(q) == SubSeq(path, 1, Len(path) - 1)
                 \o SubSeq(t.at[q], Len(path) + 1, Len(t.at[q]))
  IN [q \in Panes(t) \ {p} |-> IF Under(Sibling(t, p), t.at[q]) THEN up(q) ELSE t.at[q]]

FirstUnder(t, root) ==
  CHOOSE q \in Panes(t) :
    /\ Under(root, t.at[q])
    /\ \A r \in Panes(t) : Under(root, t.at[r]) => ~Left(t.at[r], t.at[q])

ClosePaneOf(t, p) ==
  [at |-> Without(t, p), slot |-> [q \in Panes(t) \ {p} |-> t.slot[q]],
   focus |-> FirstUnder(t, Sibling(t, p)), last |-> t.last]

(* A drag ends on another pane: on its centre the two change places, on an *)
(* edge the pane is taken out and splits the target.                       *)
SwapPanes(t, p, q) ==
  [t EXCEPT !.at = [@ EXCEPT ![p] = t.at[q], ![q] = t.at[p]]]

MovePane(t, p, q, first) ==
  [t EXCEPT !.at = SplitPane([at |-> Without(t, p)], q, p, first)]

(* It ends on the edge of the whole grid: the pane is taken out and becomes*)
(* one part of a split at the root, beside all that is left.               *)
BesideAll(out, p, first) ==
  [q \in Panes(out) \union {p} |->
     IF q = p THEN <<first>> ELSE <<1 - first>> \o out.at[q]]

MoveToEdge(t, p, first) ==
  [t EXCEPT !.at = BesideAll([at |-> Without(t, p)], p, first)]

(* Tab::cycle_focus                                                        *)
CycleFocus(t, step) ==
  LET n == Cardinality(Panes(t))
  IN [t EXCEPT !.focus = PaneAt(t, (Rank(t, @) + n + step) % n)]

FocusOn(t, p) == IF p \in Panes(t) THEN [t EXCEPT !.focus = p] ELSE t

(* LayoutNode::pane_count over all tabs                                    *)
PaneTotal(shapes) ==
  Cardinality(UNION {{i} \X shapes[i] : i \in DOMAIN shapes})
=============================================================================
