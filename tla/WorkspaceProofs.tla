--------------------------- MODULE WorkspaceProofs ---------------------------
(***************************************************************************)
(* The window's invariants for every session limit, every limit of panes   *)
(* per tab and every layout file.                                          *)
(***************************************************************************)
EXTENDS Workspace, FiniteSetTheorems, SequenceTheorems, TLAPS

(***************************************************************************)
(* The tree of panes: what splitting, closing and dragging do to it, for   *)
(* trees of any size and depth.                                            *)
(***************************************************************************)
Path == Seq({0, 1})

(* The paths of the panes are the leaves of a binary tree: no pane is      *)
(* inside another one, and both parts of every split hold a pane.          *)
Leaves(at) ==
  /\ DOMAIN at # {} /\ IsFiniteSet(DOMAIN at)
  /\ at \in [DOMAIN at -> Path]
  /\ \A p, q \in DOMAIN at : Under(at[p], at[q]) => p = q
  /\ \A p \in DOMAIN at : \A k \in 1..Len(at[p]) :
       \E q \in DOMAIN at : PartAt(at[p], at[q], k)

(***************************************************************************)
(* Paths                                                                   *)
(***************************************************************************)
LEMMA UnderItself == \A p \in Path : Under(p, p)
  BY DEF Under, Path

LEMMA Appended ==
  ASSUME NEW p \in Path, NEW b \in {0, 1}
  PROVE  /\ Append(p, b) \in Path /\ Len(Append(p, b)) = Len(p) + 1
         /\ Append(p, b)[Len(p) + 1] = b
         /\ \A i \in 1..Len(p) : Append(p, b)[i] = p[i]
  BY DEF Path

LEMMA AboveAppended ==
  ASSUME NEW p \in Path, NEW q \in Path, NEW b \in {0, 1}, Under(p, Append(q, b))
  PROVE  Under(p, q) \/ Under(q, p)
  BY Appended DEF Under, Path

LEMMA BelowAppended ==
  ASSUME NEW p \in Path, NEW q \in Path, NEW b \in {0, 1}, Under(Append(q, b), p)
  PROVE  Under(q, p)
  BY Appended DEF Under, Path

LEMMA AppendedApart ==
  ASSUME NEW p \in Path, NEW b \in {0, 1}
  PROVE  /\ ~Under(Append(p, b), Append(p, 1 - b))
         /\ PartAt(Append(p, b), Append(p, 1 - b), Len(p) + 1)
<1>1. 1 - b \in {0, 1} /\ b # 1 - b
  OBVIOUS
<1> QED
  BY <1>1, Appended DEF Under, PartAt, Path

LEMMA AppendedParts ==
  ASSUME NEW p \in Path, NEW q \in Path, NEW k, PartAt(p, q, k), NEW b \in {0, 1}
  PROVE  PartAt(Append(p, b), q, k) /\ PartAt(p, Append(q, b), k)
  BY Appended DEF PartAt, Path

(***************************************************************************)
(* Splitting                                                               *)
(***************************************************************************)
(* A pane that is split gives way to two (pane_grid split, drop on an      *)
(* edge): the leaves are those of a tree again.                            *)
LEMMA SplitLeaves ==
  ASSUME NEW t, Leaves(t.at), NEW target \in Panes(t), NEW new, new \notin Panes(t),
         NEW first \in {0, 1}
  PROVE  /\ Leaves(SplitPane(t, target, new, first))
         /\ DOMAIN SplitPane(t, target, new, first) = Panes(t) \union {new}
<1> DEFINE D == Panes(t)
           at == t.at
           f == SplitPane(t, target, new, first)
           E == D \union {new}
<1>1. /\ target \in D /\ new \notin D /\ D # {} /\ IsFiniteSet(D)
      /\ \A p \in D : at[p] \in Path
      /\ \A p, q \in D : Under(at[p], at[q]) => p = q
      /\ \A p \in D : \A k \in 1..Len(at[p]) : \E q \in D : PartAt(at[p], at[q], k)
  BY DEF Leaves, Panes
<1>0. DOMAIN f = E /\ f = [q \in E |-> f[q]]
  BY DEF SplitPane
<1>2. /\ f[new] = Append(at[target], 1 - first) /\ f[target] = Append(at[target], first)
      /\ \A q \in D \ {target} : f[q] = at[q]
  BY <1>1 DEF SplitPane
<1>3. first \in {0, 1} /\ 1 - first \in {0, 1} /\ 1 - (1 - first) = first
  OBVIOUS
<1> HIDE DEF D, at, f
<1>4. \A q \in {target, new} : \E b \in {0, 1} : f[q] = Append(at[target], b)
  BY <1>2, <1>3
<1>5. ASSUME NEW q \in E PROVE f[q] \in Path
  <2>1. CASE q \in D \ {target}
    BY <2>1, <1>1, <1>2
  <2>2. CASE q \in {target, new}
    <3>1. PICK b \in {0, 1} : f[q] = Append(at[target], b)
      BY <2>2, <1>4
    <3> QED
      BY <3>1, <1>1, Appended
  <2> QED
    BY <2>1, <2>2
<1>6. ASSUME NEW p \in E, NEW q \in E, Under(f[p], f[q]) PROVE p = q
  <2>1. CASE p \in D \ {target} /\ q \in D \ {target}
    BY <2>1, <1>1, <1>2, <1>6
  <2>2. CASE p \in {target, new} /\ q \in D \ {target}
    <3>1. PICK b \in {0, 1} : f[p] = Append(at[target], b)
      BY <2>2, <1>4
    <3>2. Under(at[target], at[q])
      BY <3>1, <2>2, <1>1, <1>2, <1>6, BelowAppended
    <3> QED
      BY <3>2, <2>2, <1>1
  <2>3. CASE p \in D \ {target} /\ q \in {target, new}
    <3>1. PICK b \in {0, 1} : f[q] = Append(at[target], b)
      BY <2>3, <1>4
    <3>2. Under(at[p], at[target]) \/ Under(at[target], at[p])
      BY <3>1, <2>3, <1>1, <1>2, <1>6, AboveAppended
    <3> QED
      BY <3>2, <2>3, <1>1
  <2>4. CASE p \in {target, new} /\ q \in {target, new}
    <3>1. ~Under(f[target], f[new])
      BY <1>1, <1>2, <1>3, AppendedApart
    <3>2. ~Under(f[new], f[target])
      BY <1>1, <1>2, <1>3, AppendedApart
    <3> QED
      BY <3>1, <3>2, <2>4, <1>6
  <2> QED
    BY <2>1, <2>2, <2>3, <2>4
<1>7. ASSUME NEW p \in E, NEW k \in 1..Len(f[p]) PROVE \E q \in E : PartAt(f[p], f[q], k)
  <2>1. CASE p \in {target, new} /\ k = Len(at[target]) + 1
    <3>1. PartAt(f[target], f[new], k)
      BY <2>1, <1>1, <1>2, <1>3, AppendedApart
    <3>2. PartAt(f[new], f[target], k)
      BY <2>1, <1>1, <1>2, <1>3, AppendedApart
    <3> QED
      BY <3>1, <3>2, <2>1, <1>1
  <2>2. CASE p \in {target, new} /\ k # Len(at[target]) + 1
    <3>1. Len(at[target]) \in Nat /\ k \in 1..Len(at[target])
      BY <2>2, <1>1, <1>4, <1>7, Appended DEF Path
    <3>2. PICK q \in D : PartAt(at[target], at[q], k)
      BY <3>1, <1>1
    <3>3. q # target
      BY <3>2 DEF PartAt
    <3>4. PICK b \in {0, 1} : f[p] = Append(at[target], b)
      BY <2>2, <1>4
    <3>5. PartAt(f[p], at[q], k)
      BY <3>2, <3>4, <1>1, AppendedParts
    <3> QED
      BY <3>3, <3>5, <1>2
  <2>3. CASE p \in D \ {target}
    <3>1. PICK q \in D : PartAt(at[p], at[q], k)
      BY <2>3, <1>1, <1>2, <1>7
    <3>2. CASE q # target
      BY <3>1, <3>2, <2>3, <1>2
    <3>3. CASE q = target
      <4>1. PartAt(at[p], Append(at[q], first), k)
        BY <3>1, <2>3, <1>1, <1>3, AppendedParts
      <4> QED
        BY <4>1, <3>3, <2>3, <1>1, <1>2
    <3> QED
      BY <3>2, <3>3
  <2> QED
    BY <2>1, <2>2, <2>3
<1>8. E # {} /\ IsFiniteSet(E)
  BY <1>1, FS_AddElement
<1> HIDE DEF E
<1>9. Leaves(f)
  BY <1>0, <1>5, <1>6, <1>7, <1>8 DEF Leaves
<1> QED
  BY <1>9, <1>0 DEF f, E, D

(***************************************************************************)
(* Closing                                                                 *)
(***************************************************************************)
Other(p) == [p EXCEPT ![Len(p)] = 1 - @]
Up(p, x) == SubSeq(p, 1, Len(p) - 1) \o SubSeq(x, Len(p) + 1, Len(x))

LEMMA OtherPart ==
  ASSUME NEW p \in Path, p # <<>>
  PROVE  /\ Other(p) \in Path /\ Len(Other(p)) = Len(p) /\ Len(p) \in Nat \ {0}
         /\ Other(p)[Len(p)] = 1 - p[Len(p)]
         /\ \A i \in 1..(Len(p) - 1) : Other(p)[i] = p[i]
<1>1. Len(p) \in Nat \ {0} /\ p[Len(p)] \in {0, 1}
  BY DEF Path
<1>2. 1 - p[Len(p)] \in {0, 1}
  BY <1>1
<1> QED
  BY <1>1, <1>2 DEF Path, Other

LEMMA Prefix ==
  ASSUME NEW p \in Path, NEW n \in Nat, n <= Len(p)
  PROVE  /\ SubSeq(p, 1, n) \in Path /\ Len(SubSeq(p, 1, n)) = n
         /\ \A i \in 1..n : SubSeq(p, 1, n)[i] = p[i]
  BY DEF Path

(* Below the other part: what was at i + 1 is at i, past the split.        *)
LEMMA Raised ==
  ASSUME NEW p \in Path, p # <<>>, NEW x \in Path, Under(Other(p), x)
  PROVE  /\ Up(p, x) \in Path /\ Len(Up(p, x)) = Len(x) - 1 /\ Len(x) >= Len(p)
         /\ x[Len(p)] = 1 - p[Len(p)]
         /\ \A i \in 1..(Len(p) - 1) : Up(p, x)[i] = x[i] /\ x[i] = p[i]
         /\ \A i \in Len(p)..(Len(x) - 1) : Up(p, x)[i] = x[i + 1]
<1>1. /\ Len(p) \in Nat \ {0} /\ Len(x) \in Nat /\ Len(x) >= Len(p)
      /\ x[Len(p)] = 1 - p[Len(p)] /\ \A i \in 1..(Len(p) - 1) : x[i] = p[i]
  BY OtherPart DEF Under, Path
<1> DEFINE a == SubSeq(p, 1, Len(p) - 1)
           b == SubSeq(x, Len(p) + 1, Len(x))
<1>2. a \in Path /\ Len(a) = Len(p) - 1 /\ \A i \in 1..(Len(p) - 1) : a[i] = p[i]
  <2>1. Len(p) - 1 \in Nat /\ Len(p) - 1 <= Len(p)
    BY <1>1
  <2> HIDE DEF b
  <2> QED
    BY <2>1, Prefix
<1>3. /\ b \in Path /\ Len(b) = Len(x) - Len(p)
      /\ \A i \in 1..(Len(x) - Len(p)) : b[i] = x[Len(p) + i]
  <2>1. \A i \in (Len(p) + 1)..Len(x) : x[i] \in {0, 1}
    BY <1>1 DEF Path
  <2>2. /\ b \in Path /\ Len(b) = Len(x) - Len(p)
        /\ \A i \in 1..(Len(x) - (Len(p) + 1) + 1) : b[i] = x[Len(p) + 1 + i - 1]
    BY <2>1, <1>1, SubSeqProperties DEF Path
  <2> HIDE DEF b
  <2> QED
    BY <2>2, <1>1
<1>4. Up(p, x) = a \o b
  BY DEF Up
<1> HIDE DEF a, b
<1>5. /\ a \o b \in Path /\ Len(a \o b) = Len(x) - 1
      /\ \A i \in 1..(Len(x) - 1) :
           (a \o b)[i] = IF i <= Len(p) - 1 THEN a[i] ELSE b[i - (Len(p) - 1)]
  <2>1. /\ a \o b \in Path /\ Len(a \o b) = Len(a) + Len(b)
        /\ \A i \in 1..(Len(a) + Len(b)) :
             (a \o b)[i] = IF i <= Len(a) THEN a[i] ELSE b[i - Len(a)]
    BY <1>2, <1>3, ConcatProperties DEF Path
  <2>2. Len(a) + Len(b) = Len(x) - 1 /\ Len(a) = Len(p) - 1
    BY <1>1, <1>2, <1>3
  <2> QED
    BY <2>1, <2>2, Zenon
<1>6. ASSUME NEW i \in Len(p)..(Len(x) - 1) PROVE (a \o b)[i] = x[i + 1]
  <2>1. (a \o b)[i] = b[i - (Len(p) - 1)]
    BY <1>1, <1>5
  <2>2. i - (Len(p) - 1) \in 1..(Len(x) - Len(p)) /\ Len(p) + (i - (Len(p) - 1)) = i + 1
    BY <1>1
  <2> QED
    BY <2>1, <2>2, <1>3
<1>7. ASSUME NEW i \in 1..(Len(p) - 1) PROVE (a \o b)[i] = p[i]
  BY <1>1, <1>2, <1>5
<1> QED
  BY <1>1, <1>4, <1>5, <1>6, <1>7

(* Nothing else than p and what is in the other part lies below the split. *)
Below(p, x) == Len(x) >= Len(p) - 1 /\ \A i \in 1..(Len(p) - 1) : x[i] = p[i]

LEMMA BelowSplit ==
  ASSUME NEW p \in Path, p # <<>>, NEW x \in Path, Below(p, x)
  PROVE  Under(x, p) \/ Under(p, x) \/ Under(Other(p), x)
<1>1. Len(p) \in Nat \ {0} /\ Len(x) \in Nat /\ p[Len(p)] \in {0, 1}
  BY DEF Path
<1>2. CASE Len(x) = Len(p) - 1
  BY <1>1, <1>2 DEF Under, Below
<1>3. CASE Len(x) >= Len(p) /\ x[Len(p)] = p[Len(p)]
  BY <1>1, <1>3 DEF Under, Below
<1>4. CASE Len(x) >= Len(p) /\ x[Len(p)] # p[Len(p)]
  <2>1. x[Len(p)] = 1 - p[Len(p)]
    <3>1. x[Len(p)] \in {0, 1}
      BY <1>1, <1>4 DEF Path
    <3> QED
      BY <3>1, <1>1, <1>4
  <2> QED
    BY <2>1, <1>1, <1>4, OtherPart DEF Under, Below
<1> QED
  BY <1>1, <1>2, <1>3, <1>4 DEF Below

LEMMA OtherBelow ==
  ASSUME NEW p \in Path, p # <<>>, NEW x \in Path, Under(Other(p), x)
  PROVE  Below(p, x)
  BY Raised DEF Below, Path

LEMMA RaisedUnder ==
  ASSUME NEW p \in Path, p # <<>>, NEW x \in Path, NEW y \in Path, Under(Other(p), x)
  PROVE  /\ Under(Other(p), y) /\ Under(Up(p, x), Up(p, y)) => Under(x, y)
         /\ Under(Up(p, x), y) => Below(p, y)
         /\ ~Below(p, y) /\ Under(y, Up(p, x)) => Under(y, x)
<1>1. ASSUME Under(Other(p), y), Under(Up(p, x), Up(p, y)) PROVE Under(x, y)
  <2>1. Len(x) \in Nat /\ Len(y) \in Nat /\ Len(p) \in Nat \ {0} /\ Len(x) <= Len(y)
    BY <1>1, Raised DEF Under, Path
  <2>2. ASSUME NEW i \in 1..Len(x) PROVE y[i] = x[i]
    <3>1. CASE i < Len(p)
      BY <3>1, <2>1, <1>1, Raised
    <3>2. CASE i = Len(p)
      BY <3>2, <2>1, <1>1, Raised
    <3>3. CASE i > Len(p)
      <4>1. i - 1 \in Len(p)..(Len(x) - 1) /\ i - 1 \in Len(p)..(Len(y) - 1) /\ i - 1 + 1 = i
        BY <3>3, <2>1
      <4>2. Up(p, x)[i - 1] = x[i] /\ Up(p, y)[i - 1] = y[i]
        BY <4>1, <1>1, Raised
      <4>3. Up(p, y)[i - 1] = Up(p, x)[i - 1]
        BY <4>1, <2>1, <1>1, Raised DEF Under
      <4> QED
        BY <4>2, <4>3
    <3> QED
      BY <3>1, <3>2, <3>3, <2>1
  <2> QED
    BY <2>1, <2>2 DEF Under
<1>2. ASSUME Under(Up(p, x), y) PROVE Below(p, y)
  BY <1>2, Raised, SMTT(30) DEF Under, Below, Path
<1>3. ASSUME ~Below(p, y), Under(y, Up(p, x)) PROVE Under(y, x)
  <2>1. Len(x) \in Nat /\ Len(y) \in Nat /\ Len(p) \in Nat \ {0} /\ Len(y) <= Len(x) - 1
    BY <1>3, Raised DEF Under, Path
  <2>2. Len(y) < Len(p) - 1
    BY <2>1, <1>3, Raised DEF Under, Below
  <2> QED
    BY <2>1, <2>2, <1>3, Raised DEF Under
<1> QED
  BY <1>1, <1>2, <1>3

LEMMA RaisedParts ==
  ASSUME NEW p \in Path, p # <<>>, NEW x \in Path, NEW y \in Path, NEW k
  PROVE  /\ Under(Other(p), y) /\ PartAt(x, y, k) /\ ~Below(p, x) => PartAt(x, Up(p, y), k)
         /\ Under(Other(p), y) /\ PartAt(x, p, k) /\ ~Below(p, x) => PartAt(x, Up(p, y), k)
         /\ /\ Under(Other(p), x) /\ k < Len(p) /\ PartAt(x, y, k)
            => PartAt(Up(p, x), y, k) /\ ~Below(p, y)
         /\ /\ Under(Other(p), x) /\ k \in Len(p)..(Len(x) - 1) /\ PartAt(x, y, k + 1)
            => PartAt(Up(p, x), Up(p, y), k) /\ Under(Other(p), y)
<1>0. Len(p) \in Nat \ {0} /\ Len(x) \in Nat /\ Len(y) \in Nat
  BY DEF Path
<1>1. ASSUME Under(Other(p), y), PartAt(x, y, k), ~Below(p, x) PROVE PartAt(x, Up(p, y), k)
  <2>1. k \in 1..Len(x) /\ k <= Len(p) - 1
    BY <1>0, <1>1, Raised DEF Below, PartAt
  <2> QED
    BY <2>1, <1>0, <1>1, Raised DEF PartAt
<1>2. ASSUME Under(Other(p), y), PartAt(x, p, k), ~Below(p, x) PROVE PartAt(x, Up(p, y), k)
  <2>1. k \in 1..Len(x) /\ k <= Len(p) - 1
    BY <1>0, <1>2 DEF Below, PartAt
  <2> QED
    BY <2>1, <1>0, <1>2, Raised, SMTT(30) DEF PartAt
<1>3. ASSUME Under(Other(p), x), k < Len(p), PartAt(x, y, k)
      PROVE  PartAt(Up(p, x), y, k) /\ ~Below(p, y)
  <2>1. k \in 1..(Len(p) - 1) /\ k <= Len(x) - 1 /\ Len(Up(p, x)) = Len(x) - 1
    BY <1>0, <1>3, Raised DEF PartAt
  <2> QED
    BY <2>1, <1>0, <1>3, Raised DEF PartAt, Below
<1>4. ASSUME Under(Other(p), x), k \in Len(p)..(Len(x) - 1), PartAt(x, y, k + 1)
      PROVE  PartAt(Up(p, x), Up(p, y), k) /\ Under(Other(p), y)
  <2>1. k + 1 <= Len(y) /\ k \in Len(p)..(Len(y) - 1) /\ k \in 1..(Len(x) - 1)
    BY <1>0, <1>4 DEF PartAt
  <2>2. \A i \in 1..Len(p) : x[i] = y[i]
    BY <2>1, <1>0, <1>4 DEF PartAt
  <2>3. Under(Other(p), y)
    BY <2>1, <2>2, <1>0, <1>4, OtherPart DEF Under
  <2>4. Up(p, x)[k] = x[k + 1] /\ Up(p, y)[k] = y[k + 1]
    BY <2>1, <2>3, <1>4, Raised
  <2>5. ASSUME NEW i \in 1..(k - 1) PROVE Up(p, x)[i] = Up(p, y)[i]
    <3>1. CASE i < Len(p)
      BY <3>1, <2>1, <2>3, <1>0, <1>4, Raised
    <3>2. CASE i >= Len(p)
      <4>1. Up(p, x)[i] = x[i + 1] /\ Up(p, y)[i] = y[i + 1]
        BY <3>2, <2>1, <2>3, <1>0, <1>4, Raised
      <4> QED
        BY <4>1, <3>2, <2>1, <1>0, <1>4 DEF PartAt
    <3> QED
      BY <3>1, <3>2, <1>0, <2>1
  <2>6. Len(Up(p, x)) = Len(x) - 1 /\ Len(Up(p, y)) = Len(y) - 1
    BY <2>3, <1>4, Raised
  <2> QED
    BY <2>1, <2>3, <2>4, <2>5, <2>6, <1>0, <1>4 DEF PartAt
<1> QED
  BY <1>1, <1>2, <1>3, <1>4

(* A pane is closed or dragged away (pane_grid close): the other part of   *)
(* its split moves up, and the leaves are those of a tree again.           *)
LEMMA CloseLeaves ==
  ASSUME NEW t, Leaves(t.at), NEW p \in Panes(t), Panes(t) # {p}
  PROVE  /\ Leaves(Without(t, p)) /\ DOMAIN Without(t, p) = Panes(t) \ {p}
         /\ t.at[p] \in Path /\ t.at[p] # <<>>
         /\ \E q \in Panes(t) \ {p} : Under(Sibling(t, p), t.at[q])
<1> DEFINE D == Panes(t)
           at == t.at
           P == at[p]
           f == Without(t, p)
           E == D \ {p}
<1>1. /\ p \in D /\ D # {p} /\ IsFiniteSet(D)
      /\ \A q \in D : at[q] \in Path
      /\ \A q, r \in D : Under(at[q], at[r]) => q = r
      /\ \A q \in D : \A k \in 1..Len(at[q]) : \E r \in D : PartAt(at[q], at[r], k)
  BY DEF Leaves, Panes
<1>2. DOMAIN f = E /\ f = [q \in E |-> f[q]]
  BY DEF Without
<1>3. /\ Sibling(t, p) = Other(P)
      /\ \A q \in E : f[q] = IF Under(Other(P), at[q]) THEN Up(P, at[q]) ELSE at[q]
  BY DEF Without, Sibling, Other, Up
<1> HIDE DEF D, at, f
<1>4. P \in Path /\ P # <<>>
  <2>1. PICK q \in D : q # p
    BY <1>1
  <2>2. P = <<>> => Under(P, at[q])
    BY DEF Under
  <2> QED
    BY <2>1, <2>2, <1>1
<1>5. Len(P) \in Nat \ {0}
  BY <1>4 DEF Path
<1> HIDE DEF P, E
<1>6. ASSUME NEW q \in E, Below(P, at[q]) PROVE Under(Other(P), at[q])
  <2>1. Under(at[q], P) \/ Under(P, at[q]) \/ Under(Other(P), at[q])
    BY <1>1, <1>4, <1>6, BelowSplit DEF E
  <2> QED
    BY <2>1, <1>1, <1>6 DEF E, P
<1>7. PICK s \in E : Under(Other(P), at[s])
  <2>1. PICK s \in D : PartAt(P, at[s], Len(P))
    BY <1>1, <1>5 DEF P
  <2>2. s # p
    BY <2>1 DEF PartAt, P
  <2>3. Below(P, at[s])
    <3>1. Len(at[s]) \in Nat
      BY <2>1, <1>1 DEF Path
    <3> QED
      BY <3>1, <2>1, <1>5 DEF PartAt, Below
  <2> QED
    BY <2>2, <2>3, <2>1, <1>6 DEF E
<1>8. ASSUME NEW q \in E PROVE f[q] \in Path
  BY <1>1, <1>3, <1>4, Raised DEF E
<1>9. ASSUME NEW q \in E, NEW r \in E, Under(f[q], f[r]) PROVE q = r
  <2>1. q \in D /\ r \in D /\ at[q] \in Path /\ at[r] \in Path
    BY <1>1 DEF E
  <2>2. CASE Under(Other(P), at[q]) /\ Under(Other(P), at[r])
    <3>1. Under(Up(P, at[q]), Up(P, at[r]))
      BY <2>2, <1>3, <1>9
    <3> QED
      BY <3>1, <2>1, <2>2, <1>1, <1>4, RaisedUnder
  <2>3. CASE Under(Other(P), at[q]) /\ ~Under(Other(P), at[r])
    <3>1. Under(Up(P, at[q]), at[r])
      BY <2>3, <1>3, <1>9
    <3> QED
      BY <3>1, <2>1, <2>3, <1>4, <1>6, RaisedUnder
  <2>4. CASE ~Under(Other(P), at[q]) /\ Under(Other(P), at[r])
    <3>1. Under(at[q], Up(P, at[r]))
      BY <2>4, <1>3, <1>9
    <3> QED
      BY <3>1, <2>1, <2>4, <1>1, <1>4, <1>6, RaisedUnder
  <2>5. CASE ~Under(Other(P), at[q]) /\ ~Under(Other(P), at[r])
    BY <2>1, <2>5, <1>1, <1>3, <1>9
  <2> QED
    BY <2>2, <2>3, <2>4, <2>5
<1>10. ASSUME NEW q \in E, NEW k \in 1..Len(f[q]) PROVE \E r \in E : PartAt(f[q], f[r], k)
  <2>1. q \in D /\ at[q] \in Path /\ Len(at[q]) \in Nat /\ s \in D /\ at[s] \in Path
    BY <1>1 DEF E, Path
  <2>2. CASE ~Under(Other(P), at[q])
    <3>1. ~Below(P, at[q]) /\ f[q] = at[q]
      BY <2>2, <1>3, <1>6
    <3>2. PICK r \in D : PartAt(at[q], at[r], k)
      BY <3>1, <2>1, <1>1, <1>10
    <3>3. CASE r = p
      <4>1. PartAt(at[q], Up(P, at[s]), k)
        BY <3>1, <3>2, <3>3, <2>1, <1>4, <1>7, RaisedParts DEF P
      <4> QED
        BY <4>1, <3>1, <1>3, <1>7
    <3>4. CASE r # p /\ Under(Other(P), at[r])
      <4>1. PartAt(at[q], Up(P, at[r]), k)
        BY <3>1, <3>2, <3>4, <2>1, <1>1, <1>4, RaisedParts
      <4> QED
        BY <4>1, <3>1, <3>4, <1>3 DEF E
    <3>5. CASE r # p /\ ~Under(Other(P), at[r])
      BY <3>1, <3>2, <3>5, <1>3 DEF E
    <3> QED
      BY <3>3, <3>4, <3>5
  <2>3. CASE Under(Other(P), at[q])
    <3>0. f[q] = Up(P, at[q]) /\ Len(Up(P, at[q])) = Len(at[q]) - 1
      BY <2>1, <2>3, <1>3, <1>4, Raised
    <3>1. /\ f[q] = Up(P, at[q]) /\ k \in 1..Len(at[q])
          /\ k + 1 \in 1..Len(at[q]) /\ k \in 1..(Len(at[q]) - 1)
      BY <3>0, <2>1, <1>10
    <3>2. CASE k < Len(P)
      <4>1. PICK r \in D : PartAt(at[q], at[r], k)
        BY <3>1, <2>1, <1>1
      <4>2. PartAt(f[q], at[r], k) /\ ~Below(P, at[r])
        BY <3>1, <3>2, <4>1, <2>1, <2>3, <1>1, <1>4, RaisedParts
      <4>3. Below(P, P)
        BY <1>5 DEF Below
      <4>4. r \in E /\ ~Under(Other(P), at[r])
        BY <4>2, <4>3, <1>1, <1>4, OtherBelow DEF E, P
      <4> QED
        BY <4>2, <4>4, <1>3
    <3>3. CASE k >= Len(P)
      <4>1. PICK r \in D : PartAt(at[q], at[r], k + 1)
        BY <3>1, <2>1, <1>1
      <4>2. k \in Len(P)..(Len(at[q]) - 1)
        BY <3>1, <3>3, <1>5, <2>1
      <4>3. PartAt(f[q], Up(P, at[r]), k) /\ Under(Other(P), at[r])
        BY <4>1, <4>2, <3>1, <2>1, <2>3, <1>1, <1>4, RaisedParts
      <4>4. ~Under(Other(P), P)
        <5>1. P[Len(P)] \in {0, 1}
          BY <1>4, <1>5 DEF Path
        <5> QED
          BY <5>1, <1>4, <1>5, OtherPart DEF Under
      <4>5. r \in E
        BY <4>3, <4>4 DEF E, P
      <4> QED
        BY <4>3, <4>5, <1>3
    <3> QED
      BY <3>1, <3>2, <3>3, <1>5
  <2> QED
    BY <2>2, <2>3
<1>11. IsFiniteSet(E) /\ E # {}
  BY <1>1, FS_RemoveElement DEF E
<1>12. Leaves(f)
  BY <1>2, <1>8, <1>9, <1>10, <1>11 DEF Leaves
<1> QED
  BY <1>12, <1>2, <1>3, <1>4, <1>7 DEF f, E, D, at, P

(* A drop on the centre of another pane: the two change places.            *)
LEMMA SwapLeaves ==
  ASSUME NEW t, Leaves(t.at), NEW p \in Panes(t), NEW q \in Panes(t)
  PROVE  LET f == [t.at EXCEPT ![p] = t.at[q], ![q] = t.at[p]]
         IN  Leaves(f) /\ DOMAIN f = Panes(t)
<1> DEFINE D == Panes(t)
           at == t.at
           f == [at EXCEPT ![p] = at[q], ![q] = at[p]]
           to(r) == IF r = q THEN p ELSE IF r = p THEN q ELSE r
<1>1. /\ p \in D /\ q \in D /\ D # {} /\ IsFiniteSet(D)
      /\ \A r \in D : at[r] \in Path
      /\ \A r, u \in D : Under(at[r], at[u]) => r = u
      /\ \A r \in D : \A k \in 1..Len(at[r]) : \E u \in D : PartAt(at[r], at[u], k)
      /\ at \in [D -> Path]
  BY DEF Leaves, Panes
<1>2. \A r \in D : to(r) \in D /\ f[r] = at[to(r)]
  BY <1>1
<1>3. \A r \in D : to(to(r)) = r
  OBVIOUS
<1>4. f \in [D -> Path] /\ DOMAIN f = D
  BY <1>1
<1> HIDE DEF D, at, f, to
<1>5. \A r, u \in D : Under(f[r], f[u]) => r = u
  BY <1>1, <1>2, <1>3
<1>6. ASSUME NEW r \in D, NEW k \in 1..Len(f[r]) PROVE \E u \in D : PartAt(f[r], f[u], k)
  <2>1. PICK u \in D : PartAt(at[to(r)], at[u], k)
    BY <1>1, <1>2, <1>6
  <2>2. PartAt(f[r], f[to(u)], k)
    BY <2>1, <1>2, <1>3
  <2> QED
    BY <2>2, <1>2
<1>7. IsFiniteSet(DOMAIN f) /\ DOMAIN f # {} /\ f \in [DOMAIN f -> Path]
  BY <1>1, <1>4
<1>8. /\ \A r, u \in DOMAIN f : Under(f[r], f[u]) => r = u
      /\ \A r \in DOMAIN f : \A k \in 1..Len(f[r]) : \E u \in DOMAIN f : PartAt(f[r], f[u], k)
  BY <1>4, <1>5, <1>6, Zenon
<1>9. Leaves(f)
  BY <1>7, <1>8, Zenon DEF Leaves
<1> QED
  BY <1>4, <1>9, Zenon DEF f, at, D

(* A drop on an edge: the pane leaves its place and splits the other one.  *)
LEMMA MoveLeaves ==
  ASSUME NEW t, Leaves(t.at), NEW p \in Panes(t), NEW q \in Panes(t), p # q,
         NEW first \in {0, 1}
  PROVE  LET f == SplitPane([at |-> Without(t, p)], q, p, first)
         IN  Leaves(f) /\ DOMAIN f = Panes(t)
<1> DEFINE out == [at |-> Without(t, p)]
<1>1. Leaves(out.at) /\ Panes(out) = Panes(t) \ {p}
  <2>1. Panes(t) # {p} /\ out.at = Without(t, p) /\ Panes(out) = DOMAIN out.at
    BY DEF Panes
  <2> HIDE DEF out
  <2>2. Leaves(Without(t, p)) /\ DOMAIN Without(t, p) = Panes(t) \ {p}
    BY <2>1, CloseLeaves
  <2> QED
    BY <2>1, <2>2
<1> HIDE DEF out
<1>3. q \in Panes(out) /\ p \notin Panes(out) /\ Panes(out) \union {p} = Panes(t)
  BY <1>1
<1>2. /\ Leaves(SplitPane(out, q, p, first))
      /\ DOMAIN SplitPane(out, q, p, first) = Panes(out) \union {p}
  BY <1>1, <1>3, SplitLeaves
<1> QED
  BY <1>2, <1>3 DEF out

(* A path below a new root.                                                *)
Below1(b, p) == <<b>> \o p

LEMMA Deeper ==
  ASSUME NEW p \in Path, NEW b \in {0, 1}
  PROVE  /\ Below1(b, p) \in Path /\ Len(Below1(b, p)) = Len(p) + 1 /\ Len(p) \in Nat
         /\ Below1(b, p)[1] = b
         /\ \A i \in 1..Len(p) : Below1(b, p)[i + 1] = p[i]
<1> DEFINE a == <<b>>
<1>1. a \in Path /\ Len(a) = 1 /\ a[1] = b /\ Len(p) \in Nat
  BY DEF Path
<1> HIDE DEF a
<1>2. /\ a \o p \in Path /\ Len(a \o p) = Len(a) + Len(p)
      /\ \A i \in 1..(Len(a) + Len(p)) :
           (a \o p)[i] = IF i <= Len(a) THEN a[i] ELSE p[i - Len(a)]
  BY <1>1, ConcatProperties DEF Path
<1>3. (a \o p)[1] = b
  BY <1>1, <1>2
<1>4. ASSUME NEW i \in 1..Len(p) PROVE (a \o p)[i + 1] = p[i]
  BY <1>1, <1>2, <1>4
<1> QED
  BY <1>1, <1>2, <1>3, <1>4 DEF Below1, a

LEMMA DeeperUnder ==
  ASSUME NEW p \in Path, NEW q \in Path, NEW b \in {0, 1}, NEW c \in {0, 1},
         Under(Below1(b, p), Below1(c, q))
  PROVE  b = c /\ Under(p, q)
<1> DEFINE x == Below1(b, p)
           y == Below1(c, q)
<1>1. /\ Len(x) = Len(p) + 1 /\ Len(p) \in Nat /\ x[1] = b
      /\ \A i \in 1..Len(p) : x[i + 1] = p[i]
  BY Deeper
<1>2. /\ Len(y) = Len(q) + 1 /\ Len(q) \in Nat /\ y[1] = c
      /\ \A i \in 1..Len(q) : y[i + 1] = q[i]
  BY Deeper
<1>3. Len(x) <= Len(y) /\ \A i \in 1..Len(x) : y[i] = x[i]
  BY DEF Under
<1> HIDE DEF x, y
<1>4. Len(p) <= Len(q) /\ 1 \in 1..Len(x)
  BY <1>1, <1>2, <1>3
<1>5. b = c
  BY <1>1, <1>2, <1>3, <1>4
<1>6. ASSUME NEW i \in 1..Len(p) PROVE q[i] = p[i]
  <2>1. i + 1 \in 1..Len(x) /\ i \in 1..Len(q)
    BY <1>1, <1>4
  <2>2. y[i + 1] = x[i + 1]
    BY <1>3, <2>1
  <2> QED
    BY <1>1, <1>2, <2>1, <2>2
<1> QED
  BY <1>4, <1>5, <1>6 DEF Under

LEMMA DeeperParts ==
  ASSUME NEW p \in Path, NEW q \in Path, NEW b \in {0, 1}
  PROVE  /\ \A k : PartAt(p, q, k) => PartAt(Below1(b, p), Below1(b, q), k + 1)
         /\ \A c \in {0, 1} : c # b => PartAt(Below1(b, p), Below1(c, q), 1)
<1>1. ASSUME NEW k, PartAt(p, q, k) PROVE PartAt(Below1(b, p), Below1(b, q), k + 1)
  <2>1. /\ Len(p) \in Nat /\ Len(q) \in Nat /\ k \in 1..Len(p) /\ k \in 1..Len(q)
        /\ p[k] # q[k] /\ \A i \in 1..(k - 1) : p[i] = q[i]
    BY <1>1 DEF PartAt, Path
  <2>2. Below1(b, p)[k + 1] # Below1(b, q)[k + 1]
    BY <2>1, Deeper
  <2>3. ASSUME NEW i \in 1..k PROVE Below1(b, p)[i] = Below1(b, q)[i]
    <3>1. CASE i = 1
      BY <3>1, Deeper
    <3>2. CASE i # 1
      <4>1. i - 1 \in 1..Len(p) /\ i - 1 \in 1..Len(q) /\ i - 1 \in 1..(k - 1) /\ i - 1 + 1 = i
        BY <2>1, <3>2
      <4>2. Below1(b, p)[i - 1 + 1] = p[i - 1] /\ Below1(b, q)[i - 1 + 1] = q[i - 1]
        BY <4>1, Deeper
      <4> QED
        BY <2>1, <4>1, <4>2
    <3> QED
      BY <3>1, <3>2
  <2>4. Len(Below1(b, p)) = Len(p) + 1 /\ Len(Below1(b, q)) = Len(q) + 1
    BY Deeper
  <2> QED
    BY <2>1, <2>2, <2>3, <2>4 DEF PartAt
<1>2. ASSUME NEW c \in {0, 1}, c # b PROVE PartAt(Below1(b, p), Below1(c, q), 1)
  <2>1. /\ Len(Below1(b, p)) = Len(p) + 1 /\ Len(Below1(c, q)) = Len(q) + 1
        /\ Len(p) \in Nat /\ Len(q) \in Nat
        /\ Below1(b, p)[1] = b /\ Below1(c, q)[1] = c
    BY Deeper
  <2> QED
    BY <2>1, <1>2 DEF PartAt
<1> QED
  BY <1>1, <1>2

(* A split at the root: what there is on one side, a new pane on the other.*)
LEMMA BesideLeaves ==
  ASSUME NEW t, Leaves(t.at), NEW new, new \notin Panes(t), NEW first \in {0, 1}
  PROVE  /\ Leaves(BesideAll(t, new, first))
         /\ DOMAIN BesideAll(t, new, first) = Panes(t) \union {new}
<1> DEFINE D == Panes(t)
           at == t.at
           f == BesideAll(t, new, first)
           E == D \union {new}
           rest == 1 - first
<1>1. /\ new \notin D /\ D # {} /\ IsFiniteSet(D)
      /\ \A p \in D : at[p] \in Path
      /\ \A p, q \in D : Under(at[p], at[q]) => p = q
      /\ \A p \in D : \A k \in 1..Len(at[p]) : \E q \in D : PartAt(at[p], at[q], k)
  BY DEF Leaves, Panes
<1>2. DOMAIN f = E /\ f = [q \in E |-> f[q]]
  BY DEF BesideAll
<1>3. rest \in {0, 1} /\ rest # first /\ <<>> \in Path /\ <<first>> = Below1(first, <<>>)
  <2>1. <<first>> = <<first>> \o <<>>
    OBVIOUS
  <2> QED
    BY <2>1 DEF Path, Below1
<1>4. f[new] = Below1(first, <<>>) /\ \A q \in D : f[q] = Below1(rest, at[q])
  BY <1>1, <1>3 DEF BesideAll, Below1
<1> HIDE DEF D, at, f, rest
<1>5. \A q \in E : f[q] \in Path
  BY <1>1, <1>3, <1>4, Deeper
<1>6. ASSUME NEW p \in E, NEW q \in E, Under(f[p], f[q]) PROVE p = q
  <2>1. CASE p \in D /\ q \in D
    BY <2>1, <1>1, <1>3, <1>4, <1>6, DeeperUnder
  <2>2. CASE p = new /\ q \in D
    BY <2>2, <1>1, <1>3, <1>4, <1>6, DeeperUnder
  <2>3. CASE p \in D /\ q = new
    BY <2>3, <1>1, <1>3, <1>4, <1>6, DeeperUnder
  <2> QED
    BY <2>1, <2>2, <2>3
<1>7. ASSUME NEW p \in E, NEW k \in 1..Len(f[p]) PROVE \E q \in E : PartAt(f[p], f[q], k)
  <2>1. CASE p = new
    <3>1. PICK q \in D : TRUE
      BY <1>1
    <3>2. Len(f[p]) = Len(<<>>) + 1
      BY <2>1, <1>3, <1>4, Deeper
    <3>3. Len(<<>>) = 0
      OBVIOUS
    <3>4. k = 1
      BY <3>2, <3>3, <1>7
    <3>5. PartAt(f[p], f[q], 1)
      BY <2>1, <3>1, <1>1, <1>3, <1>4, DeeperParts
    <3> QED
      BY <3>4, <3>5
  <2>2. CASE p \in D /\ k = 1
    <3>1. PartAt(f[p], f[new], 1)
      BY <2>2, <1>1, <1>3, <1>4, DeeperParts
    <3> QED
      BY <2>2, <3>1
  <2>3. CASE p \in D /\ k # 1
    <3>1. Len(f[p]) = Len(at[p]) + 1 /\ Len(at[p]) \in Nat
      <4>1. f[p] = Below1(rest, at[p]) /\ at[p] \in Path
        BY <2>3, <1>1, <1>4
      <4>2. Len(Below1(rest, at[p])) = Len(at[p]) + 1 /\ Len(at[p]) \in Nat
        BY <1>3, <4>1, Deeper
      <4> QED
        BY <4>1, <4>2
    <3>2. k - 1 \in 1..Len(at[p]) /\ k - 1 + 1 = k
      BY <3>1, <2>3, <1>7
    <3>3. PICK q \in D : PartAt(at[p], at[q], k - 1)
      BY <2>3, <3>2, <1>1
    <3>4. PartAt(f[p], f[q], k - 1 + 1)
      BY <2>3, <3>3, <1>1, <1>3, <1>4, DeeperParts
    <3> QED
      BY <3>2, <3>4
  <2> QED
    BY <2>1, <2>2, <2>3
<1>8. E # {} /\ IsFiniteSet(E)
  BY <1>1, FS_AddElement
<1> HIDE DEF E
<1>9. Leaves(f)
  BY <1>2, <1>5, <1>6, <1>7, <1>8 DEF Leaves
<1> QED
  BY <1>9, <1>2 DEF f, E, D

(* A drop on the edge of the grid: the pane leaves its place, and the rest *)
(* becomes one side of a new root.                                         *)
LEMMA EdgeLeaves ==
  ASSUME NEW t, Leaves(t.at), NEW p \in Panes(t), Panes(t) # {p}, NEW first \in {0, 1}
  PROVE  LET f == BesideAll([at |-> Without(t, p)], p, first)
         IN  Leaves(f) /\ DOMAIN f = Panes(t)
<1> DEFINE out == [at |-> Without(t, p)]
<1>1. out.at = Without(t, p) /\ Panes(out) = DOMAIN out.at
  BY DEF Panes
<1> HIDE DEF out
<1>2. Leaves(out.at) /\ Panes(out) = Panes(t) \ {p}
  <2>1. Leaves(Without(t, p)) /\ DOMAIN Without(t, p) = Panes(t) \ {p}
    BY CloseLeaves
  <2> QED
    BY <1>1, <2>1
<1>3. /\ Leaves(BesideAll(out, p, first))
      /\ DOMAIN BesideAll(out, p, first) = Panes(out) \union {p}
  BY <1>2, BesideLeaves
<1> QED
  BY <1>2, <1>3 DEF out

(***************************************************************************)
(* Counting                                                                *)
(***************************************************************************)
LEMMA LeastNat ==
  ASSUME NEW S \in SUBSET Nat, S # {}
  PROVE  \E m \in S : \A n \in S : m <= n
<1> DEFINE R == StrictSubsetOrdering(Nat)
           I == {T \in FiniteSubsetsOf(Nat) : \E m \in S : T = 0..m}
<1>1. \A m \in S : 0..m \in I
  <2> TAKE m \in S
  <2>1. IsFiniteSet(0..m)
    BY FS_Interval
  <2> QED
    BY <2>1 DEF FiniteSubsetsOf
<1>2. \E x \in I : \A y \in I : ~ (<<y, x>> \in R)
  <2>1. I # {} /\ I \subseteq FiniteSubsetsOf(Nat)
    BY <1>1
  <2> HIDE DEF I, R
  <2> QED
    BY <2>1, FS_StrictSubsetOrderingWellFounded, WFMin DEF R
<1>3. PICK m \in S : \A y \in I : ~ (<<y, 0..m>> \in R)
  BY <1>2
<1>4. ASSUME NEW n \in S, n < m PROVE FALSE
  <2>1. 0..n \subseteq 0..m /\ 0..n # 0..m
    <3>1. m \in 0..m /\ m \notin 0..n
      BY <1>4
    <3> QED
      BY <1>4, <3>1
  <2>2. <<0..n, 0..m>> \in R
    BY <2>1 DEF StrictSubsetOrdering
  <2> QED
    BY <2>2, <1>1, <1>3
<1> QED
  BY <1>4

LEMMA Numbered ==
  ASSUME NEW n \in Nat
  PROVE  IsFiniteSet(0..(n - 1)) /\ Cardinality(0..(n - 1)) = n
<1>1. /\ IsFiniteSet(0..(n - 1))
      /\ Cardinality(0..(n - 1)) = IF 0 > n - 1 THEN 0 ELSE n - 1 - 0 + 1
  BY FS_Interval
<1> QED
  BY <1>1

(* The values of a function are no more than its arguments.                *)
LEMMA Image ==
  ASSUME NEW S, IsFiniteSet(S), NEW f
  PROVE  LET T == {f[x] : x \in S}
         IN  /\ IsFiniteSet(T) /\ Cardinality(T) <= Cardinality(S)
             /\ (\A x, y \in S : f[x] = f[y] => x = y) => Cardinality(T) = Cardinality(S)
<1> DEFINE T == {f[x] : x \in S}
           g == [x \in S |-> f[x]]
<1>1. g \in Surjection(S, T)
  BY DEF Surjection
<1>2. (\A x, y \in S : f[x] = f[y] => x = y) => g \in Injection(S, T)
  BY DEF Injection, IsInjective
<1> HIDE DEF T, g
<1>3. /\ IsFiniteSet(T) /\ Cardinality(T) <= Cardinality(S)
      /\ Cardinality(T) = Cardinality(S) <=> g \in Injection(S, T)
  BY <1>1, FS_Surjection
<1> QED
  BY <1>2, <1>3 DEF T

StrictOrder(R, S) ==
  /\ \A x \in S : <<x, x>> \notin R
  /\ \A x, y, z \in S : <<x, y>> \in R /\ <<y, z>> \in R => <<x, z>> \in R
  /\ \A x, y \in S : x # y => <<x, y>> \in R \/ <<y, x>> \in R

Place(S, R, x) == Cardinality({y \in S : <<y, x>> \in R})

(* In a finite set with a strict total order every place is taken, and by  *)
(* one element.                                                            *)
LEMMA Ranked ==
  ASSUME NEW S, IsFiniteSet(S), NEW R, StrictOrder(R, S)
  PROVE  /\ \A x \in S : Place(S, R, x) \in 0..(Cardinality(S) - 1)
         /\ \A x, y \in S : <<x, y>> \in R => Place(S, R, x) < Place(S, R, y)
         /\ \A x, y \in S : Place(S, R, x) = Place(S, R, y) => x = y
         /\ \A i \in 0..(Cardinality(S) - 1) : \E x \in S : Place(S, R, x) = i
<1> DEFINE before(x) == {y \in S : <<y, x>> \in R}
           place(x) == Cardinality(before(x))
           n == Cardinality(S)
           g == [x \in S |-> place(x)]
<1>1. n \in Nat
  BY FS_CardinalityType
<1>2. ASSUME NEW x \in S
      PROVE  IsFiniteSet(before(x)) /\ place(x) \in 0..(n - 1)
  <2>1. before(x) \in SUBSET S /\ x \notin before(x)
    BY DEF StrictOrder
  <2> HIDE DEF before
  <2>2. IsFiniteSet(before(x)) /\ place(x) <= n /\ (n = place(x) => S = before(x))
    BY <2>1, FS_Subset
  <2>3. place(x) \in Nat
    BY <2>2, FS_CardinalityType
  <2> HIDE DEF place, n
  <2> QED
    BY <2>1, <2>2, <2>3, <1>1
<1>3. ASSUME NEW x \in S, NEW y \in S, <<x, y>> \in R PROVE place(x) < place(y)
  <2>1. before(x) \in SUBSET before(y) /\ x \in before(y) /\ x \notin before(x)
    BY <1>3 DEF StrictOrder
  <2>2. IsFiniteSet(before(y)) /\ place(x) \in 0..(n - 1) /\ place(y) \in 0..(n - 1)
    BY <1>2
  <2> HIDE DEF before
  <2>3. place(x) <= place(y) /\ (place(y) = place(x) => before(y) = before(x))
    BY <2>1, <2>2, FS_Subset
  <2> HIDE DEF place, n
  <2> QED
    BY <2>1, <2>2, <2>3, <1>1
<1>4. ASSUME NEW x \in S, NEW y \in S, place(x) = place(y) PROVE x = y
  <2>1. place(x) \in 0..(n - 1) /\ place(y) \in 0..(n - 1)
    BY <1>2
  <2>2. (<<x, y>> \in R => place(x) < place(y)) /\ (<<y, x>> \in R => place(y) < place(x))
    BY <1>3
  <2> HIDE DEF place, n
  <2> QED
    BY <2>1, <2>2, <1>1, <1>4 DEF StrictOrder
<1>5. g \in Injection(S, 0..(n - 1))
  <2> HIDE DEF place, n
  <2> QED
    BY <1>2, <1>4 DEF Injection, IsInjective
<1>6. IsFiniteSet(0..(n - 1)) /\ Cardinality(0..(n - 1)) = n
  <2> HIDE DEF n
  <2> QED
    BY <1>1, Numbered
<1>7. g \in Surjection(S, 0..(n - 1))
  <2> HIDE DEF g
  <2>1. Cardinality(S) = Cardinality(0..(n - 1))
    BY <1>6
  <2> HIDE DEF n
  <2> QED
    BY <2>1, <1>5, <1>6, FS_Injection
<1>8. ASSUME NEW i \in 0..(n - 1) PROVE \E x \in S : place(x) = i
  <2> HIDE DEF place, n
  <2> QED
    BY <1>7, <1>8 DEF Surjection
<1> QED
  BY <1>2, <1>3, <1>4, <1>8 DEF Place

(* No pane lies deeper than there are panes (LayoutNode::depth, validate): *)
(* each split on the way to it has a pane on its other part.               *)
LEMMA DepthBound ==
  ASSUME NEW at, Leaves(at), NEW p \in DOMAIN at
  PROVE  Len(at[p]) + 1 <= Cardinality(DOMAIN at) /\ Len(at[p]) \in Nat
<1> DEFINE D == DOMAIN at
           n == Len(at[p])
           w == [k \in 1..n |-> CHOOSE q \in D : PartAt(at[p], at[q], k)]
           T == D \ {p}
<1>1. p \in D /\ IsFiniteSet(D) /\ n \in Nat
      /\ \A k \in 1..n : \E q \in D : PartAt(at[p], at[q], k)
  BY DEF Leaves, Path
<1> HIDE DEF D, n
<1>2. ASSUME NEW k \in 1..n PROVE w[k] \in D /\ PartAt(at[p], at[w[k]], k)
  BY <1>1
<1> HIDE DEF w
<1>3. ASSUME NEW k \in 1..n PROVE w[k] \in T
  <2>1. w[k] # p
    BY <1>2 DEF PartAt
  <2> QED
    BY <2>1, <1>2
<1>4. ASSUME NEW k \in 1..n, NEW l \in 1..n, w[k] = w[l] PROVE k = l
  <2>1. PartAt(at[p], at[w[k]], k) /\ PartAt(at[p], at[w[k]], l)
    BY <1>2, <1>4
  <2>2. ~(k < l) /\ ~(l < k)
    BY <2>1 DEF PartAt
  <2> QED
    BY <2>2
<1>5. w \in Injection(1..n, T)
  <2>1. w = [k \in 1..n |-> w[k]]
    BY DEF w
  <2> QED
    BY <2>1, <1>3, <1>4 DEF Injection, IsInjective
<1>6. IsFiniteSet(T) /\ Cardinality(T) = Cardinality(D) - 1 /\ Cardinality(D) \in Nat
  BY <1>1, FS_RemoveElement, FS_CardinalityType
<1> HIDE DEF T
<1>7. Cardinality(1..n) <= Cardinality(T)
  BY <1>5, <1>6, FS_Injection
<1>8. Cardinality(1..n) = n
  <2>1. Cardinality(1..n) = IF 1 > n THEN 0 ELSE n - 1 + 1
    BY <1>1, FS_Interval
  <2> QED
    BY <2>1, <1>1
<1> QED
  BY <1>1, <1>6, <1>7, <1>8 DEF n, D

(***************************************************************************)
(* Left to right                                                           *)
(***************************************************************************)
LEMMA LeftTransitive ==
  ASSUME NEW p \in Path, NEW q \in Path, NEW r \in Path, Left(p, q), Left(q, r)
  PROVE  Left(p, r)
<1>1. PICK k \in 1..Len(p) : PartAt(p, q, k) /\ p[k] < q[k]
  BY DEF Left
<1>2. PICK l \in 1..Len(q) : PartAt(q, r, l) /\ q[l] < r[l]
  BY DEF Left
<1>3. /\ k \in Nat \ {0} /\ l \in Nat \ {0} /\ k <= Len(q) /\ l <= Len(r)
      /\ Len(p) \in Nat /\ Len(q) \in Nat /\ Len(r) \in Nat
      /\ \A i \in 1..(k - 1) : p[i] = q[i]
      /\ \A i \in 1..(l - 1) : q[i] = r[i]
  BY <1>1, <1>2 DEF PartAt, Path
<1>4. CASE k < l
  <2>1. PartAt(p, r, k) /\ p[k] < r[k]
    BY <1>1, <1>3, <1>4 DEF PartAt
  <2> QED
    BY <2>1, <1>1 DEF Left
<1>5. CASE l < k
  <2>1. PartAt(p, r, l) /\ p[l] < r[l] /\ l \in 1..Len(p)
    BY <1>1, <1>2, <1>3, <1>5 DEF PartAt
  <2> QED
    BY <2>1 DEF Left
<1>6. CASE l = k
  <2>1. p[k] \in {0, 1} /\ q[k] \in {0, 1} /\ r[k] \in {0, 1}
    BY <1>1, <1>2, <1>3, <1>6 DEF Path
  <2>2. PartAt(p, r, k) /\ p[k] < r[k]
    BY <2>1, <1>1, <1>2, <1>3, <1>6 DEF PartAt
  <2> QED
    BY <2>2, <1>1 DEF Left
<1> QED
  BY <1>3, <1>4, <1>5, <1>6

LEMMA LeftItself == \A p \in Path : ~Left(p, p)
  BY DEF Left, PartAt

LEMMA LeftApart ==
  ASSUME NEW p \in Path, NEW q \in Path, ~Under(p, q), ~Under(q, p)
  PROVE  Left(p, q) \/ Left(q, p)
<1> DEFINE S == {k \in 1..Len(p) : k <= Len(q) /\ p[k] # q[k]}
<1>1. Len(p) \in Nat /\ Len(q) \in Nat
  BY DEF Path
<1>2. S \in SUBSET Nat
  BY <1>1
<1>3. S # {}
  <2>1. CASE Len(p) <= Len(q)
    BY <2>1, <1>1 DEF Under
  <2>2. CASE Len(q) <= Len(p)
    BY <2>2, <1>1 DEF Under
  <2> QED
    BY <2>1, <2>2, <1>1
<1>4. PICK m \in S : \A n \in S : m <= n
  <2> HIDE DEF S
  <2> QED
    BY <1>2, <1>3, LeastNat
<1>5. m \in 1..Len(p) /\ m \in 1..Len(q) /\ p[m] # q[m] /\ p[m] \in {0, 1} /\ q[m] \in {0, 1}
  BY <1>1, <1>4 DEF Path
<1>6. ASSUME NEW i \in 1..(m - 1) PROVE p[i] = q[i]
  BY <1>1, <1>4, <1>5
<1>7. PartAt(p, q, m) /\ PartAt(q, p, m)
  BY <1>1, <1>5, <1>6 DEF PartAt
<1>8. p[m] < q[m] \/ q[m] < p[m]
  BY <1>5
<1> QED
  BY <1>5, <1>7, <1>8 DEF Left

(* The panes of a tab from left to right: every place is taken, and by one *)
(* pane.                                                                   *)
LEMMA PanesInOrder ==
  ASSUME NEW t, Leaves(t.at)
  PROVE  /\ \A p \in Panes(t) : Rank(t, p) \in 0..(Cardinality(Panes(t)) - 1)
         /\ \A p, q \in Panes(t) : Left(t.at[p], t.at[q]) => Rank(t, p) < Rank(t, q)
         /\ \A i \in 0..(Cardinality(Panes(t)) - 1) : \E p \in Panes(t) : Rank(t, p) = i
         /\ Cardinality(Panes(t)) \in Nat \ {0}
<1> DEFINE D == Panes(t)
           at == t.at
           R == {e \in D \X D : Left(at[e[1]], at[e[2]])}
           place(x) == Place(D, R, x)
<1>1. /\ IsFiniteSet(D) /\ D # {}
      /\ \A p \in D : at[p] \in Path
      /\ \A p, q \in D : Under(at[p], at[q]) => p = q
  BY DEF Leaves, Panes
<1>2. \A p, q \in D : <<p, q>> \in R <=> Left(at[p], at[q])
  OBVIOUS
<1>3. ASSUME NEW p \in D PROVE place(p) = Rank(t, p)
  <2>1. {y \in D : <<y, p>> \in R} = {y \in D : Left(at[y], at[p])}
    BY <1>2, <1>3
  <2> QED
    BY <2>1 DEF Rank, Place
<1> HIDE DEF D, at, R
<1>4. \A p \in D : <<p, p>> \notin R
  BY <1>1, <1>2, LeftItself
<1>5. \A p, q, r \in D : <<p, q>> \in R /\ <<q, r>> \in R => <<p, r>> \in R
  BY <1>1, <1>2, LeftTransitive
<1>6. ASSUME NEW p \in D, NEW q \in D, p # q PROVE <<p, q>> \in R \/ <<q, p>> \in R
  <2>1. ~Under(at[p], at[q]) /\ ~Under(at[q], at[p])
    BY <1>1, <1>6
  <2> QED
    BY <2>1, <1>1, <1>2, LeftApart
<1>7. IsFiniteSet(D) /\ StrictOrder(R, D)
  BY <1>1, <1>4, <1>5, <1>6 DEF StrictOrder
<1>8. /\ \A x \in D : place(x) \in 0..(Cardinality(D) - 1)
      /\ \A x, y \in D : <<x, y>> \in R => place(x) < place(y)
      /\ \A x, y \in D : place(x) = place(y) => x = y
      /\ \A i \in 0..(Cardinality(D) - 1) : \E x \in D : place(x) = i
  BY <1>7, Ranked
<1>9. Cardinality(D) \in Nat \ {0}
  BY <1>1, FS_CardinalityType, FS_EmptySet
<1> HIDE DEF place
<1>10. /\ \A p \in D : Rank(t, p) \in 0..(Cardinality(D) - 1)
       /\ \A p, q \in D : Left(at[p], at[q]) => Rank(t, p) < Rank(t, q)
  BY <1>2, <1>3, <1>8, ZenonT(40)
<1>11. ASSUME NEW i \in 0..(Cardinality(D) - 1) PROVE \E p \in D : Rank(t, p) = i
  BY <1>3, <1>8
<1> QED
  BY <1>9, <1>10, <1>11 DEF D, at

(* Tab::cycle_focus always finds a pane, and the pane that gets the focus  *)
(* after a close is one of those that are left.                            *)
LEMMA FocusStays ==
  ASSUME NEW t, Leaves(t.at), NEW p \in Panes(t)
  PROVE  /\ \A step \in {1, -1} :
              PaneAt(t, (Rank(t, p) + Cardinality(Panes(t)) + step) % Cardinality(Panes(t)))
                \in Panes(t)
         /\ Panes(t) # {p} => FirstUnder(t, Sibling(t, p)) \in Panes(t) \ {p}
<1>1. ASSUME NEW step \in {1, -1}
      PROVE  PaneAt(t, (Rank(t, p) + Cardinality(Panes(t)) + step) % Cardinality(Panes(t)))
               \in Panes(t)
  <2> DEFINE n == Cardinality(Panes(t))
             k == (Rank(t, p) + n + step) % n
  <2>1. n \in Nat \ {0} /\ Rank(t, p) \in 0..(n - 1)
    BY PanesInOrder
  <2> HIDE DEF n
  <2>2. k \in 0..(n - 1)
    BY <2>1
  <2>3. \E q \in Panes(t) : Rank(t, q) = k
    <3> HIDE DEF k
    <3> QED
      BY <2>2, PanesInOrder DEF n
  <2> HIDE DEF k
  <2>4. PaneAt(t, k) \in Panes(t)
    BY <2>3 DEF PaneAt
  <2> QED
    BY <2>4 DEF k, n
<1>2. ASSUME Panes(t) # {p} PROVE FirstUnder(t, Sibling(t, p)) \in Panes(t) \ {p}
  <2> DEFINE root == Sibling(t, p)
             S == {Rank(t, q) : q \in {r \in Panes(t) : Under(root, t.at[r])}}
  <2>1. \E q \in Panes(t) : Under(root, t.at[q])
    BY <1>2, CloseLeaves
  <2>2. /\ t.at[p] \in Path /\ t.at[p] # <<>> /\ root = Other(t.at[p])
    BY <1>2, CloseLeaves DEF Sibling, Other
  <2> HIDE DEF root
  <2>3. \A q \in Panes(t) : Rank(t, q) \in Nat
    BY PanesInOrder
  <2>4. PICK m \in S : \A n \in S : m <= n
    <3>1. S \in SUBSET Nat /\ S # {}
      BY <2>1, <2>3
    <3> HIDE DEF S
    <3> QED
      BY <3>1, LeastNat
  <2>5. PICK q \in Panes(t) : Under(root, t.at[q]) /\ Rank(t, q) = m
    BY <2>4
  <2>6. ASSUME NEW r \in Panes(t), Under(root, t.at[r]) PROVE ~Left(t.at[r], t.at[q])
    <3>1. Rank(t, q) <= Rank(t, r) /\ Rank(t, q) \in Nat /\ Rank(t, r) \in Nat
      BY <2>3, <2>4, <2>5, <2>6
    <3> QED
      BY <3>1, PanesInOrder
  <2>7. FirstUnder(t, root) \in Panes(t) /\ Under(root, t.at[FirstUnder(t, root)])
    BY <2>5, <2>6 DEF FirstUnder
  <2>8. ~Under(root, t.at[p])
    <3>1. Other(t.at[p])[Len(t.at[p])] # t.at[p][Len(t.at[p])] /\ Len(t.at[p]) \in Nat \ {0}
      <4>1. t.at[p][Len(t.at[p])] \in {0, 1}
        BY <2>2 DEF Path
      <4> QED
        BY <4>1, <2>2, OtherPart
    <3> QED
      BY <3>1, <2>2, OtherPart DEF Under
  <2> QED
    BY <2>7, <2>8 DEF root
<1> QED
  BY <1>1, <1>2

(***************************************************************************)
(* To the layout file and back                                             *)
(***************************************************************************)
TreeOf(paths) == IsFiniteSet(paths) /\ paths \subseteq Path /\ IsTree(paths)

LEMMA ShapeTree ==
  ASSUME NEW t, Leaves(t.at)
  PROVE  TreeOf(Shape(t)) /\ Cardinality(Shape(t)) = Cardinality(Panes(t))
<1> DEFINE D == Panes(t)
           at == t.at
<1>1. /\ IsFiniteSet(D) /\ D # {}
      /\ \A p \in D : at[p] \in Path
      /\ \A p, q \in D : Under(at[p], at[q]) => p = q
      /\ \A p \in D : \A k \in 1..Len(at[p]) : \E q \in D : PartAt(at[p], at[q], k)
  BY DEF Leaves, Panes
<1>2. Shape(t) = {at[x] : x \in D}
  BY DEF Shape
<1> HIDE DEF D, at
<1>3. \A p, q \in D : at[p] = at[q] => p = q
  BY <1>1, UnderItself
<1>4. IsFiniteSet(Shape(t)) /\ Cardinality(Shape(t)) = Cardinality(D)
  BY <1>1, <1>2, <1>3, Image
<1>5. Shape(t) \subseteq Path /\ Shape(t) # {}
  BY <1>1, <1>2
<1>6. IsTree(Shape(t))
  BY <1>1, <1>2, <1>5 DEF IsTree
<1> QED
  BY <1>4, <1>5, <1>6 DEF TreeOf, D

(* Tab::from_state: the panes of a stored tree are numbered from left to   *)
(* right, and its shape is the stored one.                                 *)
LEMMA RestoredTab ==
  ASSUME NEW paths, TreeOf(paths), NEW slots
  PROVE  LET t == TabOf(paths, slots)
             n == Cardinality(paths)
         IN  /\ Leaves(t.at) /\ Panes(t) = 0..(n - 1) /\ n \in Nat \ {0}
             /\ t = [at |-> t.at, slot |-> t.slot, focus |-> 0, last |-> n - 1]
             /\ t.slot = [i \in 0..(n - 1) |-> slots[i + 1]]
             /\ Shape(t) = paths
<1> DEFINE t == TabOf(paths, slots)
           n == Cardinality(paths)
           N == 0..(n - 1)
           at == t.at
           R == {e \in paths \X paths : Left(e[1], e[2])}
           place(x) == Place(paths, R, x)
           rank(x) == Cardinality({y \in paths : Left(y, x)})
<1>1. /\ IsFiniteSet(paths) /\ paths # {} /\ \A p \in paths : p \in Path
      /\ \A p, q \in paths : Under(p, q) => p = q
      /\ \A p \in paths : \A k \in 1..Len(p) : \E q \in paths : PartAt(p, q, k)
  BY DEF TreeOf, IsTree
<1>2. n \in Nat \ {0}
  BY <1>1, FS_CardinalityType, FS_EmptySet
<1>3. \A p, q \in paths : <<p, q>> \in R <=> Left(p, q)
  OBVIOUS
<1>4. ASSUME NEW p \in paths PROVE place(p) = rank(p)
  <2>1. {y \in paths : <<y, p>> \in R} = {y \in paths : Left(y, p)}
    BY <1>3, <1>4
  <2> QED
    BY <2>1 DEF Place
<1>5. /\ \A x \in paths : place(x) \in N
      /\ \A i \in N : \E x \in paths : place(x) = i
      /\ \A x, y \in paths : place(x) = place(y) => x = y
  <2> HIDE DEF R
  <2>1. \A p \in paths : <<p, p>> \notin R
    BY <1>1, <1>3, LeftItself
  <2>2. \A p, q, r \in paths : <<p, q>> \in R /\ <<q, r>> \in R => <<p, r>> \in R
    BY <1>1, <1>3, LeftTransitive
  <2>3. ASSUME NEW p \in paths, NEW q \in paths, p # q
        PROVE  <<p, q>> \in R \/ <<q, p>> \in R
    <3>1. ~Under(p, q) /\ ~Under(q, p)
      BY <1>1, <2>3
    <3> QED
      BY <3>1, <1>1, <1>3, LeftApart
  <2>4. IsFiniteSet(paths) /\ StrictOrder(R, paths)
    BY <1>1, <2>1, <2>2, <2>3 DEF StrictOrder
  <2> QED
    BY <2>4, Ranked
<1> HIDE DEF place
<1>6. at = [i \in N |-> CHOOSE p \in paths : rank(p) = i]
  BY DEF TabOf
<1> HIDE DEF rank, N, at
<1>7. ASSUME NEW i \in N PROVE at[i] \in paths /\ rank(at[i]) = i
  BY <1>4, <1>5, <1>6
<1>8. /\ \A i, j \in N : at[i] = at[j] => i = j
      /\ \A p \in paths : \E i \in N : at[i] = p
  BY <1>4, <1>5, <1>7
<1>9. at = [i \in N |-> at[i]]
  BY <1>6
<1>10. IsFiniteSet(N) /\ N # {}
  <2>1. 0 \in N /\ IsFiniteSet(0..(n - 1))
    <3> HIDE DEF n
    <3> QED
      BY <1>2, FS_Interval DEF N
  <2> QED
    BY <2>1 DEF N
<1>11. Leaves(at)
  <2>1. at \in [N -> Path] /\ DOMAIN at = N
    BY <1>1, <1>7, <1>9
  <2>2. \A i, j \in N : Under(at[i], at[j]) => i = j
    BY <1>1, <1>7, <1>8
  <2>3. \A i \in N : \A k \in 1..Len(at[i]) : \E j \in N : PartAt(at[i], at[j], k)
    BY <1>1, <1>7, <1>8
  <2> QED
    BY <2>1, <2>2, <2>3, <1>10 DEF Leaves
<1>12. Shape(t) = {at[i] : i \in N} /\ Panes(t) = N
  BY <1>9 DEF Shape, Panes, at
<1>13. Shape(t) = paths
  BY <1>7, <1>8, <1>12
<1>14. /\ t = [at |-> t.at, slot |-> t.slot, focus |-> 0, last |-> n - 1]
       /\ t.slot = [i \in 0..(n - 1) |-> slots[i + 1]]
  BY DEF TabOf
<1> QED
  BY <1>2, <1>11, <1>12, <1>13, <1>14 DEF at, N

(***************************************************************************)
(* Counting the panes of all tabs                                          *)
(***************************************************************************)
Pairs(f) == UNION {{i} \X f[i] : i \in DOMAIN f}

LEMMA PairIn ==
  ASSUME NEW f
  PROVE  /\ \A i, p : <<i, p>> \in Pairs(f) <=> i \in DOMAIN f /\ p \in f[i]
         /\ \A e \in Pairs(f) : \E i \in DOMAIN f : \E p \in f[i] : e = <<i, p>>
  BY DEF Pairs

LEMMA PairsFinite ==
  ASSUME NEW f, IsFiniteSet(DOMAIN f), \A i \in DOMAIN f : IsFiniteSet(f[i])
  PROVE  IsFiniteSet(Pairs(f)) /\ PaneTotal(f) \in Nat /\ PaneTotal(f) = Cardinality(Pairs(f))
<1> DEFINE D == DOMAIN f
           g == [i \in D |-> {i} \X f[i]]
           S == {g[i] : i \in D}
<1>1. Pairs(f) = UNION S
  BY DEF Pairs
<1>2. IsFiniteSet(S)
  <2> HIDE DEF g
  <2> QED
    BY Image
<1>3. ASSUME NEW i \in D PROVE IsFiniteSet(g[i])
  <2>1. IsFiniteSet({i}) /\ IsFiniteSet(f[i])
    BY FS_Singleton
  <2>2. IsFiniteSet({i} \X f[i])
    BY <2>1, FS_Product
  <2> QED
    BY <2>2
<1>4. \A T \in S : IsFiniteSet(T)
  BY <1>3
<1> HIDE DEF S
<1>5. IsFiniteSet(UNION S)
  BY <1>2, <1>4, FS_UNION
<1> QED
  BY <1>1, <1>5, FS_CardinalityType DEF PaneTotal, Pairs

LEMMA FewerPanes ==
  ASSUME NEW f, IsFiniteSet(DOMAIN f), \A i \in DOMAIN f : IsFiniteSet(f[i]),
         NEW g, Pairs(g) \subseteq Pairs(f)
  PROVE  PaneTotal(g) <= PaneTotal(f) /\ PaneTotal(g) \in Nat
<1>1. IsFiniteSet(Pairs(f)) /\ Pairs(g) \in SUBSET Pairs(f)
  BY PairsFinite
<1>2. IsFiniteSet(Pairs(g)) /\ Cardinality(Pairs(g)) <= Cardinality(Pairs(f))
  BY <1>1, FS_Subset
<1> QED
  BY <1>2, FS_CardinalityType DEF PaneTotal, Pairs

LEMMA OneMorePane ==
  ASSUME NEW f, IsFiniteSet(DOMAIN f), \A i \in DOMAIN f : IsFiniteSet(f[i]),
         NEW g, NEW e, e \notin Pairs(f), Pairs(g) = Pairs(f) \union {e}
  PROVE  PaneTotal(g) = PaneTotal(f) + 1
<1>1. IsFiniteSet(Pairs(f))
  BY PairsFinite
<1>2. Cardinality(Pairs(g)) = Cardinality(Pairs(f)) + 1
  BY <1>1, FS_AddElement
<1> QED
  BY <1>2 DEF PaneTotal, Pairs

(* The panes of g are told apart by panes of f.                            *)
LEMMA PanesApart ==
  ASSUME NEW f, IsFiniteSet(DOMAIN f), \A i \in DOMAIN f : IsFiniteSet(f[i]),
         NEW g, NEW h, \A e \in Pairs(g) : h[e] \in Pairs(f),
         \A d, e \in Pairs(g) : h[d] = h[e] => d = e
  PROVE  PaneTotal(g) <= PaneTotal(f) /\ PaneTotal(g) \in Nat
<1> DEFINE k == [e \in Pairs(g) |-> h[e]]
<1>1. k \in Injection(Pairs(g), Pairs(f))
  BY DEF Injection, IsInjective
<1>2. IsFiniteSet(Pairs(f))
  BY PairsFinite
<1> HIDE DEF k
<1>3. IsFiniteSet(Pairs(g)) /\ Cardinality(Pairs(g)) <= Cardinality(Pairs(f))
  BY <1>1, <1>2, FS_Injection
<1> QED
  BY <1>3, FS_CardinalityType DEF PaneTotal, Pairs

(***************************************************************************)
(* The window                                                              *)
(***************************************************************************)

Limit == IF MaxSessions > 1 THEN MaxSessions ELSE 2

TabInv(t) ==
  /\ t = [at |-> t.at, slot |-> t.slot, focus |-> t.focus, last |-> t.last]
  /\ Leaves(t.at) /\ Cardinality(Panes(t)) <= MaxPanesPerTab
  /\ t.slot \in [Panes(t) -> 0..MaxSessions + 1]
  /\ t.focus \in Panes(t)
  /\ t.last \in Nat /\ Panes(t) \subseteq 0..t.last

IsSeq(s) == Len(s) \in Nat /\ s \in [1..Len(s) -> {s[i] : i \in 1..Len(s)}]

PanesOf(ts) == [i \in DOMAIN ts |-> Panes(ts[i])]
CountOf(ts) == PaneTotal(PanesOf(ts))

GoodTabs(ts) == IsSeq(ts) /\ \A i \in 1..Len(ts) : TabInv(ts[i])

TabsInv(ts, lv) == GoodTabs(ts) /\ lv \subseteq Open(ts) /\ CountOf(ts) <= Limit

(***************************************************************************)
(* One tab                                                                 *)
(***************************************************************************)
LEMMA FinitePanes == \A t : TabInv(t) => IsFiniteSet(Panes(t)) /\ Panes(t) # {}
  BY DEF TabInv, Leaves, Panes

LEMMA NewTabInv ==
  ASSUME NEW s \in 0..MaxSessions + 1
  PROVE  /\ TabInv(NewTabOf(s)) /\ Panes(NewTabOf(s)) = {0}
         /\ NewTabOf(s).slot = [p \in {0} |-> s]
<1> DEFINE t == NewTabOf(s)
<1>1. /\ t = [at |-> t.at, slot |-> t.slot, focus |-> t.focus, last |-> t.last]
      /\ t.at = [p \in {0} |-> <<>>] /\ t.slot = [p \in {0} |-> s] /\ t.focus = 0 /\ t.last = 0
      /\ Panes(t) = {0}
  BY DEF NewTabOf, Panes
<1> HIDE DEF t
<1>2. IsFiniteSet({0}) /\ Cardinality({0}) = 1
  BY FS_Singleton
<1>3. Leaves(t.at)
  BY <1>1, <1>2 DEF Leaves, Path
<1>4. 1 <= MaxPanesPerTab
  BY WorkspaceAssumption
<1> QED
  BY <1>1, <1>2, <1>3, <1>4 DEF TabInv, t

(* Splitting: the pane count stays in its limit, as split checks it first. *)
LEMMA SplitInv ==
  ASSUME NEW t, TabInv(t), Cardinality(Panes(t)) < MaxPanesPerTab, NEW s \in 0..MaxSessions + 1
  PROVE  /\ TabInv(SplitFocus(t, s)) /\ t.last + 1 \notin Panes(t)
         /\ Panes(SplitFocus(t, s)) = Panes(t) \union {t.last + 1}
         /\ SplitFocus(t, s).slot =
              [q \in Panes(t) \union {t.last + 1} |-> IF q = t.last + 1 THEN s ELSE t.slot[q]]
<1> DEFINE new == t.last + 1
           u == SplitFocus(t, s)
           E == Panes(t) \union {new}
<1>1. /\ Leaves(t.at) /\ t.slot \in [Panes(t) -> 0..MaxSessions + 1] /\ t.focus \in Panes(t)
      /\ t.last \in Nat /\ Panes(t) \subseteq 0..t.last
  BY DEF TabInv
<1>2. new \notin Panes(t) /\ new \in Nat /\ E \subseteq 0..new
  BY <1>1
<1>3. /\ u = [at |-> u.at, slot |-> u.slot, focus |-> u.focus, last |-> u.last]
      /\ u.at = SplitPane(t, t.focus, new, 0) /\ u.focus = new /\ u.last = new
      /\ u.slot = [q \in E |-> IF q = new THEN s ELSE t.slot[q]]
  BY DEF SplitFocus
<1> HIDE DEF u, new
<1>4. Leaves(u.at) /\ DOMAIN u.at = E
  <2>1. Leaves(SplitPane(t, t.focus, new, 0)) /\ DOMAIN SplitPane(t, t.focus, new, 0) = E
    BY <1>1, <1>2, SplitLeaves
  <2> QED
    BY <2>1, <1>3
<1>5. Panes(u) = E
  BY <1>4 DEF Panes
<1>6. Cardinality(E) = Cardinality(Panes(t)) + 1 /\ Cardinality(Panes(t)) \in Nat
  BY <1>2, FinitePanes, FS_AddElement, FS_CardinalityType
<1>7. Cardinality(E) <= MaxPanesPerTab
  BY <1>6, WorkspaceAssumption
<1>8. u.slot \in [E -> 0..MaxSessions + 1]
  BY <1>1, <1>3
<1>9. TabInv(u)
  BY <1>2, <1>3, <1>4, <1>5, <1>7, <1>8 DEF TabInv
<1> QED
  BY <1>2, <1>3, <1>5, <1>9 DEF u, new

LEMMA CloseInv ==
  ASSUME NEW t, TabInv(t), NEW p \in Panes(t), Panes(t) # {p}
  PROVE  /\ TabInv(ClosePaneOf(t, p)) /\ Panes(ClosePaneOf(t, p)) = Panes(t) \ {p}
         /\ ClosePaneOf(t, p).slot = [q \in Panes(t) \ {p} |-> t.slot[q]]
<1> DEFINE u == ClosePaneOf(t, p)
           E == Panes(t) \ {p}
<1>1. /\ Leaves(t.at) /\ t.slot \in [Panes(t) -> 0..MaxSessions + 1]
      /\ t.last \in Nat /\ Panes(t) \subseteq 0..t.last
      /\ Cardinality(Panes(t)) <= MaxPanesPerTab
  BY DEF TabInv
<1>2. /\ u = [at |-> u.at, slot |-> u.slot, focus |-> u.focus, last |-> u.last]
      /\ u.at = Without(t, p) /\ u.focus = FirstUnder(t, Sibling(t, p)) /\ u.last = t.last
      /\ u.slot = [q \in E |-> t.slot[q]]
  BY DEF ClosePaneOf
<1> HIDE DEF u
<1>3. Leaves(u.at) /\ DOMAIN u.at = E
  <2>1. Leaves(Without(t, p)) /\ DOMAIN Without(t, p) = E
    BY <1>1, CloseLeaves
  <2> QED
    BY <2>1, <1>2
<1>4. Panes(u) = E
  BY <1>3 DEF Panes
<1>5. u.focus \in E
  BY <1>1, <1>2, FocusStays
<1>6. Cardinality(E) = Cardinality(Panes(t)) - 1 /\ Cardinality(Panes(t)) \in Nat
  BY FinitePanes, FS_RemoveElement, FS_CardinalityType
<1>7. Cardinality(E) <= MaxPanesPerTab
  BY <1>1, <1>6, WorkspaceAssumption
<1>8. u.slot \in [E -> 0..MaxSessions + 1]
  BY <1>1, <1>2
<1>9. TabInv(u)
  BY <1>1, <1>2, <1>3, <1>4, <1>5, <1>7, <1>8 DEF TabInv
<1> QED
  BY <1>2, <1>4, <1>9 DEF u

(* A change of places or of focus keeps the panes and their sessions.      *)
Rearranged(t, u) == TabInv(u) /\ Panes(u) = Panes(t) /\ u.slot = t.slot

LEMMA FocusInv ==
  ASSUME NEW t, TabInv(t)
  PROVE  /\ \A p \in Panes(t) : Rearranged(t, FocusOn(t, p))
         /\ \A step \in {1, -1} : Rearranged(t, CycleFocus(t, step))
<1>1. ASSUME NEW p \in Panes(t), NEW u, u = [t EXCEPT !.focus = p] PROVE Rearranged(t, u)
  <2>1. /\ u.at = t.at /\ u.slot = t.slot /\ u.focus = p /\ u.last = t.last
        /\ u = [at |-> u.at, slot |-> u.slot, focus |-> u.focus, last |-> u.last]
    BY <1>1 DEF TabInv
  <2>2. Panes(u) = Panes(t)
    BY <2>1 DEF Panes
  <2> QED
    BY <2>1, <2>2 DEF TabInv, Rearranged
<1>2. ASSUME NEW step \in {1, -1} PROVE Rearranged(t, CycleFocus(t, step))
  <2> DEFINE n == Cardinality(Panes(t))
             q == PaneAt(t, (Rank(t, t.focus) + n + step) % n)
  <2>1. CycleFocus(t, step) = [t EXCEPT !.focus = q]
    BY DEF CycleFocus
  <2>2. q \in Panes(t)
    BY FocusStays DEF TabInv
  <2> HIDE DEF q
  <2> QED
    BY <2>1, <2>2, <1>1
<1>3. ASSUME NEW p \in Panes(t) PROVE Rearranged(t, FocusOn(t, p))
  BY <1>1, <1>3 DEF FocusOn
<1> QED
  BY <1>2, <1>3

LEMMA DropInv ==
  ASSUME NEW t, TabInv(t), NEW p \in Panes(t), NEW q \in Panes(t), p # q
  PROVE  /\ Rearranged(t, SwapPanes(t, p, q))
         /\ \A first \in {0, 1} : /\ Rearranged(t, MovePane(t, p, q, first))
                                  /\ Rearranged(t, MoveToEdge(t, p, first))
<1>1. /\ t = [at |-> t.at, slot |-> t.slot, focus |-> t.focus, last |-> t.last]
      /\ Leaves(t.at) /\ t.slot \in [Panes(t) -> 0..MaxSessions + 1]
      /\ t.last \in Nat /\ Panes(t) \subseteq 0..t.last /\ t.focus \in Panes(t)
      /\ Cardinality(Panes(t)) <= MaxPanesPerTab
  BY DEF TabInv
<1>2. Rearranged(t, SwapPanes(t, p, q))
  <2> DEFINE f == [t.at EXCEPT ![p] = t.at[q], ![q] = t.at[p]]
             u == SwapPanes(t, p, q)
  <2>1. Leaves(f) /\ DOMAIN f = Panes(t)
    BY <1>1, SwapLeaves
  <2>2. u = [at |-> f, slot |-> t.slot, focus |-> t.focus, last |-> t.last]
    BY <1>1 DEF SwapPanes
  <2> HIDE DEF f, u
  <2>3. Panes(u) = Panes(t)
    BY <2>1, <2>2 DEF Panes
  <2>4. TabInv(u) /\ u.slot = t.slot
    BY <1>1, <2>1, <2>2, <2>3 DEF TabInv
  <2> QED
    BY <2>3, <2>4 DEF Rearranged, u
<1>3. ASSUME NEW f, Leaves(f), DOMAIN f = Panes(t), NEW u, u = [t EXCEPT !.at = f]
      PROVE  Rearranged(t, u)
  <2>1. u = [at |-> f, slot |-> t.slot, focus |-> t.focus, last |-> t.last]
    BY <1>1, <1>3
  <2>2. Panes(u) = Panes(t)
    BY <1>3, <2>1 DEF Panes
  <2>3. TabInv(u) /\ u.slot = t.slot
    BY <1>1, <1>3, <2>1, <2>2 DEF TabInv
  <2> QED
    BY <2>2, <2>3 DEF Rearranged
<1>4. ASSUME NEW first \in {0, 1} PROVE Rearranged(t, MovePane(t, p, q, first))
  <2> DEFINE f == SplitPane([at |-> Without(t, p)], q, p, first)
             u == MovePane(t, p, q, first)
  <2>1. Leaves(f) /\ DOMAIN f = Panes(t)
    BY <1>1, MoveLeaves
  <2>2. u = [t EXCEPT !.at = f]
    BY DEF MovePane
  <2> HIDE DEF f, u
  <2> QED
    BY <1>3, <2>1, <2>2 DEF u
<1>5. ASSUME NEW first \in {0, 1} PROVE Rearranged(t, MoveToEdge(t, p, first))
  <2> DEFINE f == BesideAll([at |-> Without(t, p)], p, first)
             u == MoveToEdge(t, p, first)
  <2>1. Panes(t) # {p}
    OBVIOUS
  <2>2. Leaves(f) /\ DOMAIN f = Panes(t)
    BY <1>1, <2>1, EdgeLeaves
  <2>3. u = [t EXCEPT !.at = f]
    BY DEF MoveToEdge
  <2> HIDE DEF f, u
  <2> QED
    BY <1>3, <2>2, <2>3 DEF u
<1> QED
  BY <1>2, <1>4, <1>5

(***************************************************************************)
(* All tabs                                                                *)
(***************************************************************************)
LEMMA SeqForm ==
  /\ \A S : \A s \in Seq(S) : IsSeq(s) /\ DOMAIN s = 1..Len(s)
  /\ \A s : IsSeq(s) => s \in Seq({s[i] : i \in 1..Len(s)}) /\ DOMAIN s = 1..Len(s)
  BY DEF IsSeq

LEMMA TabsSeq ==
  ASSUME NEW ts, NEW lv, TabsInv(ts, lv)
  PROVE  /\ GoodTabs(ts) /\ CountOf(ts) <= Limit
         /\ Len(ts) \in Nat /\ DOMAIN ts = 1..Len(ts)
         /\ ts \in Seq({ts[k] : k \in 1..Len(ts)})
         /\ \A t : ts \in Seq({ts[k] : k \in 1..Len(ts)} \union {t})
<1>1. GoodTabs(ts) /\ CountOf(ts) <= Limit /\ IsSeq(ts)
  BY DEF TabsInv, GoodTabs
<1>2. Len(ts) \in Nat
  BY <1>1 DEF IsSeq
<1>3. DOMAIN ts = 1..Len(ts) /\ ts \in Seq({ts[k] : k \in 1..Len(ts)})
  BY <1>1, SeqForm, Zenon
<1>4. ASSUME NEW t PROVE ts \in Seq({ts[k] : k \in 1..Len(ts)} \union {t})
  BY <1>3
<1> QED
  BY <1>1, <1>2, <1>3, <1>4, Zenon

LEMMA Counted ==
  ASSUME NEW ts, GoodTabs(ts)
  PROVE  /\ DOMAIN PanesOf(ts) = 1..Len(ts) /\ DOMAIN ts = 1..Len(ts)
         /\ \A i \in 1..Len(ts) : PanesOf(ts)[i] = Panes(ts[i])
         /\ IsFiniteSet(DOMAIN PanesOf(ts))
         /\ \A i \in DOMAIN PanesOf(ts) : IsFiniteSet(PanesOf(ts)[i])
         /\ CountOf(ts) \in Nat
<1>1. DOMAIN ts = 1..Len(ts) /\ Len(ts) \in Nat
  BY SeqForm DEF GoodTabs, IsSeq
<1>2. DOMAIN PanesOf(ts) = 1..Len(ts) /\ \A i \in 1..Len(ts) : PanesOf(ts)[i] = Panes(ts[i])
  BY <1>1 DEF PanesOf
<1>3. IsFiniteSet(1..Len(ts))
  BY <1>1, FS_Interval
<1>4. \A i \in DOMAIN PanesOf(ts) : IsFiniteSet(PanesOf(ts)[i])
  BY <1>2, FinitePanes DEF GoodTabs
<1> QED
  BY <1>1, <1>2, <1>3, <1>4, PairsFinite DEF CountOf

LEMMA OpenIn ==
  ASSUME NEW ts, GoodTabs(ts)
  PROVE  \A s : s \in Open(ts) <=>
           s # NoSession /\ \E i \in 1..Len(ts) : \E p \in Panes(ts[i]) : s = ts[i].slot[p]
<1>1. DOMAIN ts = 1..Len(ts)
  BY Counted
<1> QED
  BY <1>1 DEF Open

(* Every open session is in a pane of its own, so there are no more of     *)
(* them than panes, and a fresh number is among the first.                 *)
LEMMA FreshSession ==
  ASSUME NEW ts, GoodTabs(ts), CountOf(ts) < MaxSessions,
         NEW s \in {NoSession} \union {CHOOSE n \in 1..(CountOf(ts) + 1) : n \notin Open(ts)}
  PROVE  s \in 0..MaxSessions
<1> DEFINE P == Pairs(PanesOf(ts))
           h == [e \in P |-> ts[e[1]].slot[e[2]]]
           T == {h[e] : e \in P}
           c == CountOf(ts)
<1>1. IsFiniteSet(P) /\ c = Cardinality(P) /\ c \in Nat
  BY Counted, PairsFinite DEF CountOf
<1>2. IsFiniteSet(T) /\ Cardinality(T) <= Cardinality(P)
  <2> HIDE DEF h
  <2> QED
    BY <1>1, Image
<1>3. Open(ts) \subseteq T
  <2> SUFFICES ASSUME NEW x \in Open(ts) PROVE x \in T
    OBVIOUS
  <2>1. PICK i \in 1..Len(ts) : \E p \in Panes(ts[i]) : x = ts[i].slot[p]
    BY OpenIn
  <2>2. PICK p \in Panes(ts[i]) : x = ts[i].slot[p]
    BY <2>1
  <2>3. <<i, p>> \in P
    BY <2>2, Counted, PairIn
  <2> HIDE DEF P
  <2> QED
    BY <2>2, <2>3
<1> HIDE DEF P, T, c
<1>4. IsFiniteSet(Open(ts)) /\ Cardinality(Open(ts)) <= Cardinality(T)
  BY <1>2, <1>3, FS_Subset
<1>5. \E n \in 1..(c + 1) : n \notin Open(ts)
  <2>1. SUFFICES ASSUME 1..(c + 1) \subseteq Open(ts) PROVE FALSE
    OBVIOUS
  <2>2. Cardinality(1..(c + 1)) <= Cardinality(Open(ts))
    BY <2>1, <1>4, FS_Subset
  <2>3. Cardinality(1..(c + 1)) = c + 1
    <3>1. Cardinality(1..(c + 1)) = IF 1 > c + 1 THEN 0 ELSE c + 1 - 1 + 1
      BY <1>1, FS_Interval
    <3> QED
      BY <3>1, <1>1
  <2>4. Cardinality(T) \in Nat /\ Cardinality(Open(ts)) \in Nat
    BY <1>2, <1>4, FS_CardinalityType
  <2> QED
    BY <2>2, <2>3, <2>4, <1>1, <1>2, <1>4
<1>6. \A n \in 1..(c + 1) : n \in 0..MaxSessions
  BY <1>1, WorkspaceAssumption DEF c
<1>7. 0 \in 0..MaxSessions
  BY WorkspaceAssumption
<1> QED
  BY <1>5, <1>6, <1>7 DEF NoSession, c

(* A tab changes while its panes and their sessions stay.                  *)
LEMMA ChangedTab ==
  ASSUME NEW ts, NEW lv, TabsInv(ts, lv), NEW i \in 1..Len(ts), NEW t, Rearranged(ts[i], t)
  PROVE  LET us == [ts EXCEPT ![i] = t]
         IN  /\ TabsInv(us, lv) /\ Len(us) = Len(ts) /\ Open(us) = Open(ts)
             /\ us[i] = t
<1> DEFINE us == [ts EXCEPT ![i] = t]
           R == {ts[k] : k \in 1..Len(ts)} \union {t}
<1>1. GoodTabs(ts) /\ DOMAIN ts = 1..Len(ts) /\ ts \in Seq(R)
  BY TabsSeq DEF R
<1>2. us \in Seq(R) /\ Len(us) = Len(ts) /\ us[i] = t /\ \A k \in 1..Len(ts) : k # i => us[k] = ts[k]
  BY <1>1
<1> HIDE DEF us, R
<1>3. IsSeq(us) /\ DOMAIN us = 1..Len(ts)
  BY <1>2, SeqForm
<1>4. TabInv(t) /\ Panes(t) = Panes(ts[i]) /\ t.slot = ts[i].slot
  BY DEF Rearranged
<1>5. GoodTabs(us)
  BY <1>1, <1>2, <1>3, <1>4 DEF GoodTabs
<1>6. \A k \in 1..Len(ts) : Panes(us[k]) = Panes(ts[k]) /\ us[k].slot = ts[k].slot
  BY <1>2, <1>4
<1>7. Open(us) = Open(ts)
  BY <1>1, <1>3, <1>6 DEF Open
<1>8. CountOf(us) = CountOf(ts)
  <2>1. PanesOf(us) = PanesOf(ts)
    BY <1>1, <1>3, <1>6 DEF PanesOf
  <2> QED
    BY <2>1 DEF CountOf
<1>9. TabsInv(us, lv)
  BY <1>5, <1>7, <1>8 DEF TabsInv
<1> QED
  BY <1>2, <1>7, <1>9 DEF us

LEMMA AddedTab ==
  ASSUME NEW ts, NEW lv, TabsInv(ts, lv), CountOf(ts) < MaxSessions, NEW s \in 0..MaxSessions
  PROVE  LET us == Append(ts, NewTabOf(s))
         IN  /\ TabsInv(us, lv \union ({s} \ {NoSession})) /\ Len(us) = Len(ts) + 1
             /\ Open(ts) \subseteq Open(us)
<1> DEFINE t == NewTabOf(s)
           us == Append(ts, t)
           R == {ts[k] : k \in 1..Len(ts)} \union {t}
           n == Len(ts) + 1
<1>1. GoodTabs(ts) /\ DOMAIN ts = 1..Len(ts) /\ ts \in Seq(R) /\ Len(ts) \in Nat
  BY TabsSeq DEF R
<1> HIDE DEF t
<1>2. us \in Seq(R) /\ Len(us) = n /\ us[n] = t /\ \A k \in 1..Len(ts) : us[k] = ts[k]
  BY <1>1
<1> HIDE DEF us, R
<1>3. IsSeq(us) /\ DOMAIN us = 1..n
  BY <1>2, SeqForm
<1>4. TabInv(t) /\ Panes(t) = {0} /\ t.slot = [p \in {0} |-> s]
  <2>1. s \in 0..MaxSessions + 1
    BY WorkspaceAssumption
  <2> QED
    BY <2>1, NewTabInv DEF t
<1>5. GoodTabs(us)
  BY <1>1, <1>2, <1>3, <1>4 DEF GoodTabs
<1>6. Open(ts) \subseteq Open(us) /\ {s} \ {NoSession} \subseteq Open(us)
  <2>1. \A x \in Open(ts) : x \in Open(us)
    BY <1>1, <1>2, <1>5, OpenIn
  <2>2. s # NoSession => s \in Open(us)
    BY <1>1, <1>2, <1>4, <1>5, OpenIn
  <2> QED
    BY <2>1, <2>2
<1>7. CountOf(us) = CountOf(ts) + 1
  <2> DEFINE f == PanesOf(ts)
             g == PanesOf(us)
  <2>1. /\ DOMAIN f = 1..Len(ts) /\ \A k \in 1..Len(ts) : f[k] = Panes(ts[k])
        /\ DOMAIN g = 1..n /\ \A k \in 1..n : g[k] = Panes(us[k])
        /\ IsFiniteSet(DOMAIN f) /\ \A k \in DOMAIN f : IsFiniteSet(f[k])
    BY <1>1, <1>2, <1>5, Counted
  <2> HIDE DEF f, g
  <2>2. <<n, 0>> \notin Pairs(f)
    BY <1>1, <2>1, PairIn
  <2>3. Pairs(g) \subseteq Pairs(f) \union {<<n, 0>>}
    <3> SUFFICES ASSUME NEW e \in Pairs(g) PROVE e \in Pairs(f) \union {<<n, 0>>}
      OBVIOUS
    <3>0. PICK k \in DOMAIN g : \E p \in g[k] : e = <<k, p>>
      BY PairIn
    <3>1. PICK p \in g[k] : e = <<k, p>>
      BY <3>0
    <3>2. CASE k = n
      BY <3>1, <3>2, <2>1, <1>2, <1>4
    <3>3. CASE k # n
      BY <3>1, <3>3, <2>1, <1>1, <1>2, PairIn
    <3> QED
      BY <3>2, <3>3
  <2>4. Pairs(f) \union {<<n, 0>>} \subseteq Pairs(g)
    <3>1. <<n, 0>> \in Pairs(g)
      BY <1>1, <1>2, <1>4, <2>1, PairIn
    <3>2. ASSUME NEW e \in Pairs(f) PROVE e \in Pairs(g)
      <4>0. PICK k \in DOMAIN f : \E p \in f[k] : e = <<k, p>>
        BY PairIn
      <4>1. PICK p \in f[k] : e = <<k, p>>
        BY <4>0
      <4> QED
        BY <4>1, <2>1, <1>1, <1>2, PairIn
    <3> QED
      BY <3>1, <3>2
  <2>5. PaneTotal(g) = PaneTotal(f) + 1
    BY <2>1, <2>2, <2>3, <2>4, OneMorePane
  <2> QED
    BY <2>5 DEF CountOf, f, g
<1>8. CountOf(us) <= Limit
  <2>1. CountOf(ts) \in Nat
    BY <1>1, Counted
  <2> QED
    BY <2>1, <1>7, WorkspaceAssumption DEF Limit
<1>9. TabsInv(us, lv \union ({s} \ {NoSession}))
  BY <1>5, <1>6, <1>8 DEF TabsInv
<1> QED
  BY <1>2, <1>6, <1>9 DEF us, t

LEMMA Replaced ==
  ASSUME NEW ts, GoodTabs(ts), NEW i \in 1..Len(ts), NEW t, TabInv(t)
  PROVE  LET us == [ts EXCEPT ![i] = t]
         IN  /\ GoodTabs(us) /\ Len(us) = Len(ts) /\ us[i] = t
             /\ \A k \in 1..Len(ts) : k # i => us[k] = ts[k]
<1> DEFINE us == [ts EXCEPT ![i] = t]
           R == {ts[k] : k \in 1..Len(ts)} \union {t}
<1>1. DOMAIN ts = 1..Len(ts) /\ ts \in Seq(R)
  BY SeqForm DEF GoodTabs, IsSeq
<1>2. us \in Seq(R) /\ Len(us) = Len(ts) /\ us[i] = t /\ \A k \in 1..Len(ts) : k # i => us[k] = ts[k]
  BY <1>1
<1> HIDE DEF us, R
<1>3. IsSeq(us)
  BY <1>2, SeqForm
<1>4. GoodTabs(us)
  BY <1>2, <1>3 DEF GoodTabs
<1> QED
  BY <1>2, <1>4 DEF us

LEMMA SplitTab ==
  ASSUME NEW ts, NEW lv, TabsInv(ts, lv), CountOf(ts) < MaxSessions, NEW s \in 0..MaxSessions,
         NEW i \in 1..Len(ts), Cardinality(Panes(ts[i])) < MaxPanesPerTab
  PROVE  LET us == [ts EXCEPT ![i] = SplitFocus(ts[i], s)]
         IN  /\ TabsInv(us, lv \union ({s} \ {NoSession})) /\ Len(us) = Len(ts)
             /\ Open(ts) \subseteq Open(us)
<1> DEFINE t == SplitFocus(ts[i], s)
           us == [ts EXCEPT ![i] = t]
           new == ts[i].last + 1
<1>1. GoodTabs(ts) /\ TabInv(ts[i])
  BY DEF TabsInv, GoodTabs
<1>2. /\ TabInv(t) /\ new \notin Panes(ts[i]) /\ Panes(t) = Panes(ts[i]) \union {new}
      /\ t.slot = [q \in Panes(ts[i]) \union {new} |-> IF q = new THEN s ELSE ts[i].slot[q]]
  <2>1. s \in 0..MaxSessions + 1
    BY WorkspaceAssumption
  <2> QED
    BY <2>1, <1>1, SplitInv
<1> HIDE DEF t, new
<1>3. /\ GoodTabs(us) /\ Len(us) = Len(ts) /\ us[i] = t
      /\ \A k \in 1..Len(ts) : k # i => us[k] = ts[k]
  BY <1>1, <1>2, Replaced
<1> HIDE DEF us
<1>4. Open(ts) \subseteq Open(us) /\ {s} \ {NoSession} \subseteq Open(us)
  <2>1. ASSUME NEW x \in Open(ts) PROVE x \in Open(us)
    <3>1. PICK k \in 1..Len(ts) : \E p \in Panes(ts[k]) : x = ts[k].slot[p]
      BY <1>1, OpenIn
    <3>2. PICK p \in Panes(ts[k]) : x = ts[k].slot[p]
      BY <3>1
    <3>3. p \in Panes(us[k]) /\ x = us[k].slot[p]
      BY <3>2, <1>2, <1>3
    <3>4. x # NoSession
      BY <1>1, OpenIn
    <3> QED
      BY <3>3, <3>4, <1>3, OpenIn
  <2>2. s # NoSession => s \in Open(us)
    BY <1>2, <1>3, OpenIn
  <2> QED
    BY <2>1, <2>2
<1>5. CountOf(us) = CountOf(ts) + 1
  <2> DEFINE f == PanesOf(ts)
             g == PanesOf(us)
  <2>1. /\ DOMAIN f = 1..Len(ts) /\ \A k \in 1..Len(ts) : f[k] = Panes(ts[k])
        /\ DOMAIN g = 1..Len(ts) /\ \A k \in 1..Len(ts) : g[k] = Panes(us[k])
        /\ IsFiniteSet(DOMAIN f) /\ \A k \in DOMAIN f : IsFiniteSet(f[k])
    BY <1>1, <1>3, Counted
  <2> HIDE DEF f, g
  <2>2. /\ \A k \in 1..Len(ts) : k # i => g[k] = f[k]
        /\ f[i] = Panes(ts[i]) /\ g[i] = Panes(ts[i]) \union {new}
    BY <2>1, <1>2, <1>3
  <2>3. <<i, new>> \notin Pairs(f)
    BY <2>2, <1>2, PairIn
  <2>4. Pairs(g) \subseteq Pairs(f) \union {<<i, new>>}
    <3> SUFFICES ASSUME NEW e \in Pairs(g) PROVE e \in Pairs(f) \union {<<i, new>>}
      OBVIOUS
    <3>1. PICK k \in DOMAIN g : \E p \in g[k] : e = <<k, p>>
      BY PairIn
    <3>2. PICK p \in g[k] : e = <<k, p>>
      BY <3>1
    <3>3. p \in f[k] \/ (k = i /\ p = new)
      BY <3>2, <2>1, <2>2
    <3> QED
      BY <3>2, <3>3, <2>1, PairIn
  <2>5. Pairs(f) \union {<<i, new>>} \subseteq Pairs(g)
    <3>1. <<i, new>> \in Pairs(g)
      BY <2>1, <2>2, PairIn
    <3>2. ASSUME NEW e \in Pairs(f) PROVE e \in Pairs(g)
      <4>1. PICK k \in DOMAIN f : \E p \in f[k] : e = <<k, p>>
        BY PairIn
      <4>2. PICK p \in f[k] : e = <<k, p>>
        BY <4>1
      <4>3. p \in g[k]
        BY <4>2, <2>1, <2>2
      <4> QED
        BY <4>2, <4>3, <2>1, PairIn
    <3> QED
      BY <3>1, <3>2
  <2>6. PaneTotal(g) = PaneTotal(f) + 1
    BY <2>1, <2>3, <2>4, <2>5, OneMorePane
  <2> QED
    BY <2>6 DEF CountOf, f, g
<1>6. CountOf(us) <= Limit
  <2>1. CountOf(ts) \in Nat
    BY <1>1, Counted
  <2> QED
    BY <2>1, <1>5, WorkspaceAssumption DEF Limit
<1>7. TabsInv(us, lv \union ({s} \ {NoSession}))
  BY <1>3, <1>4, <1>6 DEF TabsInv
<1> QED
  BY <1>3, <1>4, <1>7 DEF us, t

(* A pane goes and nothing else: at most its session is not open any more. *)
LEMMA ClosedPane ==
  ASSUME NEW ts, NEW lv, TabsInv(ts, lv), NEW i \in 1..Len(ts), NEW p \in Panes(ts[i]),
         Panes(ts[i]) # {p}
  PROVE  LET us == [ts EXCEPT ![i] = ClosePaneOf(ts[i], p)]
         IN  /\ TabsInv(us, lv \intersect Open(us)) /\ Len(us) = Len(ts)
             /\ Open(ts) \ Open(us) \subseteq {ts[i].slot[p]}
<1> DEFINE t == ClosePaneOf(ts[i], p)
           us == [ts EXCEPT ![i] = t]
<1>1. GoodTabs(ts) /\ TabInv(ts[i]) /\ CountOf(ts) <= Limit
  BY DEF TabsInv, GoodTabs
<1>2. /\ TabInv(t) /\ Panes(t) = Panes(ts[i]) \ {p}
      /\ t.slot = [q \in Panes(ts[i]) \ {p} |-> ts[i].slot[q]]
  BY <1>1, CloseInv
<1> HIDE DEF t
<1>3. /\ GoodTabs(us) /\ Len(us) = Len(ts) /\ us[i] = t
      /\ \A k \in 1..Len(ts) : k # i => us[k] = ts[k]
  BY <1>1, <1>2, Replaced
<1> HIDE DEF us
<1>4. Open(ts) \ Open(us) \subseteq {ts[i].slot[p]}
  <2> SUFFICES ASSUME NEW x \in Open(ts), x # ts[i].slot[p] PROVE x \in Open(us)
    OBVIOUS
  <2>1. PICK k \in 1..Len(ts) : \E q \in Panes(ts[k]) : x = ts[k].slot[q]
    BY <1>1, OpenIn
  <2>2. PICK q \in Panes(ts[k]) : x = ts[k].slot[q]
    BY <2>1
  <2>3. q \in Panes(us[k]) /\ x = us[k].slot[q]
    BY <2>2, <1>2, <1>3
  <2>4. x # NoSession
    BY <1>1, OpenIn
  <2> QED
    BY <2>3, <2>4, <1>3, OpenIn
<1>5. CountOf(us) <= CountOf(ts) /\ CountOf(us) \in Nat
  <2> DEFINE f == PanesOf(ts)
             g == PanesOf(us)
  <2>1. /\ DOMAIN f = 1..Len(ts) /\ \A k \in 1..Len(ts) : f[k] = Panes(ts[k])
        /\ DOMAIN g = 1..Len(ts) /\ \A k \in 1..Len(ts) : g[k] = Panes(us[k])
        /\ IsFiniteSet(DOMAIN f) /\ \A k \in DOMAIN f : IsFiniteSet(f[k])
    BY <1>1, <1>3, Counted
  <2> HIDE DEF f, g
  <2>2. \A k \in 1..Len(ts) : g[k] \subseteq f[k]
    BY <2>1, <1>2, <1>3
  <2>3. ASSUME NEW e \in Pairs(g) PROVE e \in Pairs(f)
    <3>1. PICK k \in DOMAIN g : \E q \in g[k] : e = <<k, q>>
      BY PairIn
    <3>2. PICK q \in g[k] : e = <<k, q>>
      BY <3>1
    <3> QED
      BY <3>2, <2>1, <2>2, PairIn
  <2>4. PaneTotal(g) <= PaneTotal(f) /\ PaneTotal(g) \in Nat
    BY <2>1, <2>3, FewerPanes
  <2> QED
    BY <2>4 DEF CountOf, f, g
<1>6. CountOf(us) <= Limit
  <2>1. CountOf(ts) \in Nat
    BY <1>1, Counted
  <2> QED
    BY <2>1, <1>1, <1>5, WorkspaceAssumption DEF Limit
<1>7. TabsInv(us, lv \intersect Open(us))
  BY <1>3, <1>6 DEF TabsInv
<1> QED
  BY <1>3, <1>4, <1>7 DEF us, t

(* A tab goes: at most its own sessions are not open any more.             *)
LEMMA RemovedAt ==
  ASSUME NEW R, NEW s \in Seq(R), NEW i \in 1..Len(s)
  PROVE  /\ RemoveAt(s, i) \in Seq(R) /\ Len(RemoveAt(s, i)) = Len(s) - 1
         /\ \A k \in 1..(Len(s) - 1) : RemoveAt(s, i)[k] = IF k < i THEN s[k] ELSE s[k + 1]
<1> DEFINE a == SubSeq(s, 1, i - 1)
           b == SubSeq(s, i + 1, Len(s))
<1>1. Len(s) \in Nat /\ i \in Nat \ {0} /\ i <= Len(s)
  OBVIOUS
<1>2. a \in Seq(R) /\ Len(a) = i - 1 /\ \A k \in 1..(i - 1) : a[k] = s[k]
  BY <1>1
<1>3. b \in Seq(R) /\ Len(b) = Len(s) - i /\ \A k \in 1..(Len(s) - i) : b[k] = s[i + k]
  BY <1>1
<1>4. RemoveAt(s, i) = a \o b
  BY DEF RemoveAt
<1> HIDE DEF a, b
<1>5. /\ a \o b \in Seq(R) /\ Len(a \o b) = Len(s) - 1
      /\ \A k \in 1..(Len(s) - 1) : (a \o b)[k] = IF k <= i - 1 THEN a[k] ELSE b[k - (i - 1)]
  BY <1>1, <1>2, <1>3, ConcatProperties
<1>6. ASSUME NEW k \in 1..(Len(s) - 1)
      PROVE  (a \o b)[k] = IF k < i THEN s[k] ELSE s[k + 1]
  <2>1. CASE k < i
    BY <2>1, <1>1, <1>2, <1>5
  <2>2. CASE k >= i
    <3>1. k - (i - 1) \in 1..(Len(s) - i) /\ i + (k - (i - 1)) = k + 1
      BY <2>2, <1>1
    <3> QED
      BY <3>1, <2>2, <1>1, <1>3, <1>5
  <2>3. k < i \/ k >= i
    BY <1>1
  <2> QED
    BY <2>1, <2>2, <2>3
<1> QED
  BY <1>4, <1>5, <1>6

LEMMA ClosedTab ==
  ASSUME NEW ts, NEW lv, TabsInv(ts, lv), NEW i \in 1..Len(ts)
  PROVE  LET us == RemoveAt(ts, i)
         IN  /\ TabsInv(us, lv \intersect Open(us)) /\ Len(us) = Len(ts) - 1 /\ Len(ts) \in Nat
             /\ Open(ts) \ Open(us) \subseteq {ts[i].slot[p] : p \in Panes(ts[i])}
<1> DEFINE us == RemoveAt(ts, i)
           R == {ts[k] : k \in 1..Len(ts)}
           n == Len(ts) - 1
           from(k) == IF k < i THEN k ELSE k + 1
<1>1. GoodTabs(ts) /\ ts \in Seq(R) /\ Len(ts) \in Nat /\ i \in 1..Len(ts) /\ CountOf(ts) <= Limit
  BY TabsSeq DEF R
<1> HIDE DEF R
<1>2. us \in Seq(R) /\ Len(us) = n /\ \A k \in 1..n : us[k] = IF k < i THEN ts[k] ELSE ts[k + 1]
  BY <1>1, RemovedAt
<1> HIDE DEF us
<1>3. \A k \in 1..n : from(k) \in 1..Len(ts) /\ us[k] = ts[from(k)] /\ from(k) # i
  BY <1>1, <1>2
<1>4. \A k, l \in 1..n : from(k) = from(l) => k = l
  BY <1>1
<1>5. \A k \in 1..Len(ts) : k # i => \E l \in 1..n : from(l) = k
  <2> SUFFICES ASSUME NEW k \in 1..Len(ts), k # i PROVE \E l \in 1..n : from(l) = k
    OBVIOUS
  <2>1. CASE k < i
    <3>1. k \in 1..n /\ from(k) = k
      BY <2>1, <1>1
    <3> QED
      BY <3>1
  <2>2. CASE k > i
    <3>1. k - 1 \in 1..n /\ from(k - 1) = k
      BY <2>2, <1>1
    <3> QED
      BY <3>1
  <2> QED
    BY <2>1, <2>2, <1>1
<1> HIDE DEF from
<1>6. GoodTabs(us)
  <2>1. IsSeq(us)
    BY <1>2, SeqForm
  <2> QED
    BY <2>1, <1>1, <1>2, <1>3 DEF GoodTabs
<1>7. Open(ts) \ Open(us) \subseteq {ts[i].slot[p] : p \in Panes(ts[i])}
  <2> SUFFICES ASSUME NEW x \in Open(ts), ~ \E p \in Panes(ts[i]) : x = ts[i].slot[p]
               PROVE  x \in Open(us)
    OBVIOUS
  <2>1. PICK k \in 1..Len(ts) : \E q \in Panes(ts[k]) : x = ts[k].slot[q]
    BY <1>1, OpenIn
  <2>2. PICK l \in 1..n : from(l) = k
    BY <2>1, <1>5
  <2>3. x # NoSession
    BY <1>1, OpenIn
  <2> QED
    BY <2>1, <2>2, <2>3, <1>2, <1>3, <1>6, OpenIn
<1>8. CountOf(us) <= CountOf(ts) /\ CountOf(us) \in Nat
  <2> DEFINE f == PanesOf(ts)
             g == PanesOf(us)
             h == [e \in Pairs(g) |-> <<from(e[1]), e[2]>>]
  <2>1. /\ DOMAIN f = 1..Len(ts) /\ \A k \in 1..Len(ts) : f[k] = Panes(ts[k])
        /\ DOMAIN g = 1..n /\ \A k \in 1..n : g[k] = Panes(us[k])
        /\ IsFiniteSet(DOMAIN f) /\ \A k \in DOMAIN f : IsFiniteSet(f[k])
    BY <1>1, <1>2, <1>6, Counted
  <2> HIDE DEF f, g
  <2>2. ASSUME NEW e \in Pairs(g)
        PROVE  /\ e[1] \in 1..n /\ e = <<e[1], e[2]>>
               /\ <<from(e[1]), e[2]>> \in Pairs(f)
    <3>1. PICK k \in DOMAIN g : \E q \in g[k] : e = <<k, q>>
      BY PairIn
    <3>2. PICK q \in g[k] : e = <<k, q>>
      BY <3>1
    <3>3. e[1] = k /\ e[2] = q
      BY <3>2
    <3>4. from(k) \in DOMAIN f /\ q \in f[from(k)]
      BY <3>2, <2>1, <1>3
    <3> QED
      BY <3>2, <3>3, <3>4, <2>1, PairIn
  <2>3. \A e \in Pairs(g) : h[e] \in Pairs(f)
    BY <2>2
  <2>4. ASSUME NEW d \in Pairs(g), NEW e \in Pairs(g), h[d] = h[e] PROVE d = e
    <3>1. from(d[1]) = from(e[1]) /\ d[2] = e[2]
      BY <2>4
    <3>2. d[1] = e[1]
      BY <3>1, <2>2, <1>4
    <3> QED
      BY <3>1, <3>2, <2>2
  <2> HIDE DEF h
  <2>5. PaneTotal(g) <= PaneTotal(f) /\ PaneTotal(g) \in Nat
    BY <2>1, <2>3, <2>4, PanesApart
  <2> QED
    BY <2>5 DEF CountOf, f, g
<1>9. CountOf(us) <= Limit
  <2>1. CountOf(ts) \in Nat
    BY <1>1, Counted
  <2> QED
    BY <2>1, <1>1, <1>8, WorkspaceAssumption DEF Limit
<1>10. TabsInv(us, lv \intersect Open(us))
  BY <1>6, <1>9 DEF TabsInv
<1> QED
  BY <1>1, <1>2, <1>7, <1>10 DEF us

(***************************************************************************)
(* Restoring                                                               *)
(***************************************************************************)
LEMMA BeforeTab ==
  ASSUME NEW S, NEW f \in Seq(SUBSET S), \A i \in DOMAIN f : IsFiniteSet(f[i])
  PROVE  LET B(i) == PaneTotal(SubSeq(f, 1, i))
         IN  /\ B(0) = 0 /\ B(Len(f)) = PaneTotal(f) /\ PaneTotal(f) \in Nat
             /\ \A i \in 0..Len(f) : B(i) \in Nat /\ B(i) <= PaneTotal(f)
             /\ \A i \in 1..Len(f) : B(i) = B(i - 1) + Cardinality(f[i])
<1> DEFINE B(i) == PaneTotal(SubSeq(f, 1, i))
<1>1. Len(f) \in Nat /\ DOMAIN f = 1..Len(f)
  OBVIOUS
<1>2. IsFiniteSet(DOMAIN f)
  BY <1>1, FS_Interval
<1>3. ASSUME NEW i \in 0..Len(f)
      PROVE  /\ DOMAIN SubSeq(f, 1, i) = 1..i
             /\ \A k \in 1..i : SubSeq(f, 1, i)[k] = f[k]
  BY <1>1, <1>3
<1>4. B(0) = 0
  <2>1. Pairs(SubSeq(f, 1, 0)) = {}
    <3>1. DOMAIN SubSeq(f, 1, 0) = {}
      BY <1>1, <1>3
    <3> QED
      BY <3>1, PairIn
  <2> QED
    BY <2>1, FS_EmptySet DEF PaneTotal, Pairs
<1>5. B(Len(f)) = PaneTotal(f)
  BY SubSeqFull
<1>6. PaneTotal(f) \in Nat
  BY <1>2, PairsFinite
<1>7. ASSUME NEW i \in 0..Len(f) PROVE B(i) \in Nat /\ B(i) <= PaneTotal(f)
  <2> DEFINE g == SubSeq(f, 1, i)
  <2>1. DOMAIN g = 1..i /\ \A k \in 1..i : g[k] = f[k]
    BY <1>3
  <2> HIDE DEF g
  <2>2. ASSUME NEW e \in Pairs(g) PROVE e \in Pairs(f)
    <3>1. PICK k \in DOMAIN g : \E q \in g[k] : e = <<k, q>>
      BY PairIn
    <3> QED
      BY <3>1, <2>1, <1>1, <1>7, PairIn
  <2>3. PaneTotal(g) <= PaneTotal(f) /\ PaneTotal(g) \in Nat
    BY <2>2, <1>2, FewerPanes
  <2> QED
    BY <2>3 DEF g
<1>8. ASSUME NEW i \in 1..Len(f) PROVE B(i) = B(i - 1) + Cardinality(f[i])
  <2> DEFINE g == SubSeq(f, 1, i)
             k == SubSeq(f, 1, i - 1)
             T == {i} \X f[i]
  <2>0. i - 1 \in 0..Len(f) /\ i \in 0..Len(f)
    BY <1>1
  <2>1. /\ DOMAIN g = 1..i /\ \A j \in 1..i : g[j] = f[j]
        /\ DOMAIN k = 1..(i - 1) /\ \A j \in 1..(i - 1) : k[j] = f[j]
    BY <1>3, <2>0
  <2> HIDE DEF g, k
  <2>2. Pairs(g) \subseteq Pairs(k) \union T
    <3> SUFFICES ASSUME NEW e \in Pairs(g), e \notin T PROVE e \in Pairs(k)
      OBVIOUS
    <3>1. PICK j \in DOMAIN g : \E q \in g[j] : e = <<j, q>>
      BY PairIn
    <3>2. PICK q \in g[j] : e = <<j, q>>
      BY <3>1
    <3>3. j # i
      BY <3>2, <2>1
    <3>4. j \in DOMAIN k /\ q \in k[j]
      BY <3>2, <3>3, <2>1
    <3> QED
      BY <3>2, <3>4, PairIn
  <2>3. T \subseteq Pairs(g)
    <3>1. i \in DOMAIN g /\ g[i] = f[i]
      BY <2>1
    <3> QED
      BY <3>1 DEF Pairs
  <2>4. Pairs(k) \subseteq Pairs(g)
    <3> SUFFICES ASSUME NEW e \in Pairs(k) PROVE e \in Pairs(g)
      OBVIOUS
    <3>1. PICK j \in DOMAIN k : \E q \in k[j] : e = <<j, q>>
      BY PairIn
    <3> QED
      BY <3>1, <2>1, PairIn
  <2>5. Pairs(k) \intersect T = {}
    <3> SUFFICES ASSUME NEW e \in Pairs(k), e \in T PROVE FALSE
      OBVIOUS
    <3>1. PICK j \in DOMAIN k : \E q \in k[j] : e = <<j, q>>
      BY PairIn
    <3> QED
      BY <3>1, <2>1
  <2>6. IsFiniteSet(Pairs(k))
    <3>1. IsFiniteSet(DOMAIN k)
      BY <2>1, FS_Interval
    <3>2. \A j \in DOMAIN k : IsFiniteSet(k[j])
      BY <2>1, <1>1
    <3> QED
      BY <3>1, <3>2, PairsFinite
  <2>7. IsFiniteSet(T) /\ Cardinality(T) = Cardinality(f[i]) /\ Cardinality(f[i]) \in Nat
    <3>1. IsFiniteSet({i}) /\ Cardinality({i}) = 1 /\ IsFiniteSet(f[i])
      BY FS_Singleton, <1>1
    <3>2. IsFiniteSet(T) /\ Cardinality(T) = 1 * Cardinality(f[i])
      BY <3>1, FS_Product
    <3>3. Cardinality(f[i]) \in Nat
      BY <3>1, FS_CardinalityType
    <3> HIDE DEF T
    <3> QED
      BY <3>2, <3>3
  <2> HIDE DEF T
  <2>8. Cardinality(Pairs(k) \union T) = Cardinality(Pairs(k)) + Cardinality(T) - 0
    BY <2>5, <2>6, <2>7, FS_Union, FS_EmptySet
  <2>9. Pairs(g) = Pairs(k) \union T
    BY <2>2, <2>3, <2>4
  <2>10. Cardinality(Pairs(k)) \in Nat
    BY <2>6, FS_CardinalityType
  <2>11. Cardinality(Pairs(g)) = Cardinality(Pairs(k)) + Cardinality(f[i])
    BY <2>7, <2>8, <2>9, <2>10
  <2> QED
    BY <2>11 DEF PaneTotal, Pairs, g, k
<1> QED
  BY <1>4, <1>5, <1>6, <1>7, <1>8

(* Every pane of the file comes back with a session of its own, unless it  *)
(* failed to start.                                                        *)
LEMMA Booted ==
  ASSUME NEW file, LayoutFile(file), PaneTotal(file.tabs) <= Limit,
         \A i \in DOMAIN file.tabs : Cardinality(file.tabs[i]) <= MaxPanesPerTab,
         NEW failed \in {NoSession, 1}
  PROVE  /\ TabsInv(Restored(file, failed), (1..PaneTotal(file.tabs)) \ {failed})
         /\ Len(Restored(file, failed)) = Len(file.tabs) /\ Len(file.tabs) \in Nat
<1> DEFINE f == file.tabs
           us == Restored(file, failed)
           B(i) == PaneTotal(SubSeq(f, 1, i))
           c(i) == Cardinality(f[i])
           slots(i) == [k \in 1..c(i) |->
                          IF B(i - 1) + k = failed THEN NoSession ELSE B(i - 1) + k]
<1>1. /\ f \in Seq(SUBSET Path) /\ Len(f) \in Nat /\ DOMAIN f = 1..Len(f)
      /\ \A i \in 1..Len(f) : TreeOf(f[i]) /\ IsFiniteSet(f[i]) /\ c(i) <= MaxPanesPerTab
  BY DEF LayoutFile, TreeOf, Path
<1>2. us = [i \in 1..Len(f) |-> TabOf(f[i], slots(i))]
  BY <1>1 DEF Restored
<1>3. /\ B(0) = 0 /\ B(Len(f)) = PaneTotal(f) /\ PaneTotal(f) \in Nat
      /\ \A i \in 0..Len(f) : B(i) \in Nat /\ B(i) <= PaneTotal(f)
      /\ \A i \in 1..Len(f) : B(i) = B(i - 1) + c(i)
  BY <1>1, BeforeTab
<1>4. PaneTotal(f) <= Limit /\ Limit \in Nat /\ Limit <= MaxSessions + 1 /\ MaxSessions \in Nat
  BY WorkspaceAssumption DEF Limit
<1> HIDE DEF f, us, B
<1>5. ASSUME NEW i \in 1..Len(f)
      PROVE  /\ c(i) \in Nat \ {0} /\ B(i - 1) \in Nat /\ B(i - 1) + c(i) <= PaneTotal(f)
             /\ Leaves(us[i].at) /\ Panes(us[i]) = 0..(c(i) - 1)
             /\ us[i] = [at |-> us[i].at, slot |-> us[i].slot, focus |-> 0, last |-> c(i) - 1]
             /\ us[i].slot = [k \in 0..(c(i) - 1) |-> slots(i)[k + 1]]
             /\ Shape(us[i]) = f[i]
  <2>1. i - 1 \in 0..Len(f) /\ i \in 0..Len(f)
    BY <1>1
  <2>2. TreeOf(f[i]) /\ us[i] = TabOf(f[i], slots(i))
    BY <1>1, <1>2
  <2> HIDE DEF slots
  <2>3. /\ Leaves(us[i].at) /\ Panes(us[i]) = 0..(c(i) - 1) /\ c(i) \in Nat \ {0}
        /\ us[i] = [at |-> us[i].at, slot |-> us[i].slot, focus |-> 0, last |-> c(i) - 1]
        /\ us[i].slot = [k \in 0..(c(i) - 1) |-> slots(i)[k + 1]]
        /\ Shape(us[i]) = f[i]
    BY <2>2, RestoredTab
  <2>4. B(i - 1) \in Nat /\ B(i - 1) + c(i) <= PaneTotal(f)
    BY <2>1, <1>3
  <2> QED
    BY <2>3, <2>4
<1>6. ASSUME NEW i \in 1..Len(f), NEW k \in 0..(c(i) - 1)
      PROVE  /\ us[i].slot[k] = IF B(i - 1) + k + 1 = failed THEN NoSession ELSE B(i - 1) + k + 1
             /\ us[i].slot[k] \in 0..MaxSessions + 1
  <2> HIDE DEF c
  <2>0. c(i) \in Nat /\ B(i - 1) \in Nat /\ B(i - 1) + c(i) <= PaneTotal(f)
    BY <1>5
  <2>1. k + 1 \in 1..c(i) /\ B(i - 1) + (k + 1) = B(i - 1) + k + 1
    BY <2>0
  <2>2. us[i].slot[k] = IF B(i - 1) + k + 1 = failed THEN NoSession ELSE B(i - 1) + k + 1
    <3>1. us[i].slot[k] = slots(i)[k + 1]
      <4> HIDE DEF slots
      <4> QED
        BY <1>5, ZenonT(40)
    <3> QED
      BY <2>1, <3>1
  <2>3. B(i - 1) + k + 1 \in 0..MaxSessions + 1
    <3>1. PaneTotal(f) \in Nat
      BY <1>3
    <3> QED
      BY <2>0, <2>1, <3>1, <1>4
  <2>4. NoSession \in 0..MaxSessions + 1
    BY <1>4 DEF NoSession
  <2> QED
    BY <2>2, <2>3, <2>4
<1>7. IsSeq(us) /\ Len(us) = Len(f)
  <2>1. Len(us) = Len(f) /\ us = [i \in 1..Len(f) |-> us[i]]
    BY <1>1, <1>2
  <2> QED
    BY <2>1, <1>1 DEF IsSeq
<1>8. ASSUME NEW i \in 1..Len(f) PROVE TabInv(us[i])
  <2> DEFINE n == c(i)
             t == us[i]
  <2> HIDE DEF slots
  <2>1. /\ n \in Nat \ {0} /\ Leaves(t.at) /\ Panes(t) = 0..(n - 1) /\ n <= MaxPanesPerTab
        /\ t = [at |-> t.at, slot |-> t.slot, focus |-> 0, last |-> n - 1]
        /\ t.slot = [k \in 0..(n - 1) |-> t.slot[k]]
        /\ \A k \in 0..(n - 1) : t.slot[k] \in 0..MaxSessions + 1
    BY <1>1, <1>5, <1>6
  <2> HIDE DEF n, t
  <2>2. t.focus = 0 /\ t.last = n - 1
    BY <2>1
  <2>3. Cardinality(Panes(t)) = n
    BY <2>1, Numbered
  <2>4. t.slot \in [Panes(t) -> 0..MaxSessions + 1]
    BY <2>1
  <2>5. t.focus \in Panes(t) /\ t.last \in Nat /\ Panes(t) \subseteq 0..t.last
    BY <2>1, <2>2
  <2>6. t = [at |-> t.at, slot |-> t.slot, focus |-> t.focus, last |-> t.last]
    BY <2>1, <2>2
  <2> QED
    BY <2>1, <2>3, <2>4, <2>5, <2>6 DEF TabInv, t
<1>9. GoodTabs(us)
  BY <1>7, <1>8 DEF GoodTabs
<1>10. ASSUME NEW s \in (1..PaneTotal(f)) \ {failed} PROVE s \in Open(us)
  <2> DEFINE S == {i \in 1..Len(f) : s <= B(i)}
  <2>1. Len(f) \in S
    <3>1. Len(f) # 0
      BY <1>3
    <3> QED
      BY <3>1, <1>1, <1>3
  <2>2. PICK m \in S : \A i \in S : m <= i
    <3>1. S \in SUBSET Nat /\ S # {}
      BY <2>1, <1>1
    <3> HIDE DEF S
    <3> QED
      BY <3>1, LeastNat
  <2>3. m \in 1..Len(f) /\ s <= B(m) /\ m - 1 \in 0..Len(f)
    BY <2>2, <1>1
  <2>4. B(m - 1) < s
    <3>1. CASE m = 1
      BY <3>1, <1>3
    <3>2. CASE m # 1
      <4>1. m - 1 \in 1..Len(f) /\ ~(m <= m - 1) /\ m - 1 \notin S
        BY <3>2, <2>2, <2>3
      <4> QED
        BY <4>1, <2>3, <1>3, SMTT(30)
    <3> QED
      BY <3>1, <3>2
  <2> DEFINE k == s - B(m - 1) - 1
  <2>5. k \in 0..(c(m) - 1) /\ B(m - 1) + k + 1 = s
    <3> HIDE DEF c
    <3>1. B(m - 1) \in Nat /\ B(m) = B(m - 1) + c(m) /\ c(m) \in Nat
      BY <2>3, <1>3, <1>5
    <3> QED
      BY <3>1, <2>3, <2>4
  <2> HIDE DEF k, c, slots
  <2>6. us[m].slot[k] = s /\ k \in Panes(us[m])
    BY <2>3, <2>5, <1>5, <1>6
  <2>7. s # NoSession
    BY DEF NoSession
  <2> QED
    BY <2>3, <2>6, <2>7, <1>7, <1>9, OpenIn
<1>11. CountOf(us) <= PaneTotal(f) /\ CountOf(us) \in Nat
  <2> DEFINE g == PanesOf(us)
             h == [e \in Pairs(g) |-> <<e[1], us[e[1]].at[e[2]]>>]
  <2> HIDE DEF slots
  <2>1. DOMAIN g = 1..Len(f) /\ \A i \in 1..Len(f) : g[i] = Panes(us[i])
    BY <1>7, <1>9, Counted
  <2>2. IsFiniteSet(DOMAIN f) /\ \A i \in DOMAIN f : IsFiniteSet(f[i])
    BY <1>1, FS_Interval
  <2> HIDE DEF g
  <2>3. ASSUME NEW e \in Pairs(g)
        PROVE  /\ e = <<e[1], e[2]>> /\ e[1] \in 1..Len(f) /\ e[2] \in Panes(us[e[1]])
               /\ <<e[1], us[e[1]].at[e[2]]>> \in Pairs(f)
    <3>1. PICK i \in DOMAIN g : \E q \in g[i] : e = <<i, q>>
      BY PairIn
    <3>2. PICK q \in g[i] : e = <<i, q>>
      BY <3>1
    <3>3. q \in Panes(us[i]) /\ i \in 1..Len(f)
      BY <3>2, <2>1
    <3>4. us[i].at[q] \in f[i]
      BY <3>3, <1>5 DEF Shape
    <3>5. <<i, us[i].at[q]>> \in Pairs(f)
      BY <3>3, <3>4, <1>1, PairIn
    <3> QED
      BY <3>2, <3>3, <3>5
  <2>4. ASSUME NEW d \in Pairs(g), NEW e \in Pairs(g), h[d] = h[e] PROVE d = e
    <3>1. d[1] = e[1] /\ us[d[1]].at[d[2]] = us[d[1]].at[e[2]]
      BY <2>4
    <3>2. d[2] = e[2]
      <4>1. Leaves(us[d[1]].at) /\ {d[2], e[2]} \subseteq DOMAIN us[d[1]].at
        BY <2>3, <3>1, <1>5 DEF Panes
      <4>2. us[d[1]].at[d[2]] \in Path
        BY <4>1 DEF Leaves
      <4> QED
        BY <4>1, <4>2, <3>1, UnderItself DEF Leaves
    <3> QED
      BY <3>1, <3>2, <2>3
  <2>5. \A e \in Pairs(g) : h[e] \in Pairs(f)
    BY <2>3
  <2> HIDE DEF h
  <2>6. PaneTotal(g) <= PaneTotal(f) /\ PaneTotal(g) \in Nat
    BY <2>2, <2>4, <2>5, PanesApart
  <2> QED
    BY <2>6 DEF CountOf, g
<1>12. CountOf(us) <= Limit
  BY <1>3, <1>4, <1>11
<1>13. TabsInv(us, (1..PaneTotal(f)) \ {failed})
  BY <1>9, <1>10, <1>12 DEF TabsInv
<1> QED
  BY <1>1, <1>7, <1>13 DEF us, f

(***************************************************************************)
(* The inductive invariant                                                 *)
(***************************************************************************)
OverlaysInv ==
  /\ phase \in {"off", "running", "exited", "killed"}
  /\ palette \in BOOLEAN /\ settings \in BOOLEAN /\ ~(palette /\ settings)
  /\ IF Running THEN active \in 1..Len(tabs)
     ELSE tabs = <<>> /\ confirm = NoDialog /\ palette = FALSE /\ settings = FALSE

(* The dialog names a pane of the tab that is active and its session.      *)
DialogFor(dialog, t) ==
  \/ dialog \in {NoDialog, [kind |-> "close_window"]}
  \/ \E kind \in {"close_pane", "paste"} : \E p \in Panes(t) :
       dialog = [kind |-> kind, pane |-> p, of |-> t.slot[p]]

Restorable(file) == LayoutFile(file) /\ (file \in Files \/ (MaxSessions > 1 => ValidLayout(file)))

IInv == TabsInv(tabs, live) /\ OverlaysInv /\ DialogFor(confirm, Tab) /\ Restorable(saved)

LEMMA CountIs == Count = CountOf(tabs)
  BY DEF Count, CountOf, PanesOf

LEMMA NoTabs == TabsInv(<<>>, {})
<1>1. DOMAIN PanesOf(<<>>) = {} /\ GoodTabs(<<>>)
  <2>1. DOMAIN <<>> = 1..0 /\ Len(<<>>) = 0 /\ 1..0 = {}
    OBVIOUS
  <2> QED
    BY <2>1 DEF PanesOf, GoodTabs, IsSeq
<1>2. Pairs(PanesOf(<<>>)) = {}
  BY <1>1, PairIn
<1>3. CountOf(<<>>) = 0
  BY <1>2, FS_EmptySet DEF CountOf, PaneTotal, Pairs
<1> QED
  BY <1>1, <1>3, WorkspaceAssumption DEF TabsInv, Limit

LEMMA ActiveTab ==
  ASSUME IInv, Running
  PROVE  /\ GoodTabs(tabs) /\ active \in 1..Len(tabs) /\ Len(tabs) \in Nat \ {0}
         /\ DOMAIN tabs = 1..Len(tabs)
         /\ TabInv(Tab) /\ Tab.focus \in Panes(Tab) /\ IsFiniteSet(Panes(Tab))
<1>1. GoodTabs(tabs) /\ active \in 1..Len(tabs) /\ Len(tabs) \in Nat
  BY DEF IInv, TabsInv, OverlaysInv, GoodTabs, IsSeq
<1>2. TabInv(Tab)
  BY <1>1 DEF GoodTabs, Tab
<1> QED
  BY <1>1, <1>2, FinitePanes, Counted DEF TabInv

LEMMA FreshDialog ==
  ASSUME IInv, Running, NEW kind \in {"close_pane", "paste", "close_window"}
  PROVE  DialogFor(Dialog(kind), Tab)
<1>1. Tab.focus \in Panes(Tab)
  BY ActiveTab
<1> QED
  BY <1>1 DEF DialogFor, Dialog, Focused

(* What save_layout writes.                                                *)
LEMMA Written ==
  ASSUME IInv, Running
  PROVE  Restorable([active |-> active, tabs |-> Shapes(tabs)])
<1> DEFINE file == [active |-> active, tabs |-> Shapes(tabs)]
           f == Shapes(tabs)
           g == PanesOf(tabs)
           n == Len(tabs)
<1>1. /\ GoodTabs(tabs) /\ active \in 1..n /\ n \in Nat \ {0} /\ DOMAIN tabs = 1..n
      /\ CountOf(tabs) <= Limit
  BY ActiveTab DEF IInv, TabsInv
<1>2. /\ f \in [1..n -> SUBSET Path] /\ DOMAIN f = 1..n
      /\ \A i \in 1..n : f[i] = Shape(tabs[i])
      /\ \A i \in 1..n : /\ TreeOf(f[i])
                         /\ Cardinality(f[i]) = Cardinality(Panes(tabs[i]))
                         /\ Cardinality(Panes(tabs[i])) <= MaxPanesPerTab
                         /\ Leaves(tabs[i].at) /\ IsFiniteSet(Panes(tabs[i]))
  <2>1. \A i \in 1..n : TabInv(tabs[i])
    BY <1>1 DEF GoodTabs
  <2>2. \A i \in 1..n : Shape(tabs[i]) \subseteq Path
    BY <2>1, ShapeTree DEF TabInv, TreeOf
  <2>3. f = [i \in 1..n |-> Shape(tabs[i])]
    BY <1>1 DEF Shapes
  <2> HIDE DEF f
  <2>4. \A i \in 1..n : f[i] = Shape(tabs[i])
    BY <2>3
  <2>5. f \in [1..n -> SUBSET Path] /\ DOMAIN f = 1..n
    BY <2>2, <2>3
  <2>6. ASSUME NEW i \in 1..n
        PROVE  /\ TreeOf(f[i])
               /\ Cardinality(f[i]) = Cardinality(Panes(tabs[i]))
               /\ Cardinality(Panes(tabs[i])) <= MaxPanesPerTab
               /\ Leaves(tabs[i].at) /\ IsFiniteSet(Panes(tabs[i]))
    BY <2>1, <2>4, ShapeTree, FinitePanes DEF TabInv
  <2> QED
    BY <2>4, <2>5, <2>6
<1> HIDE DEF f
<1>3. Len(f) = n /\ f \in Seq(SUBSET Path)
  BY <1>1, <1>2
<1>4. LayoutFile(file)
  <2>1. file \in [active : Nat \ {0}, tabs : Seq(SUBSET Path)] /\ file.tabs = f
    BY <1>1, <1>3 DEF f
  <2>2. \A i \in DOMAIN f : IsFiniteSet(f[i]) /\ IsTree(f[i])
    BY <1>2 DEF TreeOf
  <2> HIDE DEF file
  <2> QED
    BY <2>1, <2>2 DEF LayoutFile, Path
<1>5. PaneTotal(f) <= CountOf(tabs) /\ PaneTotal(f) \in Nat /\ CountOf(tabs) \in Nat
  <2>1. /\ DOMAIN g = 1..n /\ \A i \in 1..n : g[i] = Panes(tabs[i])
        /\ IsFiniteSet(DOMAIN g) /\ \A i \in DOMAIN g : IsFiniteSet(g[i])
        /\ CountOf(tabs) \in Nat
    BY <1>1, Counted
  <2> DEFINE P == Pairs(g)
             v == [e \in P |-> <<e[1], tabs[e[1]].at[e[2]]>>]
             T == {v[e] : e \in P}
  <2>2. IsFiniteSet(P) /\ CountOf(tabs) = Cardinality(P)
    BY <2>1, PairsFinite DEF CountOf
  <2> HIDE DEF g
  <2>3. IsFiniteSet(T) /\ Cardinality(T) <= Cardinality(P)
    <3> HIDE DEF v, P
    <3> QED
      BY <2>2, Image
  <2>4. ASSUME NEW e \in Pairs(f) PROVE e \in T
    <3>1. PICK i \in DOMAIN f : \E x \in f[i] : e = <<i, x>>
      BY PairIn
    <3>2. PICK p \in Panes(tabs[i]) : e = <<i, tabs[i].at[p]>>
      BY <3>1, <1>2 DEF Shape
    <3>3. <<i, p>> \in P
      BY <3>1, <3>2, <1>2, <2>1, PairIn
    <3> HIDE DEF P
    <3>4. v[<<i, p>>] = e
      BY <3>2, <3>3
    <3> HIDE DEF v
    <3> QED
      BY <3>3, <3>4
  <2> HIDE DEF T, P
  <2>5. IsFiniteSet(Pairs(f)) /\ Cardinality(Pairs(f)) <= Cardinality(T)
    BY <2>3, <2>4, FS_Subset
  <2>6. /\ Cardinality(Pairs(f)) \in Nat /\ Cardinality(T) \in Nat
        /\ PaneTotal(f) = Cardinality(Pairs(f))
    BY <2>3, <2>5, FS_CardinalityType DEF PaneTotal, Pairs
  <2> QED
    BY <2>1, <2>2, <2>3, <2>5, <2>6
<1>6. ASSUME MaxSessions > 1 PROVE ValidLayout(file)
  <2>1. file.tabs = f
    BY DEF f
  <2> HIDE DEF file
  <2>2. f # <<>> /\ PaneTotal(f) <= MaxSessions
    BY <1>1, <1>3, <1>5, <1>6, WorkspaceAssumption DEF Limit
  <2>3. ASSUME NEW i \in DOMAIN f, NEW x \in f[i] PROVE Len(x) + 1 <= MaxPanesPerTab
    <3>1. PICK p \in Panes(tabs[i]) : x = tabs[i].at[p]
      BY <2>3, <1>2 DEF Shape
    <3>2. /\ Len(x) + 1 <= Cardinality(Panes(tabs[i])) /\ Len(x) \in Nat
          /\ Cardinality(Panes(tabs[i])) <= MaxPanesPerTab
      BY <3>1, <2>3, <1>2, DepthBound DEF Panes
    <3>3. Cardinality(Panes(tabs[i])) \in Nat
      BY <2>3, <1>2, FS_CardinalityType
    <3> QED
      BY <3>2, <3>3, WorkspaceAssumption
  <2>4. \A i \in DOMAIN f : Cardinality(f[i]) <= MaxPanesPerTab
    BY <1>2
  <2> QED
    BY <2>1, <2>2, <2>3, <2>4 DEF ValidLayout
<1> QED
  BY <1>4, <1>6 DEF Restorable

(***************************************************************************)
(* Steps                                                                   *)
(***************************************************************************)
(* The window stays open, or it ends.                                      *)
Stays == TabsInv(tabs', live') /\ active' \in 1..Len(tabs') /\ UNCHANGED process

Ends == phase' \in {"exited", "killed"} /\ ProcessGone /\ Restorable(saved')

LEMMA EndsInv == Ends => IInv' /\ ~Running' /\ tabs' = <<>>
<1> SUFFICES ASSUME Ends PROVE IInv' /\ ~Running' /\ tabs' = <<>>
  OBVIOUS
<1>1. /\ tabs' = <<>> /\ live' = {} /\ confirm' = NoDialog
      /\ palette' = FALSE /\ settings' = FALSE /\ phase' \in {"exited", "killed"}
  BY DEF Ends, ProcessGone
<1>2. TabsInv(tabs', live')
  BY <1>1, NoTabs
<1>3. OverlaysInv' /\ ~Running'
  BY <1>1 DEF OverlaysInv, Running
<1>4. DialogFor(confirm', Tab')
  BY <1>1 DEF DialogFor
<1>5. Restorable(saved')
  BY DEF Ends
<1> QED
  BY <1>1, <1>2, <1>3, <1>4, <1>5 DEF IInv

LEMMA StaysInv ==
  ASSUME IInv, Running, Stays, palette' \in BOOLEAN, settings' \in BOOLEAN,
         ~(palette' /\ settings'), DialogFor(confirm', Tab')
  PROVE  IInv' /\ Running'
<1>1. Running' /\ saved' = saved /\ phase' = "running"
  BY DEF Stays, Running, process
<1>2. OverlaysInv'
  BY <1>1 DEF OverlaysInv, Stays
<1>3. TabsInv(tabs', live')
  BY DEF Stays
<1>4. Restorable(saved')
  BY <1>1 DEF IInv
<1> QED
  BY <1>1, <1>2, <1>3, <1>4 DEF IInv

LEMMA Exits ==
  ASSUME IInv, Running, NEW ts, ts \in {tabs, <<>>}, Exit(ts)
  PROVE  Ends
<1>1. Restorable(saved)
  BY DEF IInv
<1>2. saved' \in {saved, [active |-> active, tabs |-> Shapes(tabs)]}
  BY DEF Exit, SaveLayout
<1> QED
  BY <1>1, <1>2, Written DEF Exit, Ends

LEMMA ClosesTab ==
  ASSUME IInv, Running, NEW i \in 1..Len(tabs), CloseTabAt(i)
  PROVE  /\ Ends \/ Stays
         /\ tabs' = RemoveAt(tabs, i)
         /\ Open(tabs) \ Open(tabs') \subseteq {tabs[i].slot[p] : p \in Panes(tabs[i])}
<1> DEFINE rest == RemoveAt(tabs, i)
<1>1. /\ TabsInv(rest, live \intersect Open(rest)) /\ Len(rest) = Len(tabs) - 1
      /\ Len(tabs) \in Nat
      /\ Open(tabs) \ Open(rest) \subseteq {tabs[i].slot[p] : p \in Panes(tabs[i])}
  BY ClosedTab DEF IInv
<1>2. active \in 1..Len(tabs)
  BY ActiveTab
<1> HIDE DEF rest
<1>3. CASE rest = <<>>
  <2>1. Exit(<<>>)
    BY <1>3 DEF CloseTabAt, rest
  <2>2. Ends /\ tabs' = <<>>
    BY <2>1, Exits DEF Exit, ProcessGone
  <2> QED
    BY <2>2, <1>1, <1>3 DEF rest
<1>4. CASE rest # <<>>
  <2>1. active' = Clamped(Len(rest)) /\ Drop(rest) /\ UNCHANGED process
    BY <1>4 DEF CloseTabAt, rest
  <2>2. Len(rest) # 0
    BY <1>1, <1>4 DEF TabsInv, GoodTabs, IsSeq
  <2>3. active' \in 1..Len(rest)
    BY <2>1, <2>2, <1>1, <1>2 DEF Clamped
  <2> QED
    BY <2>1, <2>3, <1>1 DEF Drop, Stays, rest
<1> QED
  BY <1>3, <1>4

LEMMA ClosesPane ==
  ASSUME IInv, Running, NEW p \in Panes(Tab), ClosePaneNow(p)
  PROVE  /\ Ends \/ Stays
         /\ Open(tabs) \ Open(tabs') \subseteq {Tab.slot[p]}
<1>1. active \in 1..Len(tabs) /\ IsFiniteSet(Panes(Tab)) /\ Tab = tabs[active]
  BY ActiveTab DEF Tab
<1>2. CASE Cardinality(Panes(Tab)) = 1
  <2>1. Panes(Tab) = {p}
    BY <1>1, <1>2, FS_Singleton
  <2>2. CloseTabAt(active)
    BY <1>2 DEF ClosePaneNow
  <2> QED
    BY <2>1, <2>2, <1>1, ClosesTab
<1>3. CASE Cardinality(Panes(Tab)) # 1
  <2> DEFINE us == [tabs EXCEPT ![active] = ClosePaneOf(tabs[active], p)]
  <2>1. Panes(Tab) # {p}
    BY <1>3, FS_Singleton
  <2>2. Drop(us) /\ UNCHANGED <<active, process>>
    BY <1>1, <1>3 DEF ClosePaneNow
  <2>3. /\ TabsInv(us, live \intersect Open(us)) /\ Len(us) = Len(tabs)
        /\ Open(tabs) \ Open(us) \subseteq {tabs[active].slot[p]}
    BY <2>1, <1>1, ClosedPane DEF IInv
  <2> HIDE DEF us
  <2> QED
    BY <2>2, <2>3, <1>1 DEF Drop, Stays
<1> QED
  BY <1>2, <1>3

(* A change of the active tab that keeps its panes and their sessions.     *)
LEMMA Changes ==
  ASSUME IInv, Running, NEW t, Rearranged(Tab, t), Change(t)
  PROVE  /\ Stays /\ UNCHANGED confirm /\ Open(tabs') = Open(tabs)
         /\ DialogFor(confirm', Tab')
<1>1. active \in 1..Len(tabs) /\ Tab = tabs[active]
  BY ActiveTab DEF Tab
<1> DEFINE us == [tabs EXCEPT ![active] = t]
<1>2. tabs' = us /\ UNCHANGED <<active, live, confirm, process>>
  BY DEF Change
<1>3. TabsInv(us, live) /\ Len(us) = Len(tabs) /\ Open(us) = Open(tabs) /\ us[active] = t
  BY <1>1, ChangedTab DEF IInv
<1> HIDE DEF us
<1>4. Tab' = t
  BY <1>2, <1>3 DEF Tab
<1>5. DialogFor(confirm, Tab)
  BY DEF IInv
<1>6. DialogFor(confirm, t)
  BY <1>5 DEF DialogFor, Rearranged
<1> QED
  BY <1>1, <1>2, <1>3, <1>4, <1>6 DEF Stays

LEMMA NothingStays ==
  ASSUME IInv, Running, UNCHANGED <<tabs, active, live, process>>
  PROVE  Stays
  BY ActiveTab DEF IInv, Stays

LEMMA Spawns ==
  ASSUME IInv, Running, CanAddSession, NEW s \in Spawned
  PROVE  s \in 0..MaxSessions /\ CountOf(tabs) < MaxSessions
<1>1. CountOf(tabs) < MaxSessions /\ GoodTabs(tabs)
  BY CountIs DEF CanAddSession, IInv, TabsInv
<1>2. s \in {NoSession} \union {CHOOSE n \in 1..(CountOf(tabs) + 1) : n \notin Open(tabs)}
  BY CountIs DEF Spawned
<1> QED
  BY <1>1, <1>2, FreshSession

(* A command leaves the invariant and every live session alone; only an    *)
(* answered dialog closes one.                                             *)
LEMMA Commands ==
  ASSUME IInv, Running, confirm = NoDialog, Command
  PROVE  /\ Ends \/ (Stays /\ DialogFor(confirm', Tab'))
         /\ (Open(tabs) \ Open(tabs')) \intersect live = {}
<1>0. /\ active \in 1..Len(tabs) /\ Len(tabs) \in Nat \ {0} /\ TabInv(Tab) /\ Tab = tabs[active]
      /\ Tab.focus \in Panes(Tab) /\ GoodTabs(tabs)
  BY ActiveTab DEF Tab
<1>1. ASSUME NewTab PROVE Stays /\ UNCHANGED confirm /\ Open(tabs) \subseteq Open(tabs')
  <2>1. CASE ~CanAddSession
    <3>1. Nothing
      BY <1>1, <2>1 DEF NewTab
    <3> QED
      BY <3>1, NothingStays DEF Nothing, Open
  <2>2. CASE CanAddSession
    <3>1. PICK s \in Spawned :
            /\ live' = live \union ({s} \ {NoSession})
            /\ tabs' = Append(tabs, NewTabOf(s))
            /\ active' = Len(tabs) + 1 /\ UNCHANGED <<confirm, process>>
      BY <1>1, <2>2 DEF NewTab
    <3>2. s \in 0..MaxSessions /\ CountOf(tabs) < MaxSessions
      BY <2>2, Spawns
    <3>3. /\ TabsInv(tabs', live') /\ Len(tabs') = Len(tabs) + 1
          /\ Open(tabs) \subseteq Open(tabs')
      BY <3>1, <3>2, AddedTab DEF IInv
    <3>4. active' \in 1..Len(tabs')
      BY <3>1, <3>3, <1>0
    <3> QED
      BY <3>1, <3>3, <3>4 DEF Stays
  <2> QED
    BY <2>1, <2>2
<1>2. ASSUME Split PROVE Stays /\ UNCHANGED confirm /\ Open(tabs) \subseteq Open(tabs')
  <2>1. CASE Cardinality(Panes(Tab)) >= MaxPanesPerTab \/ ~CanAddSession
    <3>1. Nothing
      BY <1>2, <2>1 DEF Split
    <3> QED
      BY <3>1, NothingStays DEF Nothing, Open
  <2>2. CASE ~(Cardinality(Panes(Tab)) >= MaxPanesPerTab \/ ~CanAddSession)
    <3>1. PICK s \in Spawned :
            /\ live' = live \union ({s} \ {NoSession})
            /\ tabs' = [tabs EXCEPT ![active] = SplitFocus(tabs[active], s)]
            /\ UNCHANGED <<active, confirm, process>>
      BY <1>0, <1>2, <2>2 DEF Split
    <3>2. s \in 0..MaxSessions /\ CountOf(tabs) < MaxSessions
      BY <2>2, Spawns
    <3>3. Cardinality(Panes(tabs[active])) < MaxPanesPerTab
      <4>1. Cardinality(Panes(Tab)) \in Nat
        BY ActiveTab, FS_CardinalityType
      <4> QED
        BY <4>1, <2>2, <1>0, WorkspaceAssumption
    <3>4. /\ TabsInv(tabs', live') /\ Len(tabs') = Len(tabs)
          /\ Open(tabs) \subseteq Open(tabs')
      BY <3>1, <3>2, <3>3, <1>0, SplitTab DEF IInv
    <3> QED
      BY <3>1, <3>4, <1>0 DEF Stays
  <2> QED
    BY <2>1, <2>2
<1>3. ASSUME NEW step \in {1, -1}, Change(CycleFocus(Tab, step))
      PROVE  Stays /\ UNCHANGED confirm /\ Open(tabs) \subseteq Open(tabs')
  <2>1. Rearranged(Tab, CycleFocus(Tab, step))
    BY <1>0, FocusInv
  <2> QED
    BY <2>1, <1>3, Changes
<1>4. ASSUME NEW i \in 1..Len(tabs), SelectTab(i)
      PROVE  Stays /\ UNCHANGED confirm /\ Open(tabs) \subseteq Open(tabs')
  <2>1. active' = i /\ UNCHANGED <<tabs, live, confirm, process>>
    BY <1>4 DEF SelectTab
  <2> QED
    BY <2>1 DEF Stays, IInv, Open
<1>5. (active % Len(tabs)) + 1 \in 1..Len(tabs)
  BY <1>0
<1>6. ((active + Len(tabs) - 2) % Len(tabs)) + 1 \in 1..Len(tabs)
  BY <1>0
<1>7. ASSUME RequestCloseFocused
      PROVE  /\ Ends \/ (Stays /\ DialogFor(confirm', Tab'))
             /\ (Open(tabs) \ Open(tabs')) \intersect live = {}
  <2>1. CASE IsLive(Focused)
    <3>1. Ask("close_pane")
      BY <1>7, <2>1 DEF RequestCloseFocused
    <3>2. confirm' = Dialog("close_pane") /\ UNCHANGED <<tabs, active, live, process>>
      BY <3>1 DEF Ask
    <3>3. Stays /\ Tab' = Tab /\ Open(tabs') = Open(tabs)
      BY <3>2, NothingStays DEF Tab, Open
    <3> QED
      BY <3>2, <3>3, FreshDialog
  <2>2. CASE ~IsLive(Focused)
    <3>1. ClosePaneNow(Tab.focus) /\ (Running' => UNCHANGED confirm)
      BY <1>7, <2>2 DEF RequestCloseFocused
    <3>2. (Ends \/ Stays) /\ Open(tabs) \ Open(tabs') \subseteq {Tab.slot[Tab.focus]}
      BY <3>1, <1>0, ClosesPane
    <3>3. Stays => DialogFor(confirm', Tab')
      BY <3>1 DEF Stays, process, Running, DialogFor
    <3> QED
      BY <3>2, <3>3, <2>2 DEF IsLive, Focused
  <2> QED
    BY <2>1, <2>2
<1>8. CASE RequestCloseFocused
  BY <1>7, <1>8
<1>9. CASE ~RequestCloseFocused
  <2>1. Stays /\ UNCHANGED confirm /\ Open(tabs) \subseteq Open(tabs')
    BY <1>1, <1>2, <1>3, <1>4, <1>5, <1>6, <1>9 DEF Command
  <2>2. DialogFor(confirm', Tab')
    BY <2>1 DEF DialogFor
  <2> QED
    BY <2>1, <2>2
<1> QED
  BY <1>8, <1>9

(* The built-in layouts are trees and fit the limit they are given.        *)
LEMMA Preset ==
  ASSUME NEW preset \in Presets
  PROVE  LET file == PresetLayout(preset)
         IN  /\ LayoutFile(file) /\ PaneTotal(file.tabs) <= Limit /\ file.tabs # <<>>
             /\ \A i \in DOMAIN file.tabs : Cardinality(file.tabs[i]) <= MaxPanesPerTab
<1> DEFINE T == IF preset = "focus" THEN {<<>>} ELSE {<<0>>, <<1>>}
           file == PresetLayout(preset)
           f == <<T>>
<1>1. file.tabs = f /\ file.active = 1 /\ file = [active |-> 1, tabs |-> f]
  BY DEF PresetLayout
<1>2. T \subseteq Path /\ IsFiniteSet(T) /\ Cardinality(T) <= 2 /\ Cardinality(T) \in Nat
  <2>1. CASE preset = "focus"
    <3>1. T = {<<>>} /\ <<>> \in Path
      BY <2>1 DEF Path
    <3> HIDE DEF T
    <3>2. IsFiniteSet(T) /\ Cardinality(T) = 1
      BY <3>1, FS_Singleton
    <3> QED
      BY <3>1, <3>2
  <2>2. CASE preset # "focus"
    <3>1. T = {<<0>>} \union {<<1>>} /\ <<0>> \in Path /\ <<1>> \in Path /\ <<1>> \notin {<<0>>}
      <4>1. <<0>> \in Path /\ <<1>> \in Path
        BY DEF Path
      <4>2. <<0>>[1] # <<1>>[1]
        OBVIOUS
      <4> QED
        BY <2>2, <4>1, <4>2
    <3> HIDE DEF T
    <3>2. IsFiniteSet({<<0>>}) /\ Cardinality({<<0>>}) = 1
      BY FS_Singleton
    <3>3. IsFiniteSet({<<0>>} \union {<<1>>}) /\ Cardinality({<<0>>} \union {<<1>>}) = 1 + 1
      BY <3>1, <3>2, FS_AddElement
    <3> QED
      BY <3>1, <3>3
  <2> QED
    BY <2>1, <2>2
<1>3. IsTree(T)
  <2>1. CASE preset = "focus"
    BY <2>1 DEF IsTree
  <2>2. CASE preset # "focus"
    <3>1. T = {<<0>>, <<1>>} /\ Len(<<0>>) = 1 /\ Len(<<1>>) = 1 /\ <<0>>[1] = 0 /\ <<1>>[1] = 1
      BY <2>2
    <3>2. ~Under(<<0>>, <<1>>) /\ ~Under(<<1>>, <<0>>)
      BY <3>1 DEF Under
    <3>3. PartAt(<<0>>, <<1>>, 1) /\ PartAt(<<1>>, <<0>>, 1)
      BY <3>1 DEF PartAt
    <3> HIDE DEF T
    <3>4. \A p \in T, q \in T : Under(p, q) => p = q
      BY <3>1, <3>2
    <3>5. ASSUME NEW p \in T, NEW k \in 1..Len(p) PROVE \E q \in T : PartAt(p, q, k)
      <4>1. p = <<0>> \/ p = <<1>>
        BY <3>1, <3>5
      <4>2. Len(p) = 1
        BY <4>1, <3>1
      <4>3. k = 1
        BY <4>2, <3>5
      <4> QED
        BY <4>1, <4>3, <3>1, <3>3
    <3> QED
      BY <3>1, <3>4, <3>5 DEF IsTree
  <2> QED
    BY <2>1, <2>2
<1> HIDE DEF T
<1>4. f \in Seq(SUBSET Path) /\ Len(f) = 1 /\ DOMAIN f = 1..1 /\ f[1] = T /\ f # <<>>
  BY <1>2
<1>5. PaneTotal(f) = Cardinality(T)
  <2> DEFINE B(i) == PaneTotal(SubSeq(f, 1, i))
  <2>0. \A i \in DOMAIN f : IsFiniteSet(f[i])
    BY <1>2, <1>4
  <2> HIDE DEF f
  <2>1. /\ B(0) = 0 /\ B(Len(f)) = PaneTotal(f)
        /\ \A i \in 1..Len(f) : B(i) = B(i - 1) + Cardinality(f[i])
    BY <2>0, <1>4, BeforeTab
  <2>2. B(1) = B(0) + Cardinality(T)
    <3>1. B(1) = B(1 - 1) + Cardinality(f[1])
      BY <2>1, <1>4
    <3> HIDE DEF B
    <3> QED
      BY <3>1, <1>4
  <2> HIDE DEF B
  <2> QED
    BY <2>1, <2>2, <1>2, <1>4
<1>6. LayoutFile(file)
  <2>1. file \in [active : Nat \ {0}, tabs : Seq(SUBSET Path)]
    BY <1>1, <1>4
  <2> HIDE DEF file, f
  <2> QED
    BY <2>1, <1>1, <1>2, <1>3, <1>4 DEF LayoutFile, Path
<1>7. PaneTotal(f) <= Limit
  BY <1>2, <1>5, WorkspaceAssumption DEF Limit
<1>8. Cardinality(T) <= MaxPanesPerTab
  BY <1>2, WorkspaceAssumption
<1> HIDE DEF file, f
<1> QED
  BY <1>1, <1>4, <1>6, <1>7, <1>8 DEF file

LEMMA Boots ==
  ASSUME IInv, Boot
  PROVE  IInv' /\ ~Running
<1>1. /\ phase = "off" /\ phase' = "running" /\ Restore /\ UNCHANGED <<saved, confirm, overlays>>
      /\ ~Running
  BY DEF Boot, Running
<1>2. PICK preset \in Presets, readable \in BOOLEAN, failed \in {NoSession, 1} :
        LET file == IF readable /\ ValidLayout(saved) THEN saved ELSE PresetLayout(preset)
        IN /\ tabs' = Restored(file, failed)
           /\ active' = IF file.active <= Len(file.tabs) THEN file.active ELSE Len(file.tabs)
           /\ live' = (1..PaneTotal(file.tabs)) \ {failed}
  BY <1>1 DEF Restore
<1> DEFINE file == IF readable /\ ValidLayout(saved) THEN saved ELSE PresetLayout(preset)
<1>3. /\ tabs' = Restored(file, failed)
      /\ active' = IF file.active <= Len(file.tabs) THEN file.active ELSE Len(file.tabs)
      /\ live' = (1..PaneTotal(file.tabs)) \ {failed}
  BY <1>2
<1>4. /\ LayoutFile(file) /\ PaneTotal(file.tabs) <= Limit /\ file.tabs # <<>>
      /\ \A i \in DOMAIN file.tabs : Cardinality(file.tabs[i]) <= MaxPanesPerTab
  <2>1. CASE readable /\ ValidLayout(saved)
    <3>1. file = saved /\ LayoutFile(file) /\ ValidLayout(file)
      BY <2>1 DEF IInv, Restorable
    <3> HIDE DEF file
    <3>2. PaneTotal(file.tabs) \in Nat
      <4>1. file.tabs \in Seq(SUBSET Path) /\ \A i \in DOMAIN file.tabs : IsFiniteSet(file.tabs[i])
        BY <3>1 DEF LayoutFile, Path
      <4> QED
        BY <4>1, BeforeTab
    <3>3. PaneTotal(file.tabs) <= Limit
      BY <3>1, <3>2, WorkspaceAssumption DEF ValidLayout, Limit
    <3> QED
      BY <3>1, <3>3 DEF ValidLayout
  <2>2. CASE ~(readable /\ ValidLayout(saved))
    <3>1. file = PresetLayout(preset)
      BY <2>2
    <3> HIDE DEF file
    <3> QED
      BY <3>1, Preset
  <2> QED
    BY <2>1, <2>2
<1> HIDE DEF file
<1>5. TabsInv(tabs', live') /\ Len(tabs') = Len(file.tabs) /\ Len(file.tabs) \in Nat
  BY <1>3, <1>4, Booted
<1>6. active' \in 1..Len(tabs')
  <2>1. Len(file.tabs) # 0 /\ file.active \in Nat \ {0}
    BY <1>4 DEF LayoutFile
  <2> QED
    BY <2>1, <1>3, <1>5
<1>7. /\ confirm' = NoDialog /\ palette' = FALSE /\ settings' = FALSE /\ saved' = saved
  BY <1>1 DEF IInv, OverlaysInv, overlays
<1>8. OverlaysInv'
  BY <1>1, <1>6, <1>7 DEF OverlaysInv, Running
<1>9. DialogFor(confirm', Tab') /\ Restorable(saved')
  BY <1>7 DEF DialogFor, IInv
<1> QED
  BY <1>1, <1>5, <1>8, <1>9 DEF IInv

(* The sessions that go were asked about, or go with the x of their tab.   *)
Asked ==
  Running /\ phase' # "killed" /\ Gone # {} =>
    \/ confirm # NoDialog /\ confirm.kind = "close_window"
    \/ confirm # NoDialog /\ confirm.kind = "close_pane" /\ Gone = {confirm.of}
    \/ Uncovered /\ \E i \in DOMAIN tabs : tabs' = RemoveAt(tabs, i)

Lost == (Open(tabs) \ Open(tabs')) \intersect live

LEMMA NoneLost == Lost = {} => Asked
  BY DEF Asked, Gone, Lost

LEMMA KeptOpen == Open(tabs') = Open(tabs) => Asked
  BY NoneLost DEF Lost

LEMMA Steady ==
  ASSUME IInv, Running, UNCHANGED <<tabs, active, live, process>>,
         palette' \in BOOLEAN, settings' \in BOOLEAN, ~(palette' /\ settings'),
         DialogFor(confirm', Tab)
  PROVE  IInv' /\ Asked
<1>1. Stays
  BY NothingStays
<1>2. Tab' = Tab /\ Open(tabs') = Open(tabs)
  BY DEF Tab, Open
<1> QED
  BY <1>1, <1>2, StaysInv, KeptOpen

LEMMA Overlays ==
  ASSUME IInv
  PROVE  /\ palette \in BOOLEAN /\ settings \in BOOLEAN /\ ~(palette /\ settings)
         /\ DialogFor(confirm, Tab)
  BY DEF IInv, OverlaysInv

LEMMA KilledStep ==
  ASSUME IInv, Killed
  PROVE  IInv' /\ Asked
<1>1. Ends /\ phase' = "killed"
  BY DEF Killed, Ends, IInv
<1> QED
  BY <1>1, EndsInv DEF Asked

(* Commands run with no dialog open: a dialog takes the keys and clicks.   *)
LEMMA CommandStep ==
  ASSUME IInv, Running, confirm = NoDialog, Command,
         Running' => /\ palette' \in BOOLEAN /\ settings' \in BOOLEAN
                     /\ ~(palette' /\ settings')
  PROVE  IInv' /\ Asked
<1>1. Ends \/ (Stays /\ DialogFor(confirm', Tab'))
  BY Commands
<1>2. Asked
  BY Commands, NoneLost DEF Lost
<1>3. CASE Ends
  BY <1>2, <1>3, EndsInv
<1>4. CASE Stays /\ DialogFor(confirm', Tab')
  <2>1. Running'
    BY <1>4 DEF Stays, Running, process
  <2> QED
    BY <2>1, <1>2, <1>4, StaysInv
<1> QED
  BY <1>1, <1>3, <1>4

LEMMA ShortcutStep ==
  ASSUME IInv, Shortcut
  PROVE  IInv' /\ Asked
<1>1. Running /\ confirm = NoDialog /\ palette = FALSE /\ settings = FALSE
  BY Overlays DEF Shortcut, KeysGoTo
<1>2. CASE Command /\ (Running' => UNCHANGED overlays)
  BY <1>1, <1>2, CommandStep DEF overlays
<1>3. CASE palette' = ~palette /\ UNCHANGED settings /\ Nothing
  BY <1>1, <1>3, Steady, Overlays DEF Nothing
<1>4. CASE settings' = TRUE /\ UNCHANGED palette /\ Nothing
  BY <1>1, <1>4, Steady, Overlays DEF Nothing
<1> QED
  BY <1>2, <1>3, <1>4 DEF Shortcut

LEMMA PickStep ==
  ASSUME IInv, PickFromPalette
  PROVE  IInv' /\ Asked
<1>1. Running /\ confirm = NoDialog /\ palette = TRUE /\ settings = FALSE
  BY Overlays DEF PickFromPalette, Drawn
<1>2. CASE Command /\ (Running' => palette' = AfterPick(palette) /\ UNCHANGED settings)
  BY <1>1, <1>2, CommandStep DEF AfterPick
<1>3. CASE Nothing /\ palette' \in BOOLEAN /\ settings' \in BOOLEAN /\ ~(palette' /\ settings')
  BY <1>1, <1>3, Steady, Overlays DEF Nothing
<1> QED
  BY <1>1, <1>2, <1>3 DEF PickFromPalette, AfterPick

LEMMA EscapeStep ==
  ASSUME IInv, EscapeOverlay \/ LeaveSettings
  PROVE  IInv' /\ Asked
<1>1. /\ Running /\ Nothing
      /\ palette' \in BOOLEAN /\ settings' \in BOOLEAN /\ ~(palette' /\ settings')
  BY Overlays DEF EscapeOverlay, LeaveSettings
<1> QED
  BY <1>1, Steady, Overlays DEF Nothing

(* The tabs can be reached only while nothing covers the window.           *)
LEMMA TabStep ==
  ASSUME IInv, NEW i \in DOMAIN tabs, ClickTab(i) \/ ClickCloseTab(i)
  PROVE  IInv' /\ Asked
<1>1. /\ Running /\ confirm = NoDialog /\ palette = FALSE /\ settings = FALSE
      /\ i \in 1..Len(tabs)
  BY ActiveTab, Overlays DEF ClickTab, ClickCloseTab, Uncovered
<1>2. CASE ClickTab(i)
  <2>1. /\ active' = i /\ UNCHANGED <<tabs, live, confirm, process>>
        /\ palette' = FALSE /\ settings' = FALSE
    BY <1>1, <1>2 DEF ClickTab, SelectTab, overlays
  <2>2. Stays /\ DialogFor(confirm', Tab') /\ Open(tabs') = Open(tabs)
    BY <1>1, <2>1 DEF Stays, IInv, DialogFor, Open
  <2> QED
    BY <1>1, <2>1, <2>2, StaysInv, KeptOpen
<1>3. CASE ClickCloseTab(i)
  <2>1. CloseTabAt(i) /\ (Running' => UNCHANGED <<confirm, overlays>>)
    BY <1>3 DEF ClickCloseTab
  <2>2. (Ends \/ Stays) /\ tabs' = RemoveAt(tabs, i)
    BY <1>1, <2>1, ClosesTab
  <2>3. Asked
    <3>1. Uncovered
      BY <1>1 DEF Uncovered
    <3> QED
      BY <3>1, <2>2, Zenon DEF Asked
  <2>4. CASE Ends
    BY <2>3, <2>4, EndsInv
  <2>5. CASE Stays
    <3>1. Running'
      BY <1>1, <2>5 DEF Stays, Running, process
    <3>2. confirm' = NoDialog /\ palette' = FALSE /\ settings' = FALSE
      BY <3>1, <2>1, <1>1 DEF overlays
    <3>3. DialogFor(confirm', Tab')
      BY <3>2 DEF DialogFor
    <3> QED
      BY <1>1, <2>3, <2>5, <3>2, <3>3, StaysInv
  <2> QED
    BY <2>2, <2>4, <2>5
<1> QED
  BY <1>2, <1>3

LEMMA PaneStep ==
  ASSUME IInv, Running, NEW t, Rearranged(Tab, t), Change(t), UNCHANGED overlays
  PROVE  IInv' /\ Asked
<1>1. Stays /\ Open(tabs') = Open(tabs) /\ DialogFor(confirm', Tab')
  BY Changes
<1>2. palette' = palette /\ settings' = settings
  BY DEF overlays
<1> QED
  BY <1>1, <1>2, Overlays, StaysInv, KeptOpen

LEMMA TouchStep ==
  ASSUME IInv, Running, NEW p \in Panes(Tab), TouchPane(p)
  PROVE  IInv' /\ Asked
<1>1. Rearranged(Tab, FocusOn(Tab, p))
  BY ActiveTab, FocusInv
<1> QED
  BY <1>1, PaneStep DEF TouchPane

LEMMA DropStep ==
  ASSUME IInv, Running, NEW p \in Panes(Tab), NEW q \in Panes(Tab), DropOnPane(p, q)
  PROVE  IInv' /\ Asked
<1>1. /\ Rearranged(Tab, SwapPanes(Tab, p, q))
      /\ \A first \in {0, 1} : Rearranged(Tab, MovePane(Tab, p, q, first))
  BY ActiveTab, DropInv DEF DropOnPane
<1> QED
  BY <1>1, PaneStep DEF DropOnPane

LEMMA EdgeStep ==
  ASSUME IInv, Running, NEW p \in Panes(Tab), DropOnEdge(p)
  PROVE  IInv' /\ Asked
<1>1. PICK q \in Panes(Tab) : p # q
  BY DEF DropOnEdge
<1>2. \A first \in {0, 1} : Rearranged(Tab, MoveToEdge(Tab, p, first))
  BY <1>1, ActiveTab, DropInv
<1> QED
  BY <1>2, PaneStep DEF DropOnEdge

(* The window closes at once only when no session it knows of is live.     *)
LEMMA CloseRequestedStep ==
  ASSUME IInv, CloseRequested
  PROVE  IInv' /\ Asked
<1>1. Running /\ RequestWindowClose /\ (Running' => UNCHANGED overlays)
  BY DEF CloseRequested
<1>2. CASE \E s \in Open(tabs) : IsLive(s)
  <2>1. Ask("close_window")
    BY <1>1, <1>2 DEF RequestWindowClose
  <2>2. confirm' = [kind |-> "close_window"] /\ UNCHANGED <<tabs, active, live, process>>
    BY <2>1 DEF Ask, Dialog
  <2>3. UNCHANGED overlays
    BY <1>1, <2>2 DEF Running, process
  <2> QED
    BY <1>1, <2>2, <2>3, Steady, Overlays DEF DialogFor, overlays
<1>3. CASE ~\E s \in Open(tabs) : IsLive(s)
  <2>1. Exit(tabs)
    BY <1>1, <1>3 DEF RequestWindowClose
  <2>2. Ends
    BY <1>1, <2>1, Exits
  <2>3. Lost = {}
    BY <1>3 DEF Lost, IsLive
  <2> QED
    BY <2>2, <2>3, EndsInv, NoneLost
<1> QED
  BY <1>2, <1>3

LEMMA WakeStep ==
  ASSUME IInv, NEW s, WakeOfEnd(s)
  PROVE  IInv' /\ Asked
<1>1. /\ Running /\ live' = live \ {s}
      /\ UNCHANGED <<tabs, active, confirm, overlays, process>>
  BY DEF WakeOfEnd
<1>2. TabsInv(tabs', live') /\ active' \in 1..Len(tabs')
  BY <1>1, ActiveTab DEF TabsInv, IInv
<1>3. Stays
  BY <1>1, <1>2 DEF Stays
<1>4. /\ DialogFor(confirm', Tab') /\ Open(tabs') = Open(tabs)
      /\ palette' = palette /\ settings' = settings
  BY <1>1, Overlays DEF Tab, Open, overlays
<1> QED
  BY <1>1, <1>3, <1>4, Overlays, StaysInv, KeptOpen

LEMMA ClipboardStep ==
  ASSUME IInv, ClipboardArrives
  PROVE  IInv' /\ Asked
<1>1. /\ Running /\ confirm' \in {confirm, Dialog("paste")}
      /\ UNCHANGED <<tabs, active, live, process, overlays>>
  BY DEF ClipboardArrives
<1>2. DialogFor(confirm', Tab)
  BY <1>1, Overlays, FreshDialog
<1> QED
  BY <1>1, <1>2, Steady, Overlays DEF overlays

(* The answer closes the pane the dialog was opened for: no action that    *)
(* the dialog lets through takes the pane away or gives it another session.*)
LEMMA DecideStep ==
  ASSUME IInv, NEW accept \in BOOLEAN, Decide(accept)
  PROVE  IInv' /\ Asked
<1>1. Running /\ confirm # NoDialog
  BY DEF Decide
<1>2. ASSUME confirm' = NoDialog, UNCHANGED <<tabs, active, live, process, overlays>>
      PROVE  IInv' /\ Asked
  BY <1>1, <1>2, Steady, Overlays DEF DialogFor, overlays
<1>3. CASE accept /\ confirm.kind = "close_pane"
  <2>1. ClosePaneNow(confirm.pane) /\ (Running' => confirm' = NoDialog /\ UNCHANGED overlays)
    BY <1>1, <1>3 DEF Decide, Accept
  <2>2. confirm.pane \in Panes(Tab) /\ confirm.of = Tab.slot[confirm.pane]
    BY <1>1, <1>3, Overlays DEF DialogFor
  <2>3. (Ends \/ Stays) /\ Open(tabs) \ Open(tabs') \subseteq {confirm.of}
    BY <1>1, <2>1, <2>2, ClosesPane
  <2>4. Asked
    BY <1>1, <1>3, <2>3 DEF Asked, Gone
  <2>5. CASE Ends
    BY <2>4, <2>5, EndsInv
  <2>6. CASE Stays
    <3>1. Running'
      BY <1>1, <2>6 DEF Stays, Running, process
    <3>2. confirm' = NoDialog /\ palette' = palette /\ settings' = settings
      BY <3>1, <2>1 DEF overlays
    <3>3. DialogFor(confirm', Tab')
      BY <3>2 DEF DialogFor
    <3> QED
      BY <1>1, <2>4, <2>6, <3>2, <3>3, Overlays, StaysInv
  <2> QED
    BY <2>3, <2>5, <2>6
<1>4. CASE accept /\ confirm.kind = "close_window"
  <2>1. Exit(tabs)
    BY <1>1, <1>4 DEF Decide, Accept
  <2>2. Ends
    BY <1>1, <2>1, Exits
  <2>3. Asked
    BY <1>1, <1>4 DEF Asked
  <2> QED
    BY <2>2, <2>3, EndsInv
<1>5. CASE accept /\ confirm.kind \notin {"close_pane", "close_window"}
  <2>1. confirm' = NoDialog /\ UNCHANGED <<tabs, active, live, process, overlays>>
    BY <1>1, <1>5 DEF Decide, Accept
  <2> QED
    BY <2>1, <1>2
<1>6. CASE ~accept
  <2>1. confirm' = NoDialog /\ UNCHANGED <<tabs, active, live, process, overlays>>
    BY <1>1, <1>6 DEF Decide
  <2> QED
    BY <2>1, <1>2
<1> QED
  BY <1>3, <1>4, <1>5, <1>6

LEMMA BootStep ==
  ASSUME IInv, Boot
  PROVE  IInv' /\ Asked
  BY Boots DEF Asked

LEMMA Stutter ==
  ASSUME IInv, UNCHANGED vars
  PROVE  IInv' /\ Asked
<1>1. /\ tabs' = tabs /\ active' = active /\ live' = live /\ confirm' = confirm
      /\ palette' = palette /\ settings' = settings /\ phase' = phase /\ saved' = saved
  BY DEF vars, overlays, process
<1> QED
  BY <1>1, KeptOpen DEF IInv, OverlaysInv, Running, Tab, Open

(***************************************************************************)
(* The inductive invariant                                                 *)
(***************************************************************************)
(* Every start leaves the window off, with a file that holds trees.        *)
LEMMA InitInv == Init => IInv
<1> SUFFICES ASSUME Init PROVE IInv
  OBVIOUS
<1>1. /\ tabs = <<>> /\ live = {} /\ confirm = NoDialog /\ palette = FALSE /\ settings = FALSE
      /\ phase = "off" /\ saved \in Files
  BY DEF Init
<1>2. TabsInv(tabs, live)
  BY <1>1, NoTabs
<1>3. OverlaysInv /\ DialogFor(confirm, Tab)
  BY <1>1 DEF OverlaysInv, Running, DialogFor
<1>4. Restorable(saved)
  BY <1>1, FilesAssumption DEF Restorable
<1> QED
  BY <1>2, <1>3, <1>4 DEF IInv

LEMMA Step == IInv /\ [Next]_vars => IInv' /\ Asked
<1> SUFFICES ASSUME IInv, [Next]_vars PROVE IInv' /\ Asked
  OBVIOUS
<1>1. CASE Boot
  BY <1>1, BootStep
<1>2. CASE Killed
  BY <1>2, KilledStep
<1>3. CASE Shortcut
  BY <1>3, ShortcutStep
<1>4. CASE PickFromPalette
  BY <1>4, PickStep
<1>5. CASE EscapeOverlay \/ LeaveSettings
  BY <1>5, EscapeStep
<1>6. CASE \E i \in DOMAIN tabs : ClickTab(i) \/ ClickCloseTab(i)
  BY <1>6, TabStep
<1>7. CASE \E p \in 0..MaxPaneId : Running /\ p \in Panes(Tab) /\ TouchPane(p)
  BY <1>7, TouchStep
<1>8. CASE \E p \in 0..MaxPaneId, q \in 0..MaxPaneId :
             Running /\ {p, q} \subseteq Panes(Tab) /\ DropOnPane(p, q)
  BY <1>8, DropStep
<1>14. CASE \E p \in 0..MaxPaneId : Running /\ p \in Panes(Tab) /\ DropOnEdge(p)
  BY <1>14, EdgeStep
<1>9. CASE CloseRequested
  BY <1>9, CloseRequestedStep
<1>10. CASE \E s \in 1..MaxSessions : WakeOfEnd(s)
  BY <1>10, WakeStep
<1>11. CASE ClipboardArrives
  BY <1>11, ClipboardStep
<1>12. CASE \E accept \in BOOLEAN : Decide(accept)
  BY <1>12, DecideStep
<1>13. CASE UNCHANGED vars
  BY <1>13, Stutter
<1> QED
  BY <1>1, <1>2, <1>3, <1>4, <1>5, <1>6, <1>7, <1>8, <1>9, <1>10, <1>11, <1>12, <1>13, <1>14
  DEF Next

(* App keeps every tab a tree of panes with its focus in it, opens overlays*)
(* and dialogs only where they belong and saves only what can be restored; *)
(* the theorems below are consequences.                                    *)
THEOREM Inductive == Spec => []IInv
<1>1. Init => IInv
  BY InitInv
<1>2. IInv /\ [Next]_vars => IInv'
  BY Step
<1> QED
  BY <1>1, <1>2, PTL DEF Spec

(***************************************************************************)
(* What the window promises                                                *)
(***************************************************************************)
LEMMA TabIsOK ==
  ASSUME NEW t, TabInv(t)
  PROVE  TabOK(t)
<1>1. /\ Leaves(t.at) /\ Cardinality(Panes(t)) <= MaxPanesPerTab
      /\ Cardinality(Panes(t)) \in Nat
  BY FinitePanes, FS_CardinalityType DEF TabInv
<1>2. ASSUME NEW p \in Panes(t)
      PROVE  t.at[p] \in Paths(MaxPanesPerTab)
  <2>1. Len(t.at[p]) + 1 <= Cardinality(Panes(t)) /\ Len(t.at[p]) \in Nat
    BY <1>1, DepthBound DEF Panes
  <2>2. Len(t.at[p]) \in 0..MaxPanesPerTab
    BY <1>1, <2>1, WorkspaceAssumption
  <2>3. t.at[p] \in [1..Len(t.at[p]) -> {0, 1}]
    BY <1>1 DEF Leaves, Panes, Path
  <2> QED
    BY <2>2, <2>3 DEF Paths
<1>3. t.at \in [Panes(t) -> Paths(MaxPanesPerTab)]
  BY <1>1, <1>2 DEF Leaves, Panes
<1>4. Cardinality(Shape(t)) = Cardinality(Panes(t)) /\ IsTree(Shape(t))
  BY <1>1, ShapeTree DEF TreeOf
<1> QED
  BY <1>3, <1>4 DEF TabInv, TabOK

LEMMA Promised == IInv => TypeOK /\ LimitKept /\ SavedRestorable /\ KeysGoToDrawn /\ DecisionHonoured
<1> SUFFICES ASSUME IInv
             PROVE  TypeOK /\ LimitKept /\ SavedRestorable /\ KeysGoToDrawn /\ DecisionHonoured
  OBVIOUS
<1>1. TypeOK
  <2>1. GoodTabs(tabs) /\ live \subseteq Open(tabs)
    BY DEF IInv, TabsInv
  <2>2. DOMAIN tabs = 1..Len(tabs) /\ \A i \in 1..Len(tabs) : TabInv(tabs[i])
    BY <2>1, Counted DEF GoodTabs
  <2>3. \A i \in DOMAIN tabs : TabOK(tabs[i])
    BY <2>2, TabIsOK
  <2>4. IF Running THEN active \in DOMAIN tabs ELSE tabs = <<>>
    BY <2>2 DEF IInv, OverlaysInv
  <2> QED
    BY <2>1, <2>3, <2>4 DEF TypeOK, IInv, OverlaysInv
<1>2. LimitKept
  BY CountIs DEF LimitKept, IInv, TabsInv, Limit
<1>3. SavedRestorable
  BY DEF SavedRestorable, IInv, Restorable
<1>4. KeysGoToDrawn
  BY Overlays DEF KeysGoToDrawn, KeysGoTo, Drawn
<1>5. DecisionHonoured
  BY Overlays DEF DecisionHonoured, DialogFor, SessionOf, NoDialog
<1> QED
  BY <1>1, <1>2, <1>3, <1>4, <1>5

(* Every tab stays a tree of panes no deeper than its limit, with its focus*)
(* in it, and an open window has an active tab (split, close_pane, the     *)
(* drags onto a pane and onto the edge of the grid, restore_layout).       *)
THEOREM TreesStay == Spec => []TypeOK
  BY Inductive, Promised, PTL

(* The panes never exceed the session limit, whatever new tabs, splits,    *)
(* restored layouts and failed starts come together (can_add_session).     *)
THEOREM LimitStays == Spec => []LimitKept
  BY Inductive, Promised, PTL

(* Whatever layout is written, after any drags, the next start accepts it: *)
(* no tree of panes is deeper than the panes it has (save_layout,          *)
(* validate).                                                              *)
THEOREM SavedIsRestorable == Spec => []SavedRestorable
  BY Inductive, Promised, PTL

(* The modal that takes the keys is the one drawn on top, because the two  *)
(* overlays are never open together (route_modal_key, modal_view).         *)
THEOREM KeysFollowDrawing == Spec => []KeysGoToDrawn
  BY Inductive, Promised, PTL

(* An answered dialog finds the session it was opened for: nothing that it *)
(* lets through changes the active tab or its panes (on_close_decision).   *)
THEOREM DecisionsHonoured == Spec => []DecisionHonoured
  BY Inductive, Promised, PTL

(* The only way to close a session that the UI knows to be live without a  *)
(* dialog of its own or of the window is the x of its tab, where nothing   *)
(* is asked although docs/TERMINAL.md wants a warning (close_pane,         *)
(* close_tab, exit).                                                       *)
THEOREM OnlyTabXUnasked == Spec => UnaskedOnlyByTabX
<1>1. IInv /\ [Next]_vars => [Asked]_vars
  BY Step
<1>2. [Asked]_vars => [Running /\ phase' # "killed" /\ Gone # {} =>
       \/ confirm # NoDialog /\ confirm.kind = "close_window"
       \/ confirm # NoDialog /\ confirm.kind = "close_pane" /\ Gone = {confirm.of}
       \/ Uncovered /\ \E i \in DOMAIN tabs : tabs' = RemoveAt(tabs, i)]_vars
  BY DEF Asked
<1> QED
  BY <1>1, <1>2, Inductive, PTL DEF Spec, UnaskedOnlyByTabX
=============================================================================
