---------------------------- MODULE LayoutTree ----------------------------
(***************************************************************************)
(* How a tab divides its area among its panes: the tree of LayoutGroups    *)
(* with relative sizes (lib/src/layout.cpp), the rectangles computed from  *)
(* it, and what Tab and the input thread do with them: splits, removals,   *)
(* resizes by key and by dragging a border, navigation, full screen.       *)
(*                                                                         *)
(* A leaf of the tree is [pane, share], a group is [dir, share, kids].     *)
(* Shares are in units of 1/Precision of the group (the code's             *)
(* max_layout_precision is 100000).  Pixels, which follow the cells, and   *)
(* the places where borders meet are left out.                             *)
(***************************************************************************)
EXTENDS Integers, Sequences, SequencesExt, FiniteSetsExt

CONSTANTS
    Panes,       \* names of panes
    NoPane,      \* a null pointer to a pane
    Sizes,       \* sizes the terminal may have: [rows, cols]
    Precision,   \* max_layout_precision
    Amounts,     \* cells by which keys resize a pane
    MaxChanges   \* bound: splits, tried or done, and resizes by key or mouse

ASSUME LayoutTreeAssumption ==
    /\ NoPane \notin Panes
    /\ Sizes \subseteq [rows: Nat \ {0}, cols: Nat \ {0}]
    /\ Precision \in Nat \ {0}
    /\ Amounts \subseteq Int \ {0}
    /\ MaxChanges \in Nat

VARIABLES
    tree,        \* Tab::m_layout_root
    shown,       \* Tab::m_layout_tree: the rectangles of the last layout
    size,        \* Tab::m_size
    recency,     \* Tab::m_panes_ordered_by_recency; the active pane is first
    fullScreen,  \* Tab::m_full_screen_pane
    told,        \* the size each pane was last told with Pane::resize, or was made with; NoSize outside the tab
    stale,       \* a split has failed since the last layout
    changes,     \* splits and resizes so far
    fault        \* the undefined behaviour a handler has run into

vars == <<tree, shown, size, recency, fullScreen, told, stale, changes, fault>>

Directions == {"Horizontal", "Vertical"}
Sides == {"Left", "Right", "Top", "Bottom"}

\* The direction in which the sides of a pane lie, and whether a side is before the pane.
AxisOf(side) == IF side \in {"Left", "Right"} THEN "Horizontal" ELSE "Vertical"
IsPrior(side) == side \in {"Left", "Top"}

Leaf(p, share) == [pane |-> p, share |-> share]
IsGroup(n) == "kids" \in DOMAIN n
Single(p) == [dir |-> "None", share |-> Precision, kids |-> <<Leaf(p, Precision)>>]
Shares(kids) == [i \in DOMAIN kids |-> kids[i].share]

RECURSIVE Order(_), Shape(_), GroupsIn(_)
\* The panes of a tree from the first to the last; the tree without its shares; its groups.
Order(n) == IF IsGroup(n) THEN FlattenSeq([i \in DOMAIN n.kids |-> Order(n.kids[i])]) ELSE <<n.pane>>
Shape(n) == IF IsGroup(n) THEN <<n.dir, [i \in DOMAIN n.kids |-> Shape(n.kids[i])]>> ELSE <<n.pane>>
GroupsIn(n) == IF IsGroup(n) THEN {n} \cup UNION {GroupsIn(n.kids[i]) : i \in DOMAIN n.kids} ELSE {}

-----------------------------------------------------------------------------
\* Dividing a number by shares.

\* di::Rational::round.  A half is rounded up, as lib/test/src/test_layout.cpp:57 shows.
Round(n, d) == (2 * n + d) \div (2 * d)

RECURSIVE UpTo(_, _)
\* weights[1 .. i] added up.
UpTo(weights, i) == IF i = 0 THEN 0 ELSE UpTo(weights, i - 1) + weights[i]

\* What is left over by rounding one part is added to the next, so the parts together are as near
\* to the exact number as one rounding allows, however many there are.
Spread_NoLeftover(weights, total, room) ==
    [i \in DOMAIN weights |-> Round(room * weights[i], total)]

Spread(weights, total, room) ==
    [i \in DOMAIN weights |->
        Round(room * UpTo(weights, i), total) - Round(room * UpTo(weights, i - 1), total)]

\* A share that came of a fraction with denominator 0.
Undefined == -1

\* LayoutGroup::redistribute_space: all children but the new one, at place new (0: there is none), whose
\* shares were out of total, share room.  Without a room the code divides by it.
Redistribute(kids, new, total, room) ==
    LET others == DOMAIN kids \ {new}
        empty == \A i \in others : kids[i].share = 0
        weights == [i \in DOMAIN kids |-> IF i = new THEN 0 ELSE IF empty THEN 1 ELSE kids[i].share]
        parts == Spread(weights, IF empty THEN UpTo(weights, Len(kids)) ELSE total, room)
    IN  [i \in DOMAIN kids |->
            IF i = new THEN kids[i]
            ELSE [kids[i] EXCEPT !.share = IF room = 0 THEN Undefined ELSE parts[i]]]

-----------------------------------------------------------------------------
\* Changing the tree.

\* A new leaf at place i; it gets as much as it would if all had the same.
WithNew(kids, i, p) ==
    LET share == Precision \div (Len(kids) + 1)
    IN  Redistribute(InsertAt(kids, i, Leaf(p, share)), i, Precision, Precision - share)

\* Mutant: the new pane is put before the reference.
SplitAt_Before(g, i, dir, p) ==
    IF Len(g.kids) = 1 THEN [g EXCEPT !.dir = dir, !.kids = WithNew(g.kids, 2, p)]
    ELSE IF g.dir = dir THEN [g EXCEPT !.kids = WithNew(g.kids, i, p)]
    ELSE [g EXCEPT !.kids[i] = [dir |-> dir, share |-> g.kids[i].share,
                                kids |-> WithNew(<<Leaf(g.kids[i].pane, Precision)>>, 2, p)]]

\* LayoutGroup::split where the reference is child i of group g: pane p is put after it.
SplitAt(g, i, dir, p) ==
    IF Len(g.kids) = 1 THEN [g EXCEPT !.dir = dir, !.kids = WithNew(g.kids, 2, p)]
    ELSE IF g.dir = dir THEN [g EXCEPT !.kids = WithNew(g.kids, i + 1, p)]
    ELSE [g EXCEPT !.kids[i] = [dir |-> dir, share |-> g.kids[i].share,
                                kids |-> WithNew(<<Leaf(g.kids[i].pane, Precision)>>, 2, p)]]

\* The place of pane p among children, 0 if it is not one of them.
IndexOf(kids, p) == SelectInSeq(kids, LAMBDA n : ~IsGroup(n) /\ n.pane = p)

RECURSIVE SplitIn(_, _, _, _)
SplitIn(g, ref, dir, p) ==
    LET i == IndexOf(g.kids, ref)
    IN  IF i # 0 THEN SplitAt(g, i, dir, p)
        ELSE [g EXCEPT !.kids = [k \in DOMAIN g.kids |->
                IF IsGroup(g.kids[k]) THEN SplitIn(g.kids[k], ref, dir, p) ELSE g.kids[k]]]

\* What becomes of child n of a group with direction dir: a group of one pane becomes the pane, one
\* with the same direction is dissolved into its parent.
Tidied(n, dir) ==
    IF ~IsGroup(n) THEN <<n>>
    ELSE IF Len(n.kids) = 1 /\ ~IsGroup(n.kids[1]) THEN <<[n.kids[1] EXCEPT !.share = n.share]>>
    ELSE IF n.dir = dir THEN Redistribute(n.kids, 0, Precision, n.share)
    ELSE <<n>>

RECURSIVE RemoveIn(_, _)
\* LayoutGroup::remove_pane.  A nested group has two children (TreeOK), so none becomes empty.
RemoveIn(g, p) ==
    LET i == IndexOf(g.kids, p)
        here == IF i = 0 THEN g.kids
                ELSE Redistribute(RemoveAt(g.kids, i), 0, Precision - g.kids[i].share, Precision)
        below == [k \in DOMAIN here |-> IF IsGroup(here[k]) THEN RemoveIn(here[k], p) ELSE here[k]]
        kids == FlattenSeq([k \in DOMAIN below |-> Tidied(below[k], g.dir)])
        self == IF Len(kids) = 1 /\ IsGroup(kids[1])
                THEN [kids[1] EXCEPT !.share = g.share] ELSE [g EXCEPT !.kids = kids]
    IN  IF Len(self.kids) <= 1 THEN [self EXCEPT !.dir = "None"] ELSE self

RECURSIVE GroupAt(_, _), WithShares(_, _, _)
\* The group (or node of the layout) a path of indices leads to; the tree with other shares there.
GroupAt(g, path) == IF path = <<>> THEN g ELSE GroupAt(g.kids[Head(path)], Tail(path))
WithShares(g, path, shares) ==
    IF path = <<>>
    THEN [g EXCEPT !.kids = [i \in DOMAIN g.kids |-> [g.kids[i] EXCEPT !.share = shares[i]]]]
    ELSE [g EXCEPT !.kids[Head(path)] = WithShares(g.kids[Head(path)], Tail(path), shares)]

-----------------------------------------------------------------------------
\* Laying the tree out.  A pane's rectangle is [row, col, size, pane], a group's
\* [row, col, size, dir, kids]; a group without room has no kids.

Dim(s, dir) == IF dir = "Horizontal" THEN s.cols ELSE s.rows
Across(dir) == IF dir = "Horizontal" THEN "Vertical" ELSE "Horizontal"
Start(r, dir) == IF dir = "Horizontal" THEN r.col ELSE r.row
End(r, dir) == Start(r, dir) + Dim(r.size, dir)

RECURSIVE LayoutOf(_, _, _, _)
\* LayoutGroup::layout: every child gets one cell and its share of those left when the cells of the
\* children and the lines between them are taken off.
LayoutOf(n, s, row, col) ==
    LET rect == [row |-> row, col |-> col, size |-> s]
        count == Len(n.kids)
        spare == Dim(s, n.dir) - (2 * count - 1)
        parts == Spread(Shares(n.kids), Precision, spare)
        before(i) == UpTo(parts, i - 1) + 2 * (i - 1)
        kid(i) == IF n.dir = "Horizontal"
                  THEN LayoutOf(n.kids[i], [s EXCEPT !.cols = parts[i] + 1], row, col + before(i))
                  ELSE LayoutOf(n.kids[i], [s EXCEPT !.rows = parts[i] + 1], row + before(i), col)
    IN  IF ~IsGroup(n) THEN rect @@ [pane |-> n.pane]
        ELSE rect @@ [dir |-> n.dir,
                      kids |-> IF n.dir = "None" THEN [i \in 1 .. count |-> LayoutOf(n.kids[i], s, row, col)]
                               ELSE IF spare < 0 \/ Dim(s, Across(n.dir)) < 1 THEN <<>>
                               ELSE [i \in 1 .. count |-> kid(i)]]

\* Tab::layout.
Layout(t, full, s) == LayoutOf(IF full = NoPane THEN t ELSE Single(full), s, 0, 0)

RECURSIVE EntriesIn(_)
EntriesIn(n) == IF IsGroup(n) THEN UNION {EntriesIn(n.kids[i]) : i \in DOMAIN n.kids} ELSE {n}

\* LayoutNode::find_pane.
IsShown(l, p) == \E e \in EntriesIn(l) : e.pane = p
EntryOf(l, p) == CHOOSE e \in EntriesIn(l) : e.pane = p

\* resize_pane: the sizes the panes of tree t know after a layout.
NoSize == [rows |-> 0, cols |-> 0]
Tell_AtCreation(t, l) ==
    [p \in Panes |-> IF IsShown(l, p) /\ told[p] = NoSize THEN EntryOf(l, p).size ELSE told[p]]

Tell(t, l) ==
    LET entries == EntriesIn(l)
        panes == Range(Order(t))
    IN  [p \in Panes |-> IF \E e \in entries : e.pane = p THEN (CHOOSE e \in entries : e.pane = p).size
                         ELSE IF p \in panes THEN told[p] ELSE NoSize]

\* There is just room for one cell for each child and the lines between: then nothing is left to
\* divide, and the pixels of a child are computed by dividing by what is left.
ExactFit(l) ==
    \E n \in GroupsIn(l) :
        n.dir # "None" /\ n.kids # <<>> /\ Dim(n.size, n.dir) = 2 * Len(n.kids) - 1

ZeroShare(t) == \E g \in GroupsIn(t) : \E i \in DOMAIN g.kids : g.kids[i].share = Undefined

Fails(f) == fault' = f /\ UNCHANGED <<tree, shown, size, recency, fullScreen, told, stale>>

\* The tab with tree t, panes by recency order, full screen pane full and size s is laid out.
LaidOut(t, order, full, s) ==
    LET l == Layout(t, full, s)
    IN  IF ZeroShare(t) THEN Fails("zero_share")
        ELSE IF ExactFit(l) THEN Fails("exact_fit")
        ELSE /\ tree' = t /\ shown' = l /\ size' = s /\ recency' = order /\ fullScreen' = full
             /\ told' = Tell(t, l) /\ stale' = FALSE
             /\ UNCHANGED fault

-----------------------------------------------------------------------------
\* Resizing.

RECURSIVE PathTo(_, _)
\* The children on the way from node n to pane p.
PathTo(n, p) ==
    LET i == SelectInSeq(n.kids, LAMBDA k : Contains(Order(k), p))
    IN  <<i>> \o (IF IsGroup(n.kids[i]) THEN PathTo(n.kids[i], p) ELSE <<>>)

Sibling(side, i) == IF IsPrior(side) THEN i - 1 ELSE i + 1

\* The border of pane p on a side belongs to the nearest group around it that lies in that direction
\* and has a child on that side: [at, i, j] is the path to the group, the child, and its sibling.
Borders(p, side) ==
    IF ~IsShown(shown, p) THEN {}
    ELSE LET path == PathTo(shown, p)
             at(d) == SubSeq(path, 1, d - 1)
             fits == {d \in DOMAIN path :
                        LET node == GroupAt(shown, at(d))
                        IN  node.dir = AxisOf(side) /\ Sibling(side, path[d]) \in DOMAIN node.kids}
         IN  {[at |-> at(d), i |-> path[d], j |-> Sibling(side, path[d])] :
                d \in {d \in fits : \A e \in fits : e <= d}}

\* The cells to be divided, slightly under-estimated so that a border moves at least as far as asked.
Room_OverEstimate(node) == Dim(node.size, node.dir) + 2

Room(node) == Dim(node.size, node.dir) - 2 * Len(node.kids)

\* The share that changes hands: the pane has own, its sibling other.
Change(amount, room, own, other) ==
    LET wanted == Round(amount * Precision, room)
    IN  IF wanted > 0 THEN Min({wanted, other}) ELSE Max({wanted, -own})

\* LayoutGroup::resize: the trees it may lead to; none when the code returns false.
Resized(p, side, amount) ==
    {LET node == GroupAt(shown, b.at)
         shares == Shares(GroupAt(tree, b.at).kids)
         change == Change(amount, Room(node), shares[b.i], shares[b.j])
     IN  WithShares(tree, b.at, [shares EXCEPT ![b.i] = @ + change, ![b.j] = @ - change])
     : b \in {b \in Borders(p, side) : Room(GroupAt(shown, b.at)) > 0}} \ {tree}

-----------------------------------------------------------------------------
\* The handlers.

Active == Head(recency)
Forgotten(p) == SelectSeq(recency, LAMBDA q : q # p)

Init ==
    \E p \in Panes, s \in Sizes :
        /\ tree = Single(p)
        /\ shown = LayoutOf(tree, s, 0, 0)
        /\ size = s
        /\ recency = <<p>>
        /\ fullScreen = NoPane
        /\ told = [q \in Panes |-> IF q = p THEN s ELSE NoSize]
        /\ stale = FALSE
        /\ changes = 0
        /\ fault = "none"

\* Tab::add_pane.  The new pane is made with the size the layout has for it, and becomes active, which
\* ends the full screen mode.
AddPane(p, dir) ==
    LET t == SplitIn(tree, Active, dir, p)
    IN  /\ p \notin Range(recency)
        /\ IsShown(LayoutOf(t, size, 0, 0), p)
        /\ LaidOut(t, <<p>> \o recency, NoPane, size)
        /\ changes < MaxChanges /\ changes' = changes + 1

\* It fails because there is no room or the pane cannot be made.  The other panes have been told the
\* sizes they would have had; the rectangles are still the old ones.
AddPaneFails(dir) ==
    LET t == SplitIn(tree, Active, dir, NoPane)
        l == LayoutOf(t, size, 0, 0)
    IN  /\ \/ ExactFit(l) /\ Fails("exact_fit")
           \/ /\ ~ExactFit(l)
              /\ tree' = RemoveIn(t, NoPane)
              /\ told' = Tell(t, l)
              /\ stale' = TRUE
              /\ UNCHANGED <<shown, size, recency, fullScreen, fault>>
        /\ changes < MaxChanges /\ changes' = changes + 1

\* Session::remove_pane.  With its last pane the tab itself is removed.
RemovePane(p) ==
    /\ p \in Range(recency)
    /\ LET t == RemoveIn(tree, p)
           full == IF fullScreen = p THEN NoPane ELSE fullScreen
       IN  \/ Len(recency) > 1 /\ LaidOut(t, Forgotten(p), full, size)
          \/ /\ Len(recency) = 1
             /\ tree' = t /\ recency' = <<>> /\ fullScreen' = full
             /\ UNCHANGED <<shown, size, told, stale, fault>>
    /\ UNCHANGED changes

\* The actions that resize the active pane.
ResizePane(side, amount) ==
    /\ changes < MaxChanges
    /\ \E t \in Resized(Active, side, amount) : LaidOut(t, recency, fullScreen, size)
    /\ changes' = changes + 1

\* InputThread::handle_drag: the pointer is on a border, where the left button was pressed, and moves
\* on by one cell, into a pane e; towards is the side of e on which the border is.
Drag(e, side) ==
    /\ changes < MaxChanges
    /\ LET axis == AxisOf(side)
           origin == IF IsPrior(side) THEN Start(e, axis) - 1 ELSE End(e, axis)
       IN  /\ origin \in 0 .. Dim(size, axis) - 1
           /\ \E t \in Resized(e.pane, side, -1) : LaidOut(t, recency, fullScreen, size)
    /\ changes' = changes + 1

\* LayoutState::layout with the size of the terminal.
ResizeTerminal(s) ==
    /\ s # size
    /\ LaidOut(tree, recency, fullScreen, s)
    /\ UNCHANGED changes

\* Tab::set_active.
SetActive(p) ==
    /\ p # Active
    /\ LET order == <<p>> \o Forgotten(p)
       IN  IF fullScreen \in {NoPane, p}
           THEN recency' = order /\ UNCHANGED <<tree, shown, size, fullScreen, told, stale, fault>>
           ELSE LaidOut(tree, order, NoPane, size)
    /\ UNCHANGED changes

\* A press of the mouse in a pane.
Click(e) == SetActive(e.pane)

\* Tab::set_full_screen_pane with the active pane, or with none when that has the full screen.
ToggleFullScreen ==
    /\ LaidOut(tree, recency, IF fullScreen = Active THEN NoPane ELSE Active, size)
    /\ UNCHANGED changes

-----------------------------------------------------------------------------
\* Tab::navigate, for a pane whose program takes no part in it (SeamlessNavigation has the others).

\* There is no pane on that side, as far as the code can tell from the distance to the edge.
Wraps_Early(e, side) ==
    LET axis == AxisOf(side)
    IN  IF IsPrior(side) THEN Start(e, axis) <= 2
        ELSE Dim(size, axis) < 2 \/ End(e, axis) >= Dim(size, axis) - 2

Wraps(e, side) ==
    LET axis == AxisOf(side)
    IN  IF IsPrior(side) THEN Start(e, axis) <= 1
        ELSE Dim(size, axis) < 2 \/ End(e, axis) >= Dim(size, axis) - 2

\* The row or column in which panes are looked for: behind the line at that side, or at the other end.
TargetLine(e, side) ==
    LET axis == AxisOf(side)
    IN  IF IsPrior(side) THEN IF Wraps(e, side) THEN Dim(size, axis) - 1 ELSE Start(e, axis) - 2
        ELSE IF Wraps(e, side) THEN 0 ELSE End(e, axis) + 1

\* hit_test_vertical_line and hit_test_horizontal_line from the start of e to its end, which is the line
\* next to e.
HitTestLine(e, side) ==
    LET axis == AxisOf(side)
        other == Across(axis)
        at == TargetLine(e, side)
    IN  {f \in EntriesIn(shown) : /\ End(e, other) >= Start(f, other) /\ Start(e, other) < End(f, other)
                                  /\ at \in Start(f, axis) .. End(f, axis) - 1}

\* Where a navigation leads: to the candidate that was active most recently.
Destination(side, allowWrap) ==
    LET e == EntryOf(shown, Active)
        hits == {f.pane : f \in HitTestLine(e, side)} \ {Active}
    IN  IF ~IsShown(shown, Active) \/ (Wraps(e, side) /\ ~allowWrap) \/ hits = {} THEN NoPane
        ELSE recency[SelectInSeq(recency, LAMBDA p : p \in hits)]

Navigate(side, allowWrap) ==
    LET p == Destination(side, allowWrap) IN p # NoPane /\ SetActive(p)

Running == fault = "none" /\ recency # <<>>

Next ==
    /\ Running
    /\ \/ \E p \in Panes, dir \in Directions : AddPane(p, dir)
       \/ \E dir \in Directions : AddPaneFails(dir)
       \/ \E p \in Panes : RemovePane(p)
       \/ \E side \in Sides, amount \in Amounts : ResizePane(side, amount)
       \/ \E e \in EntriesIn(shown), side \in Sides : Drag(e, side)
       \/ \E s \in Sizes : ResizeTerminal(s)
       \/ \E e \in EntriesIn(shown) : Click(e)
       \/ ToggleFullScreen
       \/ \E side \in Sides, allowWrap \in BOOLEAN : Navigate(side, allowWrap)

Spec == Init /\ [][Next]_vars

-----------------------------------------------------------------------------
\* Properties.

\* The state has the types of Tab's members.
TypeOK ==
    /\ size \in Sizes
    /\ recency \in Seq(Panes)
    /\ fullScreen \in {NoPane} \cup Range(recency)
    /\ told \in [Panes -> [rows: Nat, cols: Nat]]
    /\ stale \in BOOLEAN
    /\ changes \in 0 .. MaxChanges
    /\ fault \in {"none", "zero_share", "exact_fit"}

\* The tree stays as it should whatever was split, removed and resized, failed splits included: the panes
\* are those the tab lists, once each; nested groups have at least two children and a direction other
\* than their parent's; the shares in each group are none below 0 and together the whole
\* (validate_layout).
TreeOK ==
    /\ Len(Order(tree)) = Len(recency)
    /\ Range(Order(tree)) = Range(recency)
    /\ tree.dir = "None" <=> Len(tree.kids) <= 1
    /\ \A g \in GroupsIn(tree) :
        /\ \A i \in DOMAIN g.kids : g.kids[i].share \in 0 .. Precision
        /\ g.kids # <<>> => UpTo(Shares(g.kids), Len(g.kids)) = Precision
        /\ \A i \in DOMAIN g.kids : IsGroup(g.kids[i]) =>
                Len(g.kids[i].kids) >= 2 /\ g.kids[i].dir \in Directions \ {g.dir}

\* The rectangles of a group's children fill the group's: along its direction they follow each other
\* with one line between and at least one cell each, from the start to the end; across they are as
\* wide as the group.  The rounding of shares to cells loses no cell and makes none up.
Fills ==
    \A n \in GroupsIn(shown) :
        LET k == n.kids
            other == Across(n.dir)
            whole == IF n.dir = "None" THEN "Vertical" ELSE n.dir
        IN  k # <<>> =>
                /\ Start(k[1], whole) = Start(n, whole) /\ End(k[Len(k)], whole) = End(n, whole)
                /\ \A i \in DOMAIN k : /\ Dim(k[i].size, whole) > 0
                                        /\ Start(k[i], Across(whole)) = Start(n, Across(whole))
                                        /\ End(k[i], Across(whole)) = End(n, Across(whole))
                /\ \A i \in 2 .. Len(k) : Start(k[i], whole) = End(k[i - 1], whole) + 1

\* A pane that is on the screen has been told the size it has there, unless the last thing that happened
\* was a failed split.
SizesTold == ~stale => \A e \in EntriesIn(shown) : told[e.pane] = e.size

\* The layout as a whole (LayoutGroup::layout, validate_layout): after any sequence of splits, removals
\* and resizes the tree keeps its shape and its shares, its rectangles fill the tab, and the panes
\* know their sizes.
Tiled == TypeOK /\ TreeOK /\ Fills /\ SizesTold

\* Panes e and f have a line between them at that side of e; Beside: and face each other for a cell or
\* more, Touching: or at least meet at a corner.
Facing(e, f, side) == IF IsPrior(side) THEN End(f, AxisOf(side)) + 1 = Start(e, AxisOf(side))
                      ELSE Start(f, AxisOf(side)) = End(e, AxisOf(side)) + 1
Beside(e, side) ==
    LET other == Across(AxisOf(side))
    IN  {f \in EntriesIn(shown) : /\ Facing(e, f, side)
                                  /\ Start(f, other) < End(e, other) /\ Start(e, other) < End(f, other)}
Touching(e, side) ==
    LET other == Across(AxisOf(side))
    IN  {f \in EntriesIn(shown) : /\ Facing(e, f, side)
                                  /\ Start(f, other) <= End(e, other) /\ Start(e, other) <= End(f, other)}

\* A pane one cell wide at the right edge, or one cell high at the lower edge: the code does not look
\* for it (see the README).
LastCell(f, side) ==
    LET axis == AxisOf(side)
    IN  ~IsPrior(side) /\ Start(f, axis) = Dim(size, axis) - 1

\* Navigation finds the panes beside the active one: if there is one, it neither stays nor wraps around,
\* it goes to a pane that touches the active one on that side, and no pane beside it was
\* active more recently.
NavigateReaches ==
    (Running /\ IsShown(shown, Active)) =>
        \A side \in Sides :
            LET e == EntryOf(shown, Active)
                near == {f \in Beside(e, side) : ~LastCell(f, side)}
                p == Destination(side, FALSE)
                rank(q) == SelectInSeq(recency, LAMBDA r : r = q)
            IN  /\ p # NoPane => \E f \in Touching(e, side) : f.pane = p
                /\ near # {} => /\ p # NoPane /\ Destination(side, TRUE) = p
                                /\ \A f \in near : rank(p) <= rank(f.pane)

\* Nothing changes the order of the panes: a removal takes one out, a failed split leaves even the groups
\* as they were, and a new pane stands right after the active one, beside it in the direction of
\* the split, as high or wide as it is.
OrderKept ==
    [][LET old == Order(tree)
           new == Order(tree')
       IN  \/ Shape(tree) = Shape(tree')
           \/ \E p \in Range(old) : new = Remove(old, p)
           \/ \E p \in Range(new) : 
                LET e == EntryOf(shown', Active)
                    f == EntryOf(shown', p)
                    axis == GroupAt(tree', Front(PathTo(tree', p))).dir
                IN  /\ old = Remove(new, p) /\ new[SelectInSeq(new, LAMBDA q : q = p) - 1] = Active
                    /\ AddPane(p, axis)
                    /\ Start(f, axis) = End(e, axis) + 1
                    /\ Start(f, Across(axis)) = Start(e, Across(axis))
                    /\ End(f, Across(axis)) = End(e, Across(axis))]_vars

\* A resize by some cells moves the border by that many or more, in the direction asked for, or until the
\* side that gives has no share left ("slightly under-estimate the available size to ensure we
\* round up"), and no pane but those on its two sides moves or changes size.
Moves(p, side, amount) ==
    \A b \in Borders(p, side) :
        LET axis == AxisOf(side)
            kid(l, i) == GroupAt(l, b.at).kids[i]
            line(l) == Start(kid(l, Max({b.i, b.j})), axis)
            by == IF IsPrior(side) THEN line(shown) - line(shown') ELSE line(shown') - line(shown)
            moved == Range(Order(kid(shown, b.i))) \cup Range(Order(kid(shown, b.j)))
        IN  /\ IF amount > 0 THEN by >= amount \/ kid(tree', b.j).share = 0
               ELSE by <= amount \/ kid(tree', b.i).share = 0
            /\ \A e \in EntriesIn(shown) : e.pane \in moved \/ e \in EntriesIn(shown')

ResizeMoves ==
    [][(~stale /\ fault' = "none" /\ changes' # changes /\ recency' = recency) =>
        \A side \in Sides :
            /\ \A amount \in Amounts : ResizePane(side, amount) => Moves(Active, side, amount)
            /\ \A e \in EntriesIn(shown) : Drag(e, side) => Moves(e.pane, side, -1)]_vars

\* "We need at least 1 cell for each child, and N - 1 cells for the box drawing separator between panes"
\* (layout.cpp:544): a group that has just that is laid out, too.
ExactFitLaidOut == fault # "exact_fit"
=============================================================================
