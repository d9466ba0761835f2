----------------------------- MODULE ListWindow -----------------------------
(***************************************************************************)
(* One windowed list of thread-glance's sidebar (components/ItemList.tsx): *)
(* its items laid out from the heights model (model/layout.ts), the rows   *)
(* mounted for the part of the list on screen and the spacers that stand   *)
(* for the others (model/windowing.ts), the view a tracker reads when an   *)
(* ancestor scrolls, resizes or opens and after every render               *)
(* (components/view-tracker.ts), and which rows a change slides            *)
(* (model/reorder.ts, components/reorder/slide.ts).                        *)
(*                                                                         *)
(* A list has an open shelf whose rows a project's group may hold and one  *)
(* that shows its first page; a card's children are in its height.  What a *)
(* render and its effects do is one step, as the browser draws nothing     *)
(* between them.                                                           *)
(***************************************************************************)
EXTENDS Integers, FiniteSets, Sequences, SequencesExt

CONSTANTS
  Rows,        \* the threads that may be rows, numbers in the order they are drawn
  Members,     \* those of one project
  Heights,     \* shelfHeader, shelfGap, groupHeader, loadMore, full, slim
  Margin,      \* VIEW_MARGIN
  JumpRows,    \* JUMP_ROWS
  FirstPage,   \* SETTLED_FIRST_PAGE
  Tops,        \* where the part on screen may start, from the list's top
  Screens,     \* how tall it may be, 0 for a closed drawer
  MaxChanges   \* bound: changes of the list

WindowAssumption ==
  /\ Rows \subseteq Nat /\ 0 \notin Rows /\ Members \subseteq Rows
  /\ Margin \in Nat /\ JumpRows \in Nat /\ FirstPage \in Nat /\ MaxChanges \in Nat

VARIABLES
  model,      \* what the list draws, see ModelOf
  screen,     \* the part of the list that is on screen
  moved,      \* it moved and the event has not arrived
  up,         \* the list is mounted
  view,       \* the tracker's view
  drawn,      \* what the last render laid out: the items, the mounted ones and the range that told
  places,     \* the place of each mounted row
  slid,       \* the rows the last change slid
  changes     \* how often the list changed

windowVars == <<model, screen, moved, up, view, drawn, places, slid, changes>>

-----------------------------------------------------------------------------
(***************************************************************************)
(* The items.                                                              *)
(***************************************************************************)
Header(kind, key, closed, headers) == [kind |-> kind, key |-> key, row |-> 0, closed |-> closed, headers |-> headers]
RowItem(r, headers) == [kind |-> "row", key |-> "row", row |-> r, closed |-> FALSE, headers |-> headers]
More == [kind |-> "more", key |-> "more", row |-> 0, closed |-> FALSE, headers |-> {}]

\* The shelf of each row ("none" while it is no row), the full cards, the closed shelves and
\* groups, the Project sort, the open thread's row and the dragged one (0 for none), and
\* whether Load more was used.
ModelOf(sort) ==
  [shelf |-> [r \in Rows |-> "active"], full |-> {}, collapsed |-> {}, grouped |-> sort,
   open |-> 0, dragged |-> 0, paged |-> FALSE]
Kept(m) == {m.open, m.dragged} \ {0}
On(m, s) == SetToSortSeq({r \in Rows : m.shelf[r] = s}, <)

\* itemsFor: a shelf's header and its rows, Active's by project under a group's header.
ActiveItems(m) ==
  LET rows == On(m, "active")
      inside == SelectSeq(rows, LAMBDA r : r \in Members)
      shown == SelectSeq(inside, LAMBDA r : {"active", "group"} \cap m.collapsed = {} \/ r = m.open)
      GroupItems ==
        IF "active" \in m.collapsed /\ shown = <<>> THEN <<>>
        ELSE <<Header("group", "group", "group" \in m.collapsed, {"active"})>>
             \o [i \in DOMAIN shown |-> RowItem(shown[i], {"active", "group"})]
      Of(r) ==
        IF m.grouped /\ Len(inside) > 1 /\ r \in Members THEN IF r = Head(inside) THEN GroupItems ELSE <<>>
        ELSE IF "active" \notin m.collapsed \/ r = m.open THEN <<RowItem(r, {"active"})>> ELSE <<>>
  IN IF rows = <<>> THEN <<>>
     ELSE <<Header("shelf", "active", "active" \in m.collapsed, {})>> \o FlattenSeq([i \in DOMAIN rows |-> Of(rows[i])])
SettledItems(m) ==
  LET rows == On(m, "settled")
      closed == "settled" \in m.collapsed
      page == IF closed \/ m.paged \/ Len(rows) <= FirstPage THEN rows ELSE SubSeq(rows, 1, FirstPage)
      shown == SelectSeq(page, LAMBDA r : ~closed \/ r = m.open)
  IN IF rows = <<>> THEN <<>>
     ELSE <<Header("shelf", "settled", closed, {})>>
          \o [i \in DOMAIN shown |-> RowItem(shown[i], {"settled"})]
          \o (IF Len(page) < Len(rows) THEN <<More>> ELSE <<>>)
Items(m) == ActiveItems(m) \o SettledItems(m)

\* layoutItems: every shelf header but the first has the gap above it.
SizeOf(items, full, i) ==
  CASE items[i].kind = "shelf" -> Heights.shelfHeader + (IF i > 1 THEN Heights.shelfGap ELSE 0)
    [] items[i].kind = "group" -> Heights.groupHeader
    [] items[i].kind = "more" -> Heights.loadMore
    [] items[i].kind = "row" -> IF items[i].row \in full THEN Heights.full ELSE Heights.slim
Layout(m) ==
  LET items == Items(m)
      start[i \in 1..(Len(items) + 1)] ==
        IF i = 1 THEN 0 ELSE LET above == start[i - 1] IN above + SizeOf(items, m.full, i - 1)
  IN [i \in DOMAIN items |-> [item |-> items[i], start |-> start[i], end |-> start[i + 1]]]

-----------------------------------------------------------------------------
(***************************************************************************)
(* The items mounted.                                                      *)
(***************************************************************************)
NoView == [top |-> 0, height |-> -1]
NoRange == [first |-> 1, last |-> 0]

\* The first index of 1..n + 1 that is not before what is looked for.
Bisect(n, IsBefore(_)) ==
  LET between[low \in 1..(n + 1), high \in 1..(n + 1)] ==
        IF low >= high THEN low
        ELSE LET middle == (low + high) \div 2
             IN IF IsBefore(middle) THEN between[middle + 1, high] ELSE between[low, middle]
  IN between[1, n + 1]

\* itemsBetween.
ItemsBetween(laid, top, bottom) ==
  LET first == Bisect(Len(laid), LAMBDA i : laid[i].end <= top)
      last == Bisect(Len(laid), LAMBDA i : laid[i].start < bottom) - 1
  IN IF laid = <<>> \/ bottom <= top \/ first > last THEN NoRange ELSE [first |-> first, last |-> last]
RangeOf(laid, v) == IF v = NoView THEN NoRange ELSE ItemsBetween(laid, v.top - Margin, v.top + v.height + Margin)

\* keptIndexes: the rows bb's jump keys reach, and those that stay wherever the list is.
KeptIndexes(laid, kept) ==
  LET rows == {i \in DOMAIN laid : laid[i].item.kind = "row"}
  IN {i \in rows : Cardinality({j \in rows : j < i}) < JumpRows} \cup {i \in rows : laid[i].item.row \in kept}

\* A render: the layout, the range, and the items it mounts; a header or Load more always is.
Render(laid, kept, v) ==
  LET range == RangeOf(laid, v)
  IN [laid |-> laid, range |-> range,
      mounted |-> KeptIndexes(laid, kept) \cup (range.first..range.last)
                  \cup {i \in DOMAIN laid : laid[i].item.kind # "row"}]

\* What stands in the list, top to bottom: an item, or a spacer for a run of rows.
Content(d) ==
  FoldLeft(LAMBDA pieces, i :
             LET size == d.laid[i].end - d.laid[i].start
             IN IF i \in d.mounted THEN Append(pieces, [at |-> i, height |-> size, rows |-> <<>>])
                ELSE IF pieces # <<>> /\ Last(pieces).at = 0
                     THEN [pieces EXCEPT ![Len(pieces)].height = @ + size, ![Len(pieces)].rows = Append(@, d.laid[i].item.row)]
                     ELSE Append(pieces, [at |-> 0, height |-> size, rows |-> <<d.laid[i].item.row>>]),
           <<>>, [i \in DOMAIN d.laid |-> i])
TopOf(pieces, n) == FoldLeft(LAMBDA y, piece : y + piece.height, 0, SubSeq(pieces, 1, n - 1))

-----------------------------------------------------------------------------
(***************************************************************************)
(* The rows that slide.                                                    *)
(***************************************************************************)
LastHeader(item) == IF "group" \in item.headers THEN "group" ELSE CHOOSE s \in item.headers : TRUE

\* rowPlaces: each mounted row's header, its top and its top from the header's.
PlacesOf(d) ==
  LET Of(i) ==
        LET item == d.laid[i].item
            head == CHOOSE h \in DOMAIN d.laid : d.laid[h].item.key = LastHeader(item)
        IN [row |-> item.row, header |-> LastHeader(item), top |-> d.laid[i].start, below |-> d.laid[i].start - d.laid[head].start]
  IN {Of(i) : i \in {j \in d.mounted : d.laid[j].item.kind = "row"}}

\* isToggleOnly: what came or went is under a header that opened or closed, or is only
\* headers of groups around rows that stay where they were.
UnderToggledHeader(item, toggled) == LastHeader(item) \in toggled    \* mutant: the innermost header alone
UnderToggled(item, toggled) == item.headers \cap toggled # {}
Named(items) == [i \in DOMAIN items |-> <<items[i].key, items[i].row>>]
Placed(items) ==
  LET rows == SelectSeq(items, LAMBDA item : item.kind = "row")
  IN [i \in DOMAIN rows |-> <<rows[i].row, rows[i].headers \ {"group"}>>]
IsToggleOnly(before, after) ==
  LET Without(a, b) == {item \in ToSet(a) : <<item.key, item.row>> \notin ToSet(Named(b))}
      changed == Without(before, after) \cup Without(after, before)
      toggled == {a.key : a \in {x \in ToSet(after) : x.kind \in {"shelf", "group"}
                                   /\ \E y \in ToSet(before) : y.key = x.key /\ y.closed # x.closed}}
  IN \/ changed # {} /\ (\A item \in changed : item.kind = "group") /\ Placed(before) = Placed(after)
     \/ /\ toggled # {}
        /\ \A item \in changed : item.kind = "more" \/ (item.kind # "shelf" /\ UnderToggled(item, toggled))

\* slideDelta: a row slides by what its header did not carry it.
Slides(was, now) ==
  was.row = now.row /\ (IF was.header = now.header THEN was.below # now.below ELSE was.top # now.top)
Slid(before, d) ==
  LET ItemsOf(laid) == [i \in DOMAIN laid |-> laid[i].item]
      old == ItemsOf(before.laid)
      new == ItemsOf(d.laid)
  IN IF Named(old) = Named(new) \/ IsToggleOnly(old, new) THEN {}
     ELSE {now.row : now \in {p \in PlacesOf(d) : \E was \in places : Slides(was, p)}}

-----------------------------------------------------------------------------
(***************************************************************************)
(* The list and its tracker.                                               *)
(***************************************************************************)
NoDrawing == [laid |-> <<>>, range |-> NoRange, mounted |-> {}]

WindowInit ==
  /\ model \in {ModelOf(sort) : sort \in BOOLEAN}
  /\ screen \in [top : Tops, height : Screens] /\ moved = FALSE
  /\ up = FALSE /\ view = NoView /\ drawn = NoDrawing /\ places = {} /\ slid = {} /\ changes = 0

\* ViewTracker.update: the list renders again when the range did change.
Looked(d, next, kept) == IF next # view /\ RangeOf(d.laid, next) # d.range THEN Render(d.laid, kept, next) ELSE d

\* The list's first render knows no view; its effects read it.
Mount ==
  /\ ~up
  /\ up' = TRUE /\ view' = screen /\ moved' = FALSE
  /\ drawn' = Looked(Render(Layout(model), Kept(model), NoView), screen, Kept(model))
  /\ places' = PlacesOf(drawn') /\ slid' = {}
  /\ UNCHANGED <<model, screen, changes>>
Unmount ==
  /\ up
  /\ up' = FALSE /\ view' = NoView /\ drawn' = NoDrawing /\ places' = {} /\ slid' = {} /\ moved' = FALSE
  /\ UNCHANGED <<model, screen, changes>>

\* A scroll, a resize or a drawer, and the event that tells of it.
Move ==
  /\ up
  /\ screen' \in [top : Tops, height : Screens] \ {screen}
  /\ moved' = TRUE
  /\ UNCHANGED <<model, up, view, drawn, places, slid, changes>>
Hear ==
  /\ moved
  /\ moved' = FALSE /\ view' = screen
  /\ drawn' = Looked(drawn, screen, Kept(model))
  /\ places' = PlacesOf(drawn')
  /\ UNCHANGED <<model, screen, up, slid, changes>>

\* mutant: the view is not read again after the items changed
RenderedUnlooked(m) ==
  /\ model' = m
  /\ up /\ changes < MaxChanges
  /\ changes' = changes + 1
  /\ screen' \in {s \in [top : Tops, height : Screens] : s.height = screen.height}
  /\ drawn' = Render(Layout(m), Kept(m), view)
  /\ slid' = Slid(drawn, drawn')
  /\ UNCHANGED <<view, moved, up>>
  /\ places' = PlacesOf(drawn')

\* The list renders for its new items or kept rows under the view it had, slides what
\* moved, and reads the view: what is above the list, or its own size, may have moved it.
Rendered(m) ==
  /\ model' = m
  /\ up /\ changes < MaxChanges
  /\ changes' = changes + 1
  /\ LET first == Render(Layout(m), Kept(m), view)
     IN /\ slid' = Slid(drawn, first)
        /\ screen' \in {s \in [top : Tops, height : Screens] : s.height = screen.height}
        /\ drawn' = Looked(first, screen', Kept(m))
  /\ view' = screen' /\ moved' = FALSE
  /\ places' = PlacesOf(drawn')
  /\ UNCHANGED up
Toggle(h) == [model EXCEPT !.collapsed = IF h \in @ THEN @ \ {h} ELSE @ \cup {h}]
Place(r, s) == [model EXCEPT !.shelf[r] = s]
Redraw(r) == [model EXCEPT !.full = IF r \in @ THEN @ \ {r} ELSE @ \cup {r}]
Sort == [model EXCEPT !.grouped = ~@]
LoadMore == [model EXCEPT !.paged = TRUE]
Open(r) == [model EXCEPT !.open = r]
Drag(r) == [model EXCEPT !.dragged = r]
Changed ==
  {Sort, LoadMore} \cup {Toggle(h) : h \in {"active", "group", "settled"}}
  \cup {Redraw(r) : r \in Rows} \cup {Open(r) : r \in Rows} \cup {Drag(r) : r \in Rows}
  \cup {Place(r, s) : r \in Rows, s \in {"active", "settled", "none"}}

WindowNext ==
  \/ Mount \/ Unmount \/ Move \/ Hear
  \/ \E m \in Changed \ {model} : Rendered(m)

WindowSpec == WindowInit /\ [][WindowNext]_windowVars

-----------------------------------------------------------------------------
(***************************************************************************)
(* Properties.                                                             *)
(***************************************************************************)
\* Whatever changed, scrolled or opened, once its event has arrived every item that shows on
\* screen is mounted, as are the rows the jump keys reach and the open and the dragged one;
\* each stands where the layout says, and the spacers name every other row in its order.
ListStands ==
  up /\ ~moved =>
    LET pieces == Content(drawn)
        Rowed(piece) == IF piece.at = 0 THEN piece.rows ELSE SelectSeq(<<drawn.laid[piece.at].item.row>>, LAMBDA r : r # 0)
    IN /\ \A i \in DOMAIN drawn.laid :
            (drawn.laid[i].start < screen.top + screen.height /\ screen.top < drawn.laid[i].end) => i \in drawn.mounted
       /\ KeptIndexes(drawn.laid, Kept(model)) \subseteq drawn.mounted
       /\ \A n \in DOMAIN pieces : pieces[n].at # 0 => TopOf(pieces, n) = drawn.laid[pieces[n].at].start
       /\ FlattenSeq([n \in DOMAIN pieces |-> Rowed(pieces[n])])
            = SelectSeq([i \in DOMAIN drawn.laid |-> drawn.laid[i].item.row], LAMBDA r : r # 0)

\* Opening or closing a shelf or a group slides no row, though the rows kept in a closed one
\* and those below it all move.
TogglesSlideNothing == model'.collapsed # model.collapsed => slid' = {}
=============================================================================
