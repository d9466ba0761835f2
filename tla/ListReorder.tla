---------------------------- MODULE ListReorder ----------------------------
(***************************************************************************)
(* Reordering Active (features/thread-list/commands/reorder.ts): a drag's  *)
(* preview, which the list follows while threads come and go (list-model,  *)
(* list-store), the keyboard move, and the optimistic write with its       *)
(* rollback, while the server's order changes by other windows, threads    *)
(* created and threads gone, and its signals are under way.                *)
(*                                                                         *)
(* Active is taken to hold every thread there is; Pinned, whose order is   *)
(* bb's, and the groups of one worktree are left out.  The order's record  *)
(* and its versions are RecordSync's; here a signal arrives at any time,   *)
(* and none is lost.                                                       *)
(*                                                                         *)
(* A thread is a number, and a greater one was created later.  A unit is a *)
(* thread, or a project's group under the group's own number.              *)
(***************************************************************************)
EXTENDS Integers, Sequences, SequencesExt, FiniteSets

CONSTANTS
  Threads,     \* the threads there can be
  Project,     \* each thread's project
  Group,       \* each project's group key, a number no thread has
  MaxOrders,   \* bound: changes of the server's order
  MaxWrites    \* bound: reorders this window writes

ReorderAssumption ==
  /\ Threads \subseteq Nat /\ IsFiniteSet(Threads)
  /\ \A t \in Threads : Group[Project[t]] \in Nat \ Threads
  /\ MaxOrders \in Nat /\ MaxWrites \in Nat

-----------------------------------------------------------------------------
(***************************************************************************)
(* The rules: the manual order and what changes it (manual-order.ts), the  *)
(* units a drag or a key moves (model/reorder.ts) and Active grouped by    *)
(* project (model/ordering.ts).                                            *)
(***************************************************************************)
NewestFirst(threads) == SetToSortSeq(threads, >)

InsertAtTop(order, ids) == SelectSeq(ids, LAMBDA t : t \notin ToSet(order)) \o order

\* The places the members held are refilled with them in the new sequence.
ApplySubsetAtTop(order, subset) ==    \* mutant: the members go to the top
  SelectSeq(subset, LAMBDA t : t \in ToSet(order)) \o SelectSeq(order, LAMBDA t : t \notin ToSet(subset))
ApplySubsetOrder(order, subset) ==
  LET members == ToSet(subset) \cap ToSet(order)
      sequence == SelectSeq(subset, LAMBDA t : t \in members)
      place(i) == Cardinality({j \in 1..i : order[j] \in members})
  IN [i \in DOMAIN order |-> IF order[i] \in members THEN sequence[place(i)] ELSE order[i]]

ReconcileOrder(order, live) ==
  NewestFirst(live \ ToSet(order)) \o SelectSeq(order, LAMBDA t : t \in live)
SortByManualOrder(threads, order) == ReconcileOrder(order, threads)

OrderAfterReorder(order, subset) == ApplySubsetOrder(InsertAtTop(order, subset), subset)

\* moveKeyTo and moveByOne: the keys with one moved.
MoveKeyTo(keys, key, index) ==
  IF key \notin ToSet(keys) THEN keys
  ELSE LET to == IF index < 1 THEN 1 ELSE IF index > Len(keys) THEN Len(keys) ELSE index
       IN InsertAt(SelectSeq(keys, LAMBDA k : k # key), to, key)
MoveByOne(keys, key, direction) ==
  LET from == CHOOSE i \in DOMAIN keys : keys[i] = key
  IN IF key \notin ToSet(keys) \/ from + direction \notin DOMAIN keys THEN keys
     ELSE MoveKeyTo(keys, key, from + direction)

\* afterHover: the dragged unit takes the place of the one it enters; beyond either end of
\* the list it is put first or last.
AfterHover(keys, dragged, over) == MoveKeyTo(keys, dragged, over)

\* followKeys: the units in the keys' order, those the keys do not name last.
FollowNamed(units, keys) == SelectSeq(keys, LAMBDA k : k \in ToSet(units))    \* mutant: the unnamed go
FollowKeys(units, keys) ==
  SelectSeq(keys, LAMBDA k : k \in ToSet(units)) \o SelectSeq(units, LAMBDA u : u \notin ToSet(keys))

\* groupByProject: a project with two threads or more is one unit, where its first thread is.
InProject(threads, p) == SelectSeq(threads, LAMBDA t : Project[t] = p)
UnitOf(threads, t) == IF Len(InProject(threads, Project[t])) < 2 THEN t ELSE Group[Project[t]]
Units(threads, grouped) ==
  LET units == [i \in DOMAIN threads |-> IF grouped THEN UnitOf(threads, threads[i]) ELSE threads[i]]
      first(i) == \A j \in 1..(i - 1) : units[j] # units[i]
      firsts == SetToSortSeq({i \in DOMAIN units : first(i)}, <)
  IN [n \in DOMAIN firsts |-> units[firsts[n]]]
\* The threads of a unit, and of units in turn: memberThreads, flattenEntries and idsOfUnits.
IdsOf(threads, unit) == SelectSeq(threads, LAMBDA t : t = unit \/ Group[Project[t]] = unit)
IdsOfUnits(threads, units) == FlattenSeq([i \in DOMAIN units |-> IdsOf(threads, units[i])])

-----------------------------------------------------------------------------
VARIABLES
  live,      \* the threads bb lists, here as in the server
  server,    \* the server's order and its version
  heard,     \* the newest order the plugin's data holds
  order,     \* the order the list is drawn from
  pending,   \* the order as a reorder wrote it, until the answer; NoKeys when none
  calls,     \* the writes under way, by number, and what the server answered each
  written,   \* how many writes there were
  drag,      \* the list and the dragged unit, its list's keys when it began and as the pointer has put them
  press,     \* what the pointer pressed, and whether it drags
  grouped,   \* the Project sort
  news,      \* the versions whose signals have not arrived
  frame,     \* a signal waits for the animation frame
  lists      \* history: every order the server has had, by version

reorderVars == <<live, server, heard, order, pending, calls, written, drag, press, grouped, news, frame, lists>>

NoKeys == <<0>>
NoDrag == [list |-> 0, unit |-> 0, origin |-> <<>>, keys |-> <<>>]
NoPress == [list |-> 0, unit |-> 0, dragging |-> FALSE]
NoAnswer == [value |-> NoKeys, version |-> 0]
Active == Group[0]

ReorderInit ==
  /\ live = {t \in Threads : t > 1}
  /\ server = [value |-> NewestFirst(live), version |-> 1]
  /\ heard = server /\ order = server.value /\ pending = NoKeys
  /\ calls = <<>> /\ written = 0
  /\ drag = NoDrag /\ press = NoPress /\ grouped \in BOOLEAN
  /\ news = {} /\ frame = FALSE
  /\ lists = <<server.value>>

-----------------------------------------------------------------------------
(***************************************************************************)
(* The list as drawn.                                                      *)
(***************************************************************************)
SortedOf(threads) == SortByManualOrder(threads, IF pending = NoKeys THEN order ELSE pending)
Sorted == SortedOf(live)

\* buildModel's reorder lists: Active's units, and the threads of each group.
ListUnits(list, threads) ==
  IF list = Active THEN Units(threads, grouped)
  ELSE IF list \in ToSet(Units(threads, grouped)) THEN IdsOf(threads, list)
  ELSE <<>>
\* A dragged list's units are in the preview's order.
UnitsOf(list) == LET units == ListUnits(list, Sorted) IN IF drag.list = list THEN FollowKeys(units, drag.keys) ELSE units
ReorderLists == {Active} \cup {u \in ToSet(UnitsOf(Active)) : u \notin Threads}
Drawn ==
  LET units == UnitsOf(Active)
  IN FlattenSeq([i \in DOMAIN units |-> IF units[i] \in Threads THEN <<units[i]>> ELSE UnitsOf(units[i])])

\* commit: a drag whose unit is no longer in its list ends.
DragAmong(threads) == IF drag.unit \in ToSet(ListUnits(drag.list, SortedOf(threads))) THEN drag ELSE NoDrag

-----------------------------------------------------------------------------
(***************************************************************************)
(* The server's order.                                                     *)
(***************************************************************************)
Put(value) ==
  IF value = server.value THEN UNCHANGED <<server, news, lists>>
  ELSE /\ server' = [value |-> value, version |-> server.version + 1]
       /\ news' = news \cup {server'.version}
       /\ lists' = Append(lists, value)

CanPut == server.version <= MaxOrders

\* Another window's reorder.
ReorderElsewhere ==
  /\ CanPut
  /\ \E a, b \in live : a < b /\ Put(ApplySubsetOrder(server.value, <<a, b>>))
  /\ UNCHANGED <<live, heard, order, pending, calls, written, drag, press, grouped, frame>>

\* A thread created goes to the top; one archived or deleted leaves the order.
ThreadComes(t) ==
  /\ CanPut /\ t \notin live
  /\ live' = live \cup {t}
  /\ Put(InsertAtTop(server.value, <<t>>))
  /\ drag' = DragAmong(live')
  /\ UNCHANGED <<heard, order, pending, calls, written, press, grouped, frame>>
ThreadGoes(t) ==
  /\ CanPut /\ t \in live
  /\ live' = live \ {t}
  /\ Put(SelectSeq(server.value, LAMBDA u : u # t))
  /\ drag' = DragAmong(live')
  /\ UNCHANGED <<heard, order, pending, calls, written, press, grouped, frame>>

\* orderSignal: the newer of what is held and what came; the list takes it with the next frame.
Newer(a, b) == IF b.version > a.version THEN b ELSE a
Hear(v) ==
  /\ v \in news
  /\ news' = news \ {v}
  /\ heard' = Newer(heard, [value |-> lists[v], version |-> v])
  /\ frame' = (frame \/ heard' # heard)
  /\ UNCHANGED <<live, server, order, pending, calls, written, drag, press, grouped, lists>>
Frame ==
  /\ frame
  /\ frame' = FALSE
  /\ order' = heard.value
  /\ UNCHANGED <<live, server, heard, pending, calls, written, drag, press, grouped, news, lists>>

-----------------------------------------------------------------------------
(***************************************************************************)
(* The commands.                                                           *)
(***************************************************************************)
\* write: the order is taken as written until the server answers.
Write(list, keys) ==
  LET ids == IdsOfUnits(Drawn, SelectSeq(keys, LAMBDA k : k \in ToSet(UnitsOf(list))))
  IN /\ written < MaxWrites
     /\ written' = written + 1
     /\ pending' = OrderAfterReorder(IF pending = NoKeys THEN order ELSE pending, ids)
     /\ calls' = Append(calls, [ids |-> ids, step |-> "sent", answer |-> NoAnswer])
     /\ drag' = NoDrag
     /\ UNCHANGED <<live, server, heard, order, grouped, news, frame, lists>>

\* The pointer: a press on a unit, its move, which may begin the drag, its release, and
\* what abandons the drag: Escape, the window left or resized.
pointerOnly == <<live, server, heard, order, pending, calls, written, grouped, news, frame, lists>>
PointerDown(list, unit) ==
  /\ press = NoPress /\ written < MaxWrites
  /\ press' = [list |-> list, unit |-> unit, dragging |-> FALSE]
  /\ UNCHANGED <<drag, pointerOnly>>
BeginDrag ==
  /\ press # NoPress /\ ~press.dragging
  /\ LET units == ListUnits(press.list, Sorted)
     IN IF press.unit \in ToSet(units)
        THEN /\ drag' = [list |-> press.list, unit |-> press.unit, origin |-> units, keys |-> units]
             /\ press' = [press EXCEPT !.dragging = TRUE]
        ELSE press' = NoPress /\ drag' = drag
  /\ UNCHANGED pointerOnly
HoverDrag(over) ==
  /\ drag # NoDrag /\ press.dragging
  /\ drag' = [drag EXCEPT !.keys = AfterHover(@, drag.unit, over)]
  /\ drag' # drag
  /\ UNCHANGED <<press, pointerOnly>>
Abandon ==
  /\ press # NoPress
  /\ press' = NoPress /\ drag' = NoDrag
  /\ UNCHANGED pointerOnly
EndDrag ==
  /\ press # NoPress
  /\ press' = NoPress
  /\ IF press.dragging /\ drag # NoDrag /\ drag.keys # drag.origin
     THEN Write(drag.list, drag.keys)
     ELSE drag' = NoDrag /\ UNCHANGED pointerOnly
MoveByKey(list, unit, direction) ==
  /\ written < MaxWrites
  /\ MoveByOne(UnitsOf(list), unit, direction) # UnitsOf(list)
  /\ Write(list, MoveByOne(UnitsOf(list), unit, direction))
  /\ UNCHANGED press

\* The reorder request, and its answer in any order.
Answers(n) ==
  /\ calls[n].step = "sent"
  /\ Put(ApplySubsetOrder(server.value, calls[n].ids))
  /\ calls' = [calls EXCEPT ![n].step = "answered", ![n].answer = server']
  /\ UNCHANGED <<live, heard, order, pending, written, drag, press, grouped, frame>>
Others(n) == {m \in DOMAIN calls \ {n} : calls[m].step \in {"sent", "answered"}}
TakeAnswer(n) ==
  /\ calls[n].step = "answered"
  /\ calls' = [calls EXCEPT ![n] = [ids |-> <<>>, step |-> "done", answer |-> NoAnswer]]
  /\ heard' = Newer(heard, calls[n].answer)
  /\ frame' = (frame \/ heard' # heard)
  /\ IF Others(n) = {} THEN order' = calls[n].answer.value /\ pending' = NoKeys
     ELSE UNCHANGED <<order, pending>>
  /\ UNCHANGED <<live, server, written, drag, press, grouped, news, lists>>
Fails(n) ==
  /\ calls[n].step \in {"sent", "answered"}
  /\ calls' = [calls EXCEPT ![n] = [ids |-> <<>>, step |-> "done", answer |-> NoAnswer]]
  /\ pending' = IF Others(n) = {} THEN NoKeys ELSE pending
  /\ UNCHANGED <<live, server, heard, order, written, drag, press, grouped, news, frame, lists>>

ReorderNext ==
  \/ ReorderElsewhere \/ Frame \/ BeginDrag \/ Abandon \/ EndDrag
  \/ \E t \in Threads : ThreadComes(t) \/ ThreadGoes(t)
  \/ \E v \in news : Hear(v)
  \/ \E list \in ReorderLists : \E unit \in ToSet(UnitsOf(list)) :
       PointerDown(list, unit) \/ MoveByKey(list, unit, -1) \/ MoveByKey(list, unit, 1)
  \/ \E over \in 0..(Len(drag.keys) + 1) : HoverDrag(over)
  \/ \E n \in DOMAIN calls : Answers(n) \/ TakeAnswer(n) \/ Fails(n)

ReorderSpec == ReorderInit /\ [][ReorderNext]_reorderVars

-----------------------------------------------------------------------------
\* Whatever is dragged, and however threads come and go meanwhile, the list draws every
\* thread of Active once, and a drag is of a unit its list has.
DrawsEachOnce ==
  /\ Len(Drawn) = Cardinality(live) /\ ToSet(Drawn) = live
  /\ drag # NoDrag => drag.list \in ReorderLists /\ drag.unit \in ToSet(UnitsOf(drag.list))

\* A reorder, here as in the server, moves only the threads of its list: every other
\* thread keeps its place, so one that comes back to Active lands in its old slot.
Moved(before, after, ids) ==
  \A i \in DOMAIN before : before[i] \notin ToSet(ids) => i \in DOMAIN after /\ after[i] = before[i]
OthersKeepTheirPlaces ==
  \A n \in DOMAIN calls : calls[n].step = "sent" /\ calls'[n].step = "answered" =>
       Moved(server.value, server'.value, calls[n].ids)

=============================================================================
