---------------------------- MODULE SettlePins -----------------------------
(***************************************************************************)
(* Settle and its Undo, with bb's pins: a settle takes the pins of its     *)
(* tree one at a time, reads bb again, and settles the tree, waits or      *)
(* refuses; then the pins go back to their places.  The settle's token     *)
(* lets one Undo give back the marks and the pins nothing changed since    *)
(* (server/actions.ts: settle, restorePins, rememberSettle, undoSettle;    *)
(* server/threads.ts: pinnedInOrder and the gateway).                      *)
(*                                                                         *)
(* The server runs its changes one at a time, and bb changes between any   *)
(* two calls.  A listing is taken in the step that reads its answer.  A    *)
(* pin has bb's order key, 0 while it was never reordered, and the time it *)
(* was pinned.  bb puts a thread in front of the next neighbour it is told *)
(* of, or after the one before when the next is not pinned, and gives the  *)
(* pins new keys.  A wait's end is WaitingSettle's, what ends a mark       *)
(* Marks'.                                                                 *)
(***************************************************************************)
EXTENDS Integers, Sequences, SequencesExt, FiniteSets

CONSTANTS
  Threads,       \* the threads; a child has a greater number than its parent
  NoThread,      \* no neighbour and no parent, a number no thread has
  Starts,        \* bound: the parents and the pin order bb has at first
  UndoFor,       \* how long Undo stays available
  MaxUndos,      \* how many settles the server remembers
  MaxSettles,    \* bound: how many settles there are
  MaxElsewhere,  \* bound: how often bb or another change acts
  MaxFailures,   \* bound: how many calls to bb fail
  MaxTime        \* bound: how far the server's clock goes

PinsAssumption ==
  /\ Threads \subseteq Nat \ {0} /\ NoThread = 0
  /\ {UndoFor, MaxUndos, MaxSettles, MaxElsewhere, MaxFailures, MaxTime} \subseteq Nat

VARIABLES
  bb,         \* bb's threads: parents, pins, which are busy, which ask, and how often each drew attention
  rows,       \* the lifecycle rows, each with the number of the write that made it
  job,        \* the change that runs
  reclaiming, \* the settles whose reclaim runs
  undos,      \* the settles whose token is held
  pressed,    \* the undos pressed that wait for their turn
  lastSettleAt,
  time,       \* the server's clock
  used        \* how many settles, acts elsewhere, faults and writes there were

pinVars == <<bb, rows, job, reclaiming, undos, pressed, lastSettleAt, time, used>>

-----------------------------------------------------------------------------
(***************************************************************************)
(* bb's pins.                                                              *)
(***************************************************************************)
Unpinned == [key |-> 0, at |-> 0]
IsPinned(b, t) == b.pin[t] # Unpinned
PinnedInOrder(b) ==
  LET before(t, u) ==
        LET p == b.pin[t]
            q == b.pin[u]
        IN CASE p.key # 0 /\ q.key # 0 -> p.key < q.key
             [] p.key # 0 /\ q.key = 0 -> TRUE
             [] p.key = 0 /\ q.key # 0 -> FALSE
             [] OTHER -> p.at > q.at
  IN SetToSortSeq({t \in Threads : IsPinned(b, t)}, before)

NextPin(b) == 1 + Cardinality({t \in Threads : IsPinned(b, t)}) + time * Cardinality(Threads)
Pin(b, t) == IF IsPinned(b, t) THEN b ELSE [b EXCEPT !.pin[t] = [key |-> 0, at |-> NextPin(b)]]
Unpin(b, t) == [b EXCEPT !.pin[t] = Unpinned]

\* reorderPinned: NoThread is an end; a neighbour that is not pinned says nothing.
ReorderPinned(b, t, previous, next) ==
  LET rest == SelectSeq(PinnedInOrder(b), LAMBDA u : u # t)
      place(u) == CHOOSE i \in DOMAIN rest : rest[i] = u
      at == CASE next \in ToSet(rest) -> place(next)
              [] next \notin ToSet(rest) /\ previous \in ToSet(rest) -> place(previous) + 1
              [] OTHER -> IF previous = NoThread THEN 1 ELSE Len(rest) + 1
      order == InsertAt(rest, at, t)
  IN [b EXCEPT !.pin = [u \in Threads |->
        IF u \in ToSet(order) THEN [key |-> CHOOSE i \in DOMAIN order : order[i] = u, at |-> b.pin[u].at] ELSE Unpinned]]

\* The neighbours of t in an order of pins.
PlaceOf(order, t) == IF t \in ToSet(order) THEN CHOOSE i \in DOMAIN order : order[i] = t ELSE 0
PreviousOf(order, t) == LET i == PlaceOf(order, t) IN IF i > 1 THEN order[i - 1] ELSE NoThread
NextOf(order, t) == LET i == PlaceOf(order, t) IN IF i < Len(order) THEN order[i + 1] ELSE NoThread

\* treeIds: the thread, then everything below it.
InTree(b, root, t) ==
  LET above[n \in 0..Cardinality(Threads)] ==
        IF n = 0 THEN t ELSE LET u == above[n - 1] IN IF u = NoThread THEN NoThread ELSE b.parent[u]
  IN \E n \in DOMAIN above : above[n] = root
TreeIds(b, root) == SetToSortSeq({t \in Threads : InTree(b, root, t)}, <)

-----------------------------------------------------------------------------
(***************************************************************************)
(* Rows and jobs.                                                          *)
(***************************************************************************)
NoRow == [mark |-> "none", at |-> 0, by |-> 0]
SameRow(a, b) == a.mark = b.mark /\ a.at = b.at

\* clean: no call failed, and nothing else moved a pin, a parent or a row since its first listing;
\* and before an Undo's turn nothing else acted at all.
NoJob == [kind |-> "none", step |-> "none", root |-> NoThread, first |-> bb, before |-> rows, left |-> <<>>,
          taken |-> <<>>, current |-> bb, outcome |-> "none", entries |-> <<>>, clean |-> TRUE]
Idle == job.kind = "none"
Rest == [kind |-> "none", step |-> "none", clean |-> TRUE]

Soiled(set) == {[s EXCEPT !.clean = FALSE] : s \in set}
SoilOthers ==
  /\ reclaiming' = Soiled(reclaiming) /\ undos' = Soiled(undos) /\ pressed' = Soiled(pressed)
SoilAll == SoilOthers /\ job' = [job EXCEPT !.clean = FALSE]

Fault == used.faults < MaxFailures /\ used' = [used EXCEPT !.faults = @ + 1]

PinsInit ==
  /\ \E start \in Starts :
       bb = [parent |-> start.parent,
             pin |-> [t \in Threads |->
                        IF t \in ToSet(start.pins) THEN [key |-> CHOOSE i \in DOMAIN start.pins : start.pins[i] = t, at |-> 1] ELSE Unpinned],
             busy |-> {}, asks |-> {}, news |-> [t \in Threads |-> 0]]
  /\ rows = [t \in Threads |-> NoRow]
  /\ job = Rest
  /\ reclaiming = {} /\ undos = {} /\ pressed = {}
  /\ lastSettleAt = 0 /\ time = 1
  /\ used = [settles |-> 0, elsewhere |-> 0, faults |-> 0, writes |-> 0]

-----------------------------------------------------------------------------
(***************************************************************************)
(* Settle.                                                                 *)
(***************************************************************************)
IsBusyIn(b, t) == t \in b.busy \/ t \in b.asks

Settle(root) ==
  /\ Idle /\ used.settles < MaxSettles
  /\ LET tree == TreeIds(bb, root)
         waits == \E t \in ToSet(tree) : t \in bb.busy
     IN /\ ToSet(tree) \cap bb.asks = {}
        /\ used' = [used EXCEPT !.settles = @ + 1]
        /\ job' = [NoJob EXCEPT !.kind = "settle", !.step = "unpin", !.root = root,
                                !.left = IF waits THEN <<>> ELSE SelectSeq(tree, LAMBDA t : IsPinned(bb, t)),
                                !.outcome = IF waits THEN "waits" ELSE "none"]
  /\ SoilOthers
  /\ UNCHANGED <<bb, rows, lastSettleAt, time>>

UnpinNext ==
  /\ job.kind = "settle" /\ job.step = "unpin" /\ job.left # <<>>
  /\ \/ /\ bb' = Unpin(bb, Head(job.left))
        /\ job' = [job EXCEPT !.left = Tail(@), !.taken = Append(@, Head(job.left))]
        /\ UNCHANGED used
     \/ /\ Fault
        /\ job' = [job EXCEPT !.step = "restore", !.outcome = "refused", !.clean = FALSE]
        /\ UNCHANGED bb
  /\ UNCHANGED <<rows, reclaiming, undos, pressed, lastSettleAt, time>>

\* Whether the tree is as it was at the first listing, but for the pins taken.
SameTree(b, waited) ==
  LET tree == TreeIds(job.first, job.root)
      current == TreeIds(b, job.root)
  IN /\ Len(current) = Len(tree)
     /\ \A t \in ToSet(current) :
          /\ t \in ToSet(tree) /\ b.parent[t] = job.first.parent[t]
          /\ waited \/ (~IsPinned(b, t) /\ b.news[t] = job.first.news[t])
          /\ SameRow(rows[t], job.before[t])

\* Every settle has a time of its own: two within a millisecond, or a clock set back, would else
\* leave the same row.
SettleTimeNow == time    \* mutant: the time it is
SettleTime == IF time > lastSettleAt THEN time ELSE lastSettleAt + 1

Entry(t, at) ==
  LET order == PinnedInOrder(job.first)
  IN [id |-> t, before |-> rows[t], after |-> [mark |-> "settled", at |-> at, by |-> used.writes + 1],
      unpinned |-> t \in ToSet(job.taken), parent |-> bb.parent[t],
      previous |-> PreviousOf(order, t), next |-> NextOf(order, t)]

SecondListing ==
  /\ job.kind = "settle" /\ job.step = "unpin" /\ job.left = <<>>
  /\ LET waited == job.outcome = "waits"
         tree == TreeIds(bb, job.root)
         busy == \E t \in ToSet(tree) : IsBusyIn(bb, t)
     IN \/ \* bb does not answer, the tree changed, or a question came.
           /\ \/ /\ ~SameTree(bb, waited) \/ ToSet(tree) \cap bb.asks # {}
                 /\ job' = [job EXCEPT !.step = "restore", !.outcome = "refused"]
                 /\ UNCHANGED used
              \/ /\ Fault
                 /\ job' = [job EXCEPT !.step = "restore", !.outcome = "refused", !.clean = FALSE]
           /\ UNCHANGED <<rows, reclaiming, lastSettleAt>>
        \/ \* The tree waits: the pins go back.
           /\ SameTree(bb, waited) /\ ToSet(tree) \cap bb.asks = {} /\ (waited \/ busy)
           /\ job' = [job EXCEPT !.step = "restore", !.outcome = "waits"]
           /\ UNCHANGED <<rows, reclaiming, lastSettleAt, used>>
        \/ \* The tree is settled; its reclaim runs outside the queue of changes.
           /\ SameTree(bb, waited) /\ ~waited /\ ~busy
           /\ LET at == SettleTime
                  entries == [i \in DOMAIN tree |-> Entry(tree[i], at)]
              IN /\ lastSettleAt' = at
                 /\ used' = [used EXCEPT !.writes = @ + 1]
                 /\ rows' = [t \in Threads |-> IF t \in ToSet(tree) THEN Entry(t, at).after ELSE rows[t]]
                 /\ reclaiming' = reclaiming \cup
                      {[n |-> used.settles, root |-> job.root, entries |-> entries, until |-> 0, clean |-> job.clean,
                        first |-> job.first, before |-> job.before]}
                 /\ job' = Rest
  /\ UNCHANGED <<bb, undos, pressed, time>>

\* restorePins: a listing of its own, then the pins last taken first.
RestoreListing ==
  /\ job.kind = "settle" /\ job.step = "restore"
  /\ \/ job' = [job EXCEPT !.step = "repin", !.current = bb, !.left = Reverse(job.taken)] /\ UNCHANGED used
     \/ Fault /\ job' = [job EXCEPT !.step = "repin", !.left = <<>>, !.clean = FALSE]
  /\ UNCHANGED <<bb, rows, reclaiming, undos, pressed, lastSettleAt, time>>

MayRestore(t) ==
  \/ job.kind = "undo"
  \/ /\ ~IsPinned(job.current, t) /\ job.current.parent[t] = job.first.parent[t]
     /\ SameRow(rows[t], job.before[t])

Repin ==
  /\ ~Idle /\ job.step = "repin" /\ job.left # <<>>
  /\ LET t == Head(job.left)
     IN \/ ~MayRestore(t) /\ job' = [job EXCEPT !.left = Tail(@)] /\ UNCHANGED <<bb, used>>
        \/ MayRestore(t) /\ bb' = Pin(bb, t) /\ job' = [job EXCEPT !.step = "place"] /\ UNCHANGED used
        \/ MayRestore(t) /\ Fault /\ job' = [job EXCEPT !.left = Tail(@), !.clean = FALSE] /\ UNCHANGED bb
  /\ UNCHANGED <<rows, reclaiming, undos, pressed, lastSettleAt, time>>

\* The place among the pins of the settle's first listing.
PlacedAtEnd(b, t) == b    \* mutant: the pin is not put back in its place
Placed(b, t) ==
  IF job.kind = "settle"
  THEN LET order == PinnedInOrder(job.first) IN ReorderPinned(b, t, PreviousOf(order, t), NextOf(order, t))
  ELSE LET entry == CHOOSE e \in ToSet(job.entries) : e.id = t IN ReorderPinned(b, t, entry.previous, entry.next)
Place ==
  /\ ~Idle /\ job.step = "place"
  /\ \/ bb' = Placed(bb, Head(job.left)) /\ job' = [job EXCEPT !.step = "repin", !.left = Tail(@)] /\ UNCHANGED used
     \/ Fault /\ job' = [job EXCEPT !.step = "repin", !.left = Tail(@), !.clean = FALSE] /\ UNCHANGED bb
  /\ UNCHANGED <<rows, reclaiming, undos, pressed, lastSettleAt, time>>

\* The pins are back: a tree that waits gets its mark, and the change is over.
RestoreEnds ==
  /\ ~Idle /\ job.step = "repin" /\ job.left = <<>>
  /\ IF job.outcome = "waits"
       THEN /\ rows' = [rows EXCEPT ![job.root] = [mark |-> "waiting", at |-> time, by |-> used.writes + 1]]
            /\ used' = [used EXCEPT !.writes = @ + 1]
       ELSE UNCHANGED <<rows, used>>
  /\ job' = [job EXCEPT !.step = "over"]
  /\ UNCHANGED <<bb, reclaiming, undos, pressed, lastSettleAt, time>>
Ends ==
  /\ ~Idle /\ job.step = "over"
  /\ job' = Rest
  /\ UNCHANGED <<bb, rows, reclaiming, undos, pressed, lastSettleAt, time, used>>

-----------------------------------------------------------------------------
(***************************************************************************)
(* Undo.                                                                   *)
(***************************************************************************)
\* rememberSettle: those that ran out go, and the oldest while there are too many.
Remember(held, settle) ==
  LET live == {u \in held : u.until > time}
      over == Cardinality(live) - MaxUndos + 1
  IN {u \in live : Cardinality({v \in live : v.n < u.n}) >= over} \cup {settle}

Reclaimed ==
  /\ \E s \in reclaiming :
       /\ reclaiming' = reclaiming \ {s}
       /\ undos' = Remember(undos, [s EXCEPT !.until = time + UndoFor])
  /\ UNCHANGED <<bb, rows, job, pressed, lastSettleAt, time, used>>

\* The token is spent by the press, whether or not it still holds.
PressUndo ==
  /\ \E u \in undos :
       /\ undos' = undos \ {u}
       /\ pressed' = IF u.until > time THEN pressed \cup {u} ELSE pressed
  /\ UNCHANGED <<bb, rows, job, reclaiming, lastSettleAt, time, used>>

\* The undo's turn: what changed since stays as it is, and the pins follow.
KeepsChangeOf(entry) ==
  \/ bb.parent[entry.id] # entry.parent \/ IsPinned(bb, entry.id) \/ IsBusyIn(bb, entry.id)
  \/ ~SameRow(rows[entry.id], entry.after)
UndoRuns ==
  /\ Idle
  /\ \E u \in pressed :
       LET given == {e \in ToSet(u.entries) : ~KeepsChangeOf(e)}
           entryOf(t) == CHOOSE e \in given : e.id = t
           repin == SelectSeq(u.entries, LAMBDA e : e \in given /\ e.unpinned)
       IN /\ pressed' = Soiled(pressed \ {u})
          /\ rows' = [t \in Threads |-> IF t \in {e.id : e \in given} THEN entryOf(t).before ELSE rows[t]]
          /\ job' = [NoJob EXCEPT !.kind = "undo", !.step = "repin", !.root = u.root, !.entries = u.entries,
                                  !.left = [i \in DOMAIN repin |-> repin[i].id],
                                  !.first = u.first, !.before = u.before, !.current = bb,
                                  !.outcome = "undone", !.clean = u.clean]
  /\ reclaiming' = Soiled(reclaiming) /\ undos' = Soiled(undos)
  /\ UNCHANGED <<bb, lastSettleAt, time, used>>

-----------------------------------------------------------------------------
(***************************************************************************)
(* Elsewhere.                                                              *)
(***************************************************************************)
Elsewhere == used.elsewhere < MaxElsewhere /\ used' = [used EXCEPT !.elsewhere = @ + 1]

\* Another window or bb itself: a pin, its place, a parent, work, a question, attention.
BbChanges ==
  /\ Elsewhere
  /\ \E t \in Threads :
       \/ /\ SoilAll
          /\ \/ bb' = IF IsPinned(bb, t) THEN Unpin(bb, t) ELSE Pin(bb, t)
             \/ IsPinned(bb, t) /\ bb' = ReorderPinned(bb, t, NoThread, NoThread) /\ bb' # bb
             \/ \E p \in {q \in Threads : q < t} \cup {NoThread} : p # bb.parent[t] /\ bb' = [bb EXCEPT !.parent[t] = p]
       \/ /\ SoilOthers /\ job' = job
          /\ \/ bb' = [bb EXCEPT !.busy = IF t \in @ THEN @ \ {t} ELSE @ \cup {t}]
             \/ bb' = [bb EXCEPT !.asks = IF t \in @ THEN @ \ {t} ELSE @ \cup {t}]
             \/ bb' = [bb EXCEPT !.news[t] = @ + 1]
  /\ UNCHANGED <<rows, lastSettleAt, time>>

\* Another change of the server writes a row: the thread is parked, or its mark ends.
RowChanges ==
  /\ Idle /\ Elsewhere /\ SoilAll
  /\ \E t \in Threads, mark \in {"parked", "none"} :
       /\ mark # rows[t].mark
       /\ rows' = [rows EXCEPT ![t] = IF mark = "none" THEN NoRow ELSE [mark |-> mark, at |-> time, by |-> 0]]
  /\ UNCHANGED <<bb, lastSettleAt, time>>

Tick ==
  /\ time < MaxTime
  /\ time' = time + 1
  /\ UNCHANGED <<bb, rows, job, reclaiming, undos, pressed, lastSettleAt, used>>

PinsNext ==
  \/ \E t \in Threads : Settle(t)
  \/ UnpinNext \/ SecondListing \/ RestoreListing \/ Repin \/ Place \/ RestoreEnds \/ Ends
  \/ Reclaimed \/ PressUndo \/ UndoRuns
  \/ BbChanges \/ RowChanges \/ Tick

PinsSpec == PinsInit /\ [][PinsNext]_pinVars

-----------------------------------------------------------------------------
(***************************************************************************)
(* What must hold.                                                         *)
(***************************************************************************)
\* An Undo gives back only rows its own settle wrote: a row another settle of the same thread
\* left since stays, though both ran in one millisecond or the clock did not move
\* (server/actions.ts:308, 363-371).
UndoesItsOwnSettle ==
  \A t \in Threads :
       Idle /\ job'.kind = "undo" /\ rows'[t] # rows[t]
       => \E e \in ToSet(job'.entries) : e.id = t /\ rows[t].by = e.after.by

\* A settle that was refused, or waits, leaves the pins in the order they had, and so does an
\* Undo, with the rows as they were, when no call failed and nothing else moved a pin, a parent
\* or a row meanwhile; a settle whatever worked, asked or had news, and an Undo when nothing
\* had between it and its settle (server/actions.ts:191, 275, 301, 377).
PinsComeBack ==
  ~Idle /\ job.step = "over" /\ job.clean
  => /\ PinnedInOrder(bb) = PinnedInOrder(job.first)
     /\ job.outcome = "undone" => rows = job.before
=============================================================================
