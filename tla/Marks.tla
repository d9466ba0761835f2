------------------------------- MODULE Marks -------------------------------
(***************************************************************************)
(* The marks of thread-glance's lifecycle rows: parked, snoozed, settled   *)
(* and the active override.  The person sets, undoes and ends them         *)
(* (server/actions.ts); a thread's turns and questions, told by bb's       *)
(* events, end, hold and reopen them (server/thread-events.ts,             *)
(* shared/lifecycle.ts); and each start brings them in line with what bb   *)
(* has (server/reconcile.ts, server/startup.ts).                           *)
(*                                                                         *)
(* Time is a count of the moments at which attention came; a mark set      *)
(* between two of them has the earlier one's time.  Every change of a row  *)
(* takes its turn of the change queue, in which bb is read and moves on.   *)
(* Pins and the waiting settle are WaitingSettle's; a snooze's wake time,  *)
(* which only a window reads, is left out.                                 *)
(***************************************************************************)
EXTENDS ThreadTrees, Sequences

CONSTANTS
  Born,        \* bound: the threads there are at first
  Workers,     \* bound: the threads that take turns, and ask in them
  Putters,     \* bound: the threads the person parks, snoozes or settles
  Markings,    \* bound: those of "parked", "snoozed" and "settled" the person sets
  Undoable,    \* bound: those of "set" and "ended" whose toast's Undo is pressed
  Prompt,      \* whether events are handled, actions done and starts over before bb moves on
               \* or the person acts
  MaxTime,     \* bound: moments
  MaxSet,      \* bound: marks the person sets
  MaxFaults    \* bound: restarts, archives and listings that fail

ASSUME MarksAssumption ==
  /\ Born \subseteq Threads /\ Workers \subseteq Threads /\ Putters \subseteq Threads
  /\ \A t \in Born : Above[t] \subseteq Born
  /\ Markings \subseteq {"parked", "snoozed", "settled"}
  /\ Undoable \subseteq {"set", "ended"}
  /\ Prompt \in BOOLEAN
  /\ MaxTime \in Nat /\ MaxSet \in Nat /\ MaxFaults \in Nat

None == -1

VARIABLES
  bb,        \* what bb lists of each thread; one not created yet has no attention time
  rows,      \* each thread's lifecycle row: its mark, when it was set, the attention held back
  heldTurns, \* the marked threads that began a turn while a question held their mark
  events,    \* the thread events not handled yet, in order
  action,    \* the action that holds the change queue: its kind and thread, how far it is,
             \* the attention it listed, and its time
  toast,     \* the last action's changes, which its Undo gives back
  server,    \* "down", "starting" with a listing, or "up"
  seen,      \* that listing
  time,
  set,       \* how many marks the person has set
  faults,
  \* history
  begun,     \* the threads whose turn the server heard begin while a question waited below them
  own,       \* each thread's last attention that no question accounts for
  moved,     \* the threads below which a turn began, or one was created, with no question waiting
             \* there, since their mark was set
  unknown    \* the threads whose hold an event could not be told, or whose row an Undo gave
             \* back after attention had come

bbVars == <<bb, time>>
history == <<begun, own, moved, unknown>>
vars == <<bbVars, rows, heldTurns, events, action, toast, server, seen, set, faults, history>>

Times == 0..MaxTime
Marked == {"parked", "snoozed", "settled"}
Listing == [work : {"none", "turn"}, queue : {"none"}, question : BOOLEAN, listed : BOOLEAN, attention : Times \cup {None}]
Row == [mark : Marked \cup {"none", "active"}, at : Times, held : Times \cup {None}]
Event == [kind : {"created", "active", "attention", "gone"}, thread : Threads, attention : Times]
Change == [thread : Threads, before : Row, after : Row]

NoRow == [mark |-> "none", at |-> 0, held |-> None]
RowOf(mark, at) == [mark |-> mark, at |-> at, held |-> None]
Unborn == [work |-> "none", queue |-> "none", question |-> FALSE, listed |-> FALSE, attention |-> None]
NoAction == [kind |-> "none", thread |-> CHOOSE t \in Threads : TRUE, step |-> 0, listed |-> [t \in Threads |-> None], at |-> 0]
NoToast == [kind |-> "set", changes |-> {}]
NoListing == [t \in Threads |-> Unborn]

Init ==
  /\ bb = [t \in Threads |-> IF t \in Born THEN [Unborn EXCEPT !.listed = TRUE, !.attention = 0] ELSE Unborn]
  /\ rows = [t \in Threads |-> NoRow]
  /\ heldTurns = {}
  /\ events = <<>>
  /\ action = NoAction
  /\ toast = NoToast
  /\ server = "up"
  /\ seen = NoListing
  /\ time = 0 /\ set = 0 /\ faults = 0
  /\ begun = {} /\ own = [t \in Threads |-> 0] /\ moved = {} /\ unknown = {}

-----------------------------------------------------------------------------
(***************************************************************************)
(* The rules: shared/lifecycle.ts.                                         *)
(***************************************************************************)
HasMark(row) == row.mark \in Marked

\* hasAttentionSinceMark: attention after the mark, but for what is held back.
SinceMark(row, attention) == attention > row.at /\ attention > row.held

\* liftedIds: a question waits on a listed, visible thread below.
Lifted(listing, t) ==
  \E u \in (ListedTree([v \in Threads |-> [listing[v] EXCEPT !.listed = @ /\ v \notin Hidden]], t) \ {t}) :
     listing[u].question

\* heldIds: the marks among `ids` a question holds, or the turn of one in `turns`.
HeldOwnToo(listing, ids, turns) ==    \* mutant: the thread's own question holds its mark
  {t \in ids : HasMark(rows[t]) /\ (Lifted(listing, t) \/ t \in turns) /\ listing[t].listed /\ t \notin Hidden}
Held(listing, ids, turns) ==
  {t \in ids : /\ HasMark(rows[t])
               /\ Lifted(listing, t) \/ t \in turns
               /\ listing[t].listed /\ t \notin Hidden /\ ~listing[t].question}

\* holdAttention
HoldAttention(row, attention) == IF SinceMark(row, attention) THEN [row EXCEPT !.held = attention] ELSE row

\* clearStaleMark and the store: a parked or settled mark that attention came after
\* goes, and the row with it.
Unstale(row, attention) ==
  IF row.mark \in {"parked", "settled"} /\ SinceMark(row, attention) THEN NoRow ELSE row

\* markShelf: the mark puts the thread away.
PutAway(t) ==
  /\ HasMark(rows[t]) /\ bb[t].listed
  /\ ~Lifted(bb, t) /\ ~IsBusy(bb[t])
  /\ ~SinceMark(rows[t], bb[t].attention)

-----------------------------------------------------------------------------
(***************************************************************************)
(* bb: turns, questions and threads.  Each tells the server, unless it is  *)
(* down.                                                                   *)
(***************************************************************************)
Idle == action.kind = "none"
Steady == Prompt => events = <<>> /\ Idle /\ server # "starting"

Announce(kind, t, attention) ==
  events' = IF server = "down" THEN events ELSE Append(events, [kind |-> kind, thread |-> t, attention |-> attention])

BbMoves ==
  /\ Steady
  /\ UNCHANGED <<rows, heldTurns, action, toast, server, seen, set>>

Fault == faults < MaxFaults /\ faults' = faults + 1

\* The threads above t that a turn of its tree is to reopen, if the server hears of it.
Woken(t) == {a \in Above[t] : server # "down" /\ ~(Lifted(bb, a) /\ bb[a].listed /\ ~bb[a].question)}

StartTurn(t) ==
  /\ bb[t].listed /\ bb[t].work = "none"
  /\ BbMoves
  /\ bb' = [bb EXCEPT ![t].work = "turn"]
  /\ Announce("active", t, bb[t].attention)
  /\ begun' = IF Lifted(bb, t) /\ server # "down" THEN begun \cup {t} ELSE begun \ {t}
  /\ moved' = moved \cup Woken(t)
  /\ UNCHANGED <<time, faults, own, unknown>>

\* Attention comes to t; `excused` if a question below it accounts for it, of which a
\* server that is down hears nothing.
Attention(t, excused) ==
  /\ time < MaxTime
  /\ time' = time + 1
  /\ Announce("attention", t, time + 1)
  /\ own' = IF excused /\ server # "down" THEN own ELSE [own EXCEPT ![t] = time + 1]

\* The turn ends, fails or is interrupted, and its question goes with it.
EndTurn(t) ==
  /\ bb[t].work = "turn"
  /\ BbMoves
  /\ bb' = [bb EXCEPT ![t].work = "none", ![t].question = FALSE, ![t].attention = time + 1]
  /\ Attention(t, t \in begun \/ Lifted(bb, t))
  /\ begun' = begun \ {t}
  /\ UNCHANGED <<faults, moved, unknown>>

Ask(t) ==
  /\ bb[t].work = "turn" /\ ~bb[t].question
  /\ BbMoves
  /\ bb' = [bb EXCEPT ![t].question = TRUE, ![t].attention = time + 1]
  /\ Attention(t, FALSE)
  /\ begun' = begun \ {t}
  /\ UNCHANGED <<faults, moved, unknown>>

AnswerQuestion(t) ==
  /\ bb[t].question
  /\ BbMoves
  /\ bb' = [bb EXCEPT ![t].question = FALSE]
  /\ UNCHANGED <<time, events, faults, history>>

\* A thread is created under one there is.
Create(t) ==
  /\ bb[t].attention = None /\ \A a \in Above[t] : bb[a].attention # None
  /\ BbMoves
  /\ bb' = [bb EXCEPT ![t].listed = TRUE, ![t].attention = time]
  /\ Announce("created", t, time)
  /\ moved' = moved \cup Woken(t)
  /\ UNCHANGED <<time, faults, begun, own, unknown>>

Archive(t) ==
  /\ bb[t].listed
  /\ BbMoves /\ Fault
  /\ bb' = [bb EXCEPT ![t].listed = FALSE, ![t].work = "none", ![t].question = FALSE]
  /\ Announce("gone", t, bb[t].attention)
  /\ begun' = begun \ {t}
  /\ UNCHANGED <<time, own, moved, unknown>>

-----------------------------------------------------------------------------
(***************************************************************************)
(* thread-events.ts: each handler in its turn of the change queue, told by *)
(* what bb lists then.                                                     *)
(***************************************************************************)
Free == server # "down" /\ Idle

\* The listing with the attention the event carries.
Told(event) ==
  [bb EXCEPT ![event.thread].attention = IF event.attention > @ THEN event.attention ELSE @]

\* The rows with the attention of the held ones set aside.
HoldRows(held, listing) ==
  [t \in Threads |-> IF t \in held THEN HoldAttention(rows[t], listing[t].attention) ELSE rows[t]]

\* reopen: the marks of `ids` go.
ReopenAwake(kept, ids, held) ==    \* mutant: a snooze stays, as it does for attention
  [t \in Threads |-> IF t \in ids \ held /\ kept[t].mark \in {"parked", "settled"} THEN NoRow ELSE kept[t]]
ReopenAll(kept, ids, held) ==    \* mutant: held ones too
  [t \in Threads |-> IF t \in ids /\ HasMark(kept[t]) THEN NoRow ELSE kept[t]]
Reopen(kept, ids, held) ==
  [t \in Threads |-> IF t \in ids \ held /\ HasMark(kept[t]) THEN NoRow ELSE kept[t]]

\* A listing that fails tells of no hold.
HeldBy(event, ids, turns, readable) == IF readable THEN Held(Told(event), ids, turns) ELSE {}

Handle(kind) ==
  /\ Free
  /\ events # <<>> /\ Head(events).kind = kind
  /\ events' = Tail(events)
  /\ UNCHANGED <<bbVars, action, toast, server, seen, set, begun, own>>

Readable(readable) == IF readable THEN UNCHANGED faults ELSE Fault

\* Without a listing the handler holds nothing.
Unknown(ids, readable) ==
  /\ unknown' = IF readable THEN unknown ELSE unknown \cup ids
  /\ UNCHANGED moved

Created ==
  /\ Handle("created")
  /\ \E readable \in BOOLEAN :
       LET event == Head(events)
           above == Above[event.thread]
           held  == HeldBy(event, above, {}, readable)
       IN  /\ Readable(readable)
           /\ rows' = Reopen(HoldRows(held, Told(event)), above, held)
           /\ Unknown(above, readable)
  /\ UNCHANGED heldTurns

Active ==
  /\ Handle("active")
  /\ \E readable \in BOOLEAN :
       LET event == Head(events)
           t     == event.thread
           above == Above[t]
           held  == HeldBy(event, above \cup {t}, {}, readable)
           kept  == HoldRows(held, Told(event))
           own_  == IF kept[t].mark = "active" THEN NoRow ELSE Unstale(kept[t], event.attention)
       IN  /\ Readable(readable)
           /\ heldTurns' = IF t \in held THEN heldTurns \cup {t} ELSE heldTurns
           /\ rows' = Reopen([kept EXCEPT ![t] = own_], above, held)
           /\ Unknown(above \cup {t}, readable)

\* The turn that ends may have begun while a question held the mark; if bb cannot say,
\* the mark and the record of the turn stay.
TurnHeld(t) == heldTurns \cap {t}

Attended ==
  /\ Handle("attention")
  /\ \E readable \in BOOLEAN :
       LET event == Head(events)
           t     == event.thread
           held  == HeldBy(event, {t}, TurnHeld(t), readable)
           kept  == HoldRows(held, Told(event))
           skips == ~readable /\ HasMark(rows[t]) /\ TurnHeld(t) # {}
       IN  /\ Readable(readable)
           /\ heldTurns' = IF skips THEN heldTurns ELSE heldTurns \ {t}
           /\ rows' = IF skips THEN rows ELSE [kept EXCEPT ![t] = Unstale(@, event.attention)]
           /\ Unknown({t}, readable)

Gone ==
  /\ Handle("gone")
  /\ heldTurns' = heldTurns \ {Head(events).thread}
  /\ UNCHANGED <<rows, faults, moved, unknown>>

-----------------------------------------------------------------------------
(***************************************************************************)
(* actions.ts.                                                             *)
(***************************************************************************)
\* refuseBusy or refuseNeedsYou, and refuseChildWaiting
Refused(kind, t) ==
  \/ ~bb[t].listed
  \/ IF kind = "settled" THEN bb[t].question ELSE IsBusy(bb[t])
  \/ Lifted(bb, t)

PersonActs == Free /\ (Prompt => events = <<>> /\ server = "up")

Attentions == [t \in Threads |-> bb[t].attention]

\* An action starts: `at` of a park or a snooze, and the first listing.
BeginPut(kind, t) ==
  /\ PersonActs /\ set < MaxSet
  /\ ~Refused(kind, t)
  /\ kind = "settled" => \A u \in ListedTree(bb, t) : ~IsBusy(bb[u])
  /\ action' = [kind |-> kind, thread |-> t, step |-> 1, listed |-> Attentions, at |-> time]
  /\ UNCHANGED <<bbVars, rows, heldTurns, events, toast, server, seen, set, faults, history>>

\* A settle lists bb again: its tree is idle still, and no attention came to it.
Same(tree) == \A u \in tree : bb[u].attention = action.listed[u]

ListAgain ==
  /\ action.kind = "settled" /\ action.step = 1
  /\ LET tree == ListedTree(bb, action.thread)
         fits == ~Refused("settled", action.thread) /\ Same(tree) /\ \A u \in tree : ~IsBusy(bb[u])
     IN  action' = IF fits THEN [action EXCEPT !.step = 2, !.listed = [u \in Threads |-> IF u \in tree THEN bb[u].attention ELSE None]]
                   ELSE NoAction
  /\ UNCHANGED <<bbVars, rows, heldTurns, events, toast, server, seen, set, faults, history>>

\* The rows of `written` are stored: the changes are offered to Undo.
Writes(written, kind) ==
  LET changes == {c \in {[thread |-> u, before |-> rows[u], after |-> written[u]] : u \in DOMAIN written} :
                    c.before # c.after}
  IN  /\ rows' = [u \in Threads |-> IF u \in DOMAIN written THEN written[u] ELSE rows[u]]
      /\ toast' = [kind |-> kind, changes |-> changes]
      /\ moved' = moved \ {c.thread : c \in changes}
      /\ UNCHANGED unknown

\* A park or a snooze is of the moment it began, a settle of the moment it is written.
FinishPut ==
  /\ action.step = (IF action.kind = "settled" THEN 2 ELSE 1)
  /\ LET ids == IF action.kind = "settled" THEN {u \in Threads : action.listed[u] # None} ELSE {action.thread}
         at  == IF action.kind = "settled" THEN time ELSE action.at
     IN  Writes([u \in ids |-> RowOf(action.kind, at)], "set")
  /\ set' = set + 1
  /\ action' = NoAction
  /\ UNCHANGED <<bbVars, heldTurns, events, server, seen, faults, begun, own>>

Acts == PersonActs /\ UNCHANGED <<bbVars, heldTurns, events, action, server, seen, set, faults, begun, own>>

\* Resume of a parked thread, Wake now of a snoozed one.
Resume(t) ==
  /\ Acts /\ bb[t].listed /\ rows[t].mark = "parked"
  /\ Writes([u \in {t} |-> RowOf("active", 0)], "ended")

Wake(t) ==
  /\ Acts /\ rows[t].mark = "snoozed"
  /\ Writes([u \in {t} |-> NoRow], "ended")

\* Its settled descendants follow the rules again and the marked threads above reopen.
Unsettle(t) ==
  /\ Acts /\ bb[t].listed /\ rows[t].mark = "settled"
  /\ LET below == {u \in ListedTree(bb, t) \ {t} : rows[u].mark = "settled"}
         above == {u \in Above[t] : HasMark(rows[u])}
     IN  Writes([u \in {t} \cup below \cup above |-> IF u = t THEN RowOf("active", 0) ELSE NoRow], "ended")

\* undoLifecycle and undoSettle: each row that is as the action left it goes back; after
\* a settle, only of a thread that is listed and not busy.
Unchanged(change) == rows[change.thread] = change.after

Undo ==
  /\ Acts /\ toast.changes # {} /\ toast.kind \in Undoable
  /\ LET settles    == {c \in toast.changes : c.after.mark = "settled"}
         back       == {c \in toast.changes : Unchanged(c) /\ (c \in settles => bb[c.thread].listed /\ ~IsBusy(bb[c.thread]))}
         before(t)  == (CHOOSE c \in back : c.thread = t).before
         ids        == {c.thread : c \in back}
     IN  /\ rows' = [t \in Threads |-> IF t \in ids THEN before(t) ELSE rows[t]]
         /\ moved' = IF toast.kind = "ended" THEN moved \ ids ELSE moved
         /\ unknown' = unknown \cup {t \in ids : HasMark(before(t)) /\ own[t] > before(t).at}
  /\ toast' = NoToast

-----------------------------------------------------------------------------
(***************************************************************************)
(* Restarts.                                                               *)
(***************************************************************************)
\* The rows and what bb has stay; events that were not handled are lost.
Stop ==
  /\ server = "up" /\ Fault
  /\ Prompt => Idle /\ events = <<>>
  /\ server' = "down"
  /\ heldTurns' = {} /\ events' = <<>> /\ action' = NoAction
  /\ begun' = {}
  /\ UNCHANGED <<bbVars, rows, toast, seen, set, own, moved, unknown>>

\* The startup service lists bb; the server hears its events from now on.
Start ==
  /\ server = "down"
  /\ server' = "starting"
  /\ seen' = bb
  /\ UNCHANGED <<bbVars, rows, heldTurns, events, action, toast, set, faults, history>>

\* reconcileState: marks that a question holds are held, stale ones go.  Attention to
\* a held one is taken for the question's, and what turns did meanwhile is not known.
Reconcile ==
  /\ server = "starting" /\ Idle
  /\ server' = "up"
  /\ seen' = NoListing
  /\ LET held == Held(seen, Threads, {})
         kept == HoldRows(held, seen)
     IN  /\ rows' = [t \in Threads |-> IF seen[t].listed THEN Unstale(kept[t], seen[t].attention) ELSE kept[t]]
         /\ own' = [t \in Threads |-> IF t \in held /\ own[t] <= seen[t].attention THEN 0 ELSE own[t]]
  /\ UNCHANGED <<bbVars, heldTurns, events, action, toast, set, faults, begun, moved, unknown>>

-----------------------------------------------------------------------------
Next ==
  \/ \E t \in Workers : StartTurn(t)
  \/ \E t \in Threads : EndTurn(t) \/ Ask(t) \/ AnswerQuestion(t) \/ Create(t) \/ Archive(t)
  \/ Created
  \/ Active
  \/ Attended
  \/ Gone
  \/ \E t \in Putters, kind \in Markings : BeginPut(kind, t)
  \/ ListAgain
  \/ FinishPut
  \/ \E t \in Putters : Resume(t) \/ Wake(t) \/ Unsettle(t)
  \/ Undo
  \/ Stop
  \/ Start
  \/ Reconcile

Spec == Init /\ [][Next]_vars

-----------------------------------------------------------------------------
(***************************************************************************)
(* Properties.                                                             *)
(***************************************************************************)
AtRest == server = "up" /\ events = <<>> /\ Idle

\* A thread that is put away though attention no question accounts for came after its
\* mark, but for those the server could not know of or an Undo passed over.
Missed(t) == PutAway(t) /\ own[t] > rows[t].at /\ t \notin unknown

\* Attention brings a parked or settled thread back: none that came after the mark and
\* that no question accounts for is hidden behind it, held back or swallowed by an undo.
AttentionReturns ==
  AtRest => \A t \in Threads : rows[t].mark # "snoozed" => ~Missed(t)

\* Work below a thread brings it back: it is not left put away once a turn began or a
\* thread was created below it with no question waiting there.
WorkReturns ==
  AtRest => \A t \in Threads : PutAway(t) => t \notin moved

\* A mark that the person does not end goes only for attention or work that no
\* question accounts for: what a question below starts leaves it as it was, unless bb
\* could not say that the question waits or an Undo gave back a mark gone stale.
MarkOutlivesQuestion ==
  [][\A t \in Threads :
       (HasMark(rows[t]) /\ ~HasMark(rows'[t]) /\ toast' = toast /\ server = "up")
         => own[t] > rows[t].at \/ t \in (moved \cup unknown)']_vars
=============================================================================
