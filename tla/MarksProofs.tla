---------------------------- MODULE MarksProofs ----------------------------
(***************************************************************************)
(* Two invariants and an action property of Marks, for every set of        *)
(* threads, every tree and every bound: while each event is handled before *)
(* bb moves on (Prompt), neither attention nor work below it leaves a      *)
(* marked thread put away, and nothing else ends its mark, while Undo      *)
(* gives back puts only.                                                   *)
(*                                                                         *)
(* Between two events neither is visible in the rows alone: the attention  *)
(* that came, or the turn that began, is in the one event on its way, or   *)
(* in bb while the server is down.  The invariant says which, and what of  *)
(* the bookkeeping of questions the handler will find.                     *)
(***************************************************************************)
EXTENDS Marks, SequenceTheorems, TLAPS

AnyAction ==
  [kind : Marked \cup {"none"}, thread : Threads \cup {NoAction.thread}, step : 0..2,
   listed : [Threads -> Times \cup {None}], at : Times]

Types ==
  /\ bb \in [Threads -> Listing]
  /\ rows \in [Threads -> Row]
  /\ heldTurns \in SUBSET Threads
  /\ events \in Seq(Event)
  /\ action \in AnyAction
  /\ toast \in [kind : {"set", "ended"}, changes : SUBSET Change]
  /\ server \in {"down", "starting", "up"}
  /\ seen \in [Threads -> Listing]
  /\ time \in Times
  /\ begun \in SUBSET Threads
  /\ own \in [Threads -> Times]
  /\ moved \in SUBSET Threads
  /\ unknown \in SUBSET Threads

\* While the handlers keep up: one event at most is on its way, and then nothing else goes on.
Quiet == events = <<>>
KeepsUp ==
  /\ Len(events) <= 1
  /\ ~Quiet => Idle /\ server = "up"
  /\ ~Idle => server = "up" /\ action.at = time /\ action.thread \in Threads
  /\ Idle => action.step = 0
  /\ server = "starting" => seen = bb
  /\ server # "up" => heldTurns = {}

Event1 == Head(events)

\* Nothing has a time that is still to come.
NotAhead ==
  /\ \A t \in Threads : /\ bb[t].attention <= time
                        /\ own[t] <= time
                        /\ rows[t].held <= time
                        /\ own[t] > 0 => bb[t].attention # None
  /\ ~Quiet => Event1.attention <= time
  /\ \A c \in toast.changes : c.before.held <= time

\* A thread is not older than those above it, and one not created yet has nothing.
Family ==
  \A t \in Threads :
    /\ bb[t].listed \/ bb[t].question \/ bb[t].work # "none" => bb[t].attention # None
    /\ bb[t].attention # None => \A a \in Above[t] : bb[a].attention # None

\* The changes a put offers to Undo left marks.
PutsMarks == toast.kind = "set" => \A c \in toast.changes : HasMark(c.after)

\* A question holds the mark of t: Held, without the turns.
Holds(t) == Lifted(bb, t) /\ bb[t].listed /\ ~bb[t].question

WorkOnItsWay(t) ==
  /\ ~Quiet /\ Event1.kind \in {"created", "active"}
  /\ t \in Above[Event1.thread]
  /\ ~Holds(t)
WorkInv == \A t \in moved : HasMark(rows[t]) => WorkOnItsWay(t)

\* The turns held are those the server heard begin under a question.
TurnsInv ==
  /\ \A t \in begun : bb[t].work = "turn"
  /\ ~Quiet /\ Event1.kind = "active" /\ Lifted(bb, Event1.thread) => Event1.thread \in begun
  /\ \A t \in heldTurns :
       \/ t \in begun \cup unknown
       \/ ~Quiet /\ Event1.kind \in {"attention", "gone"} /\ Event1.thread = t

Unseen(t) ==
  /\ rows[t].mark \in {"parked", "settled"} /\ bb[t].listed
  /\ own[t] > rows[t].at /\ t \notin unknown
AttentionOnItsWay(t) ==
  /\ bb[t].attention = own[t] /\ own[t] > rows[t].held
  /\ \/ server # "up"
     \/ /\ ~Quiet /\ Event1.kind = "attention" /\ Event1.thread = t /\ Event1.attention = own[t]
        /\ bb[t].question \/ (~Lifted(bb, t) /\ t \notin heldTurns)
AttentionInv == \A t \in Threads : Unseen(t) => AttentionOnItsWay(t)

IInv == Types /\ KeepsUp /\ NotAhead /\ Family /\ PutsMarks /\ WorkInv /\ TurnsInv /\ AttentionInv

-----------------------------------------------------------------------------
(***************************************************************************)
(* What the operators give.                                                *)
(***************************************************************************)
LEMMA NoRowTyped == NoRow \in Row /\ NoRow.mark = "none" /\ NoRow.held = None /\ None \in Int /\ Times \subseteq Int
  BY MarksAssumption DEF NoRow, Row, Times, None, Marked

\* A thread's attention is a time, or none.
LEMMA Heard == ASSUME Types, NEW t \in Threads
               PROVE  /\ bb[t] \in Listing /\ bb[t].attention \in Times \cup {None}
                      /\ rows[t] \in Row /\ own[t] \in Times
  BY DEF Types, Listing


\* Lifted, over a listing as bb has one: a question waits below, along a chain of listed,
\* visible threads.
Asks(x, u, t) == x[u].question /\ \A v \in {u} \cup (Above[u] \cap Below(t)) : x[v].listed /\ v \notin Hidden
LEMMA LiftedMeans ==
  ASSUME NEW x \in [Threads -> Listing], NEW t \in Threads
  PROVE  Lifted(x, t) <=> \E u \in Below(t) : Asks(x, u, t)
<1> DEFINE Y == [v \in Threads |-> [x[v] EXCEPT !.listed = @ /\ v \notin Hidden]]
<1>1. \A v \in Threads : Y[v].question = x[v].question /\ (Y[v].listed <=> x[v].listed /\ v \notin Hidden)
  <2> TAKE v \in Threads
  <2>1. x[v] \in Listing OBVIOUS
  <2> QED BY <2>1 DEF Listing
<1>2. Lifted(x, t) <=> \E u \in ListedTree(Y, t) \ {t} : x[u].question
  BY DEF Lifted
<1>3. \A u \in Threads : u \in ListedTree(Y, t) \ {t} <=>
        u \in Below(t) /\ \A v \in {u} \cup (Above[u] \cap Below(t)) : x[v].listed /\ v \notin Hidden
  <2> HIDE DEF Y
  <2>1. \A u \in Threads : Above[u] \subseteq Threads /\ u \notin Above[u] BY TreeAssumption
  <2> QED BY <1>1, <2>1 DEF ListedTree, TreeOf, Below
<1>4. ListedTree(Y, t) \subseteq Threads BY DEF ListedTree, TreeOf, Below
<1>5. Below(t) \subseteq Threads BY DEF Below
<1> HIDE DEF Y
<1> QED BY <1>2, <1>3, <1>4, <1>5 DEF Asks

\* Less is lifted where less is listed and fewer of the others ask.
LEMMA LiftedLess ==
  ASSUME NEW x \in [Threads -> Listing], NEW y \in [Threads -> Listing], NEW t \in Threads,
         \A u \in Threads : y[u].listed => x[u].listed,
         \A u \in Threads \ {t} : y[u].question => x[u].question,
         Lifted(y, t)
  PROVE  Lifted(x, t)
<1>1. PICK u \in Below(t) : Asks(y, u, t) BY LiftedMeans
<1>2. u \in Threads \ {t} /\ Above[u] \subseteq Threads BY TreeAssumption DEF Below
<1>3. Asks(x, u, t) BY <1>1, <1>2 DEF Asks
<1> QED BY <1>3, LiftedMeans

\* A created thread, which has none below it and asks nothing, lifts none.
LEMMA LiftedCreated ==
  ASSUME NEW x \in [Threads -> Listing], NEW y \in [Threads -> Listing], NEW t \in Threads, NEW new \in Threads,
         \A u \in Threads \ {new} : y[u] = x[u],
         ~y[new].question,
         \A u \in Threads : x[u].question => new \notin Above[u],
         Lifted(y, t)
  PROVE  Lifted(x, t)
<1>1. PICK u \in Below(t) : Asks(y, u, t) BY LiftedMeans
<1>2. u \in Threads \ {new} /\ Above[u] \subseteq Threads BY <1>1, TreeAssumption DEF Below, Asks
<1>3. new \notin Above[u] BY <1>1, <1>2 DEF Asks
<1>4. Asks(x, u, t) BY <1>1, <1>2, <1>3 DEF Asks
<1> QED BY <1>4, LiftedMeans

\* What an event tells changes no one's lift.
LEMMA LiftedTold ==
  ASSUME Types, NEW event \in Event, NEW t \in Threads
  PROVE  /\ Told(event) \in [Threads -> Listing]
         /\ \A u \in Threads : Told(event)[u].listed = bb[u].listed /\ Told(event)[u].question = bb[u].question
         /\ \A u \in Threads \ {event.thread} : Told(event)[u] = bb[u]
         /\ Told(event)[event.thread].attention = IF event.attention > bb[event.thread].attention THEN event.attention
                                                  ELSE bb[event.thread].attention
         /\ Lifted(Told(event), t) = Lifted(bb, t)
<1>1. bb \in [Threads -> Listing] /\ bb[event.thread] \in Listing /\ event.thread \in Threads BY DEF Types, Event
<1>2. event.attention \in Times /\ Times \subseteq Int BY NoRowTyped DEF Event
<1>3. Told(event) \in [Threads -> Listing] BY <1>1, <1>2 DEF Told, Listing
<1>4. \A u \in Threads : Told(event)[u].listed = bb[u].listed /\ Told(event)[u].question = bb[u].question
  BY <1>1 DEF Told, Listing
<1>5. \A u \in Threads \ {event.thread} : Told(event)[u] = bb[u] BY <1>1 DEF Told
<1>6. Told(event)[event.thread].attention = IF event.attention > bb[event.thread].attention THEN event.attention
                                            ELSE bb[event.thread].attention
  BY <1>1 DEF Told, Listing
<1>7. Lifted(Told(event), t) => Lifted(bb, t) BY <1>1, <1>3, <1>4, LiftedLess
<1>8. Lifted(bb, t) => Lifted(Told(event), t) BY <1>1, <1>3, <1>4, LiftedLess
<1>9. Lifted(bb, t) \in BOOLEAN /\ Lifted(Told(event), t) \in BOOLEAN BY DEF Lifted
<1> QED BY <1>3, <1>4, <1>5, <1>6, <1>7, <1>8, <1>9

\* Holding a row changes what is held of it, and ending a stale mark ends a mark.
LEMMA HoldAttentionKeeps ==
  ASSUME NEW row \in Row, NEW attention \in Times \cup {None}
  PROVE  /\ HoldAttention(row, attention) \in Row
         /\ HoldAttention(row, attention).mark = row.mark /\ HoldAttention(row, attention).at = row.at
         /\ HoldAttention(row, attention).held \in {row.held, attention}
  BY DEF HoldAttention, Row
LEMMA UnstaleKeeps ==
  ASSUME NEW row \in Row, NEW attention
  PROVE  Unstale(row, attention) \in {row, NoRow} /\ Unstale(row, attention) \in Row
  BY NoRowTyped DEF Unstale

-----------------------------------------------------------------------------
(***************************************************************************)
(* What the steps do.                                                      *)
(***************************************************************************)
\* The one event on its way.
LEMMA TheEvent ==
  ASSUME Types, KeepsUp, ~Quiet
  PROVE  /\ Event1 \in Event /\ Event1.thread \in Threads /\ Event1.attention \in Times
         /\ Tail(events) = <<>> /\ Idle /\ server = "up"
<1>1. events \in Seq(Event) /\ events # <<>> /\ Len(events) <= 1 BY DEF Types, KeepsUp, Quiet
<1>2. Len(events) \in Nat /\ Len(events) # 0 BY <1>1, EmptySeq
<1>3. Event1 \in Event BY <1>1, HeadTailProperties DEF Event1
<1>4. Tail(events) \in Seq(Event) /\ Len(Tail(events)) = Len(events) - 1 BY <1>1, HeadTailProperties
<1>5. Tail(events) = <<>> BY <1>1, <1>2, <1>4, EmptySeq
<1> QED BY <1>3, <1>5 DEF KeepsUp, Event

LEMMA Announces ==
  ASSUME Types, Quiet, NEW kind \in {"created", "active", "attention", "gone"}, NEW t \in Threads,
         NEW attention \in Times, Announce(kind, t, attention)
  PROVE  /\ events' \in Seq(Event)
         /\ server = "down" => events' = <<>>
         /\ server # "down" => /\ events' # <<>> /\ Len(events') = 1
                               /\ Head(events') = [kind |-> kind, thread |-> t, attention |-> attention]
<1> DEFINE e == [kind |-> kind, thread |-> t, attention |-> attention]
<1>1. events = <<>> BY DEF Quiet
<1>2. e \in Event BY DEF Event
<1>3. CASE server = "down"
  <2>1. events' = <<>> BY <1>1, <1>3 DEF Announce
  <2> QED BY <2>1, <1>3
<1>4. CASE server # "down"
  <2>1. events' = <<e>> BY <1>1, <1>4 DEF Announce
  <2> HIDE DEF e
  <2>2. <<e>> \in Seq(Event) /\ <<e>> # <<>> /\ Len(<<e>>) = 1 /\ Head(<<e>>) = e BY <1>2
  <2> QED BY <2>1, <2>2, <1>4 DEF e
<1> QED BY <1>3, <1>4

\* A row is ended, or keeps its mark and its time.
Ended(row, now) ==
  now = NoRow \/ (now.mark = row.mark /\ now.at = row.at /\ (now.held = row.held \/ now.held <= time))

LEMMA HoldRowsKeeps ==
  ASSUME Types, NotAhead, NEW held, NEW listing \in [Threads -> Listing], NEW t \in Threads,
         listing[t].attention <= time
  PROVE  /\ HoldRows(held, listing)[t] \in Row
         /\ Ended(rows[t], HoldRows(held, listing)[t]) /\ HoldRows(held, listing)[t].mark = rows[t].mark
         /\ t \notin held => HoldRows(held, listing)[t] = rows[t]
<1>1. rows[t] \in Row BY Heard
<1>2. listing[t].attention \in Times \cup {None} BY DEF Listing
<1>3. CASE t \in held
  <2>1. HoldRows(held, listing)[t] = HoldAttention(rows[t], listing[t].attention) BY <1>3 DEF HoldRows
  <2> QED BY <2>1, <1>1, <1>2, <1>3, HoldAttentionKeeps DEF Ended
<1>4. CASE t \notin held
  <2>1. HoldRows(held, listing)[t] = rows[t] BY <1>4 DEF HoldRows
  <2> QED BY <2>1, <1>1 DEF Ended
<1> QED BY <1>3, <1>4

\* The listing a handler reads has no attention that is still to come.
LEMMA ToldNow ==
  ASSUME Types, NotAhead, NEW event \in Event, event.attention <= time, NEW t \in Threads
  PROVE  Told(event) \in [Threads -> Listing] /\ Told(event)[t].attention <= time
<1>1. event.thread \in Threads BY DEF Event
<1>2. bb[t].attention <= time /\ bb[event.thread].attention <= time BY <1>1 DEF NotAhead
<1>3. CASE t = event.thread BY <1>1, <1>2, <1>3, LiftedTold
<1>4. CASE t # event.thread BY <1>2, <1>4, LiftedTold
<1> QED BY <1>3, <1>4, LiftedTold

\* Which marks a handler finds held.
LEMMA HeldMeans ==
  ASSUME Types, NEW event \in Event, NEW ids, NEW turns, NEW readable \in BOOLEAN, NEW t \in Threads
  PROVE  t \in HeldBy(event, ids, turns, readable) <=>
           /\ readable /\ t \in ids /\ HasMark(rows[t])
           /\ Lifted(bb, t) \/ t \in turns
           /\ bb[t].listed /\ t \notin Hidden /\ ~bb[t].question
<1>1. /\ Lifted(Told(event), t) = Lifted(bb, t)
      /\ Told(event)[t].listed = bb[t].listed /\ Told(event)[t].question = bb[t].question
  BY LiftedTold
<1>2. t \in Held(Told(event), ids, turns) <=>
           /\ t \in ids /\ HasMark(rows[t])
           /\ Lifted(bb, t) \/ t \in turns
           /\ bb[t].listed /\ t \notin Hidden /\ ~bb[t].question
  BY <1>1 DEF Held
<1>3. CASE readable BY <1>2, <1>3 DEF HeldBy
<1>4. CASE ~readable BY <1>4 DEF HeldBy
<1> QED BY <1>3, <1>4

\* What a handler has to go by.
Ready == Types /\ KeepsUp /\ NotAhead /\ Family

LEMMA ReopenKeeps ==
  ASSUME NEW kept \in [Threads -> Row], NEW ids, NEW held, NEW t \in Threads
  PROVE  /\ Reopen(kept, ids, held)[t] \in {kept[t], NoRow}
         /\ t \in ids \ held => ~HasMark(Reopen(kept, ids, held)[t])
  BY NoRowTyped DEF Reopen, HasMark, Marked

LEMMA HandlerListing ==
  ASSUME Ready, ~Quiet
  PROVE  /\ Event1 \in Event /\ Event1.thread \in Threads /\ Event1.attention \in Times
         /\ \A t \in Threads : Told(Event1) \in [Threads -> Listing] /\ Told(Event1)[t].attention <= time
         /\ Above[Event1.thread] \subseteq Threads
  BY TheEvent, ToldNow, TreeAssumption DEF Ready, NotAhead

LEMMA CreatedRows ==
  ASSUME Ready, Created
  PROVE  /\ ~Quiet /\ Event1.kind = "created"
         /\ rows' \in [Threads -> Row]
         /\ \A t \in Threads : Ended(rows[t], rows'[t])
         /\ \A t \in Above[Event1.thread] : ~Holds(t) => ~HasMark(rows'[t])
         /\ \E ids \in SUBSET Threads : unknown' = unknown \cup ids
<1>1. ~Quiet /\ Event1.kind = "created" BY DEF Created, Handle, Quiet, Event1
<1>2. Types /\ NotAhead BY DEF Ready
<1>3. PICK readable \in BOOLEAN :
        /\ rows' = Reopen(HoldRows(HeldBy(Event1, Above[Event1.thread], {}, readable), Told(Event1)), Above[Event1.thread],
                          HeldBy(Event1, Above[Event1.thread], {}, readable))
        /\ Unknown(Above[Event1.thread], readable)
  BY DEF Created, Event1
<1> DEFINE above == Above[Event1.thread]
           held == HeldBy(Event1, above, {}, readable)
           kept == HoldRows(held, Told(Event1))
<1>4. /\ above \subseteq Threads /\ Event1 \in Event
      /\ \A t \in Threads : Told(Event1) \in [Threads -> Listing] /\ Told(Event1)[t].attention <= time
  BY <1>1, HandlerListing
<1>5. \A t \in Threads : kept[t] \in Row /\ Ended(rows[t], kept[t])
  BY <1>2, <1>4, HoldRowsKeeps
<1>6. kept \in [Threads -> Row] BY <1>5 DEF HoldRows
<1>7. \A t \in Threads : t \in held => t \in above /\ Lifted(bb, t) /\ bb[t].listed /\ ~bb[t].question
  BY <1>2, <1>4, HeldMeans
<1>8. rows' = Reopen(kept, above, held) BY <1>3
<1>9. \E ids \in SUBSET Threads : unknown' = unknown \cup ids
  <2>1. unknown' = unknown \cup {} \/ unknown' = unknown \cup above BY <1>3 DEF Unknown
  <2> QED BY <2>1, <1>4
<1> HIDE DEF above, held, kept
<1>10. \A t \in Threads : rows'[t] \in {kept[t], NoRow} /\ (t \in above \ held => ~HasMark(rows'[t]))
  BY <1>6, <1>8, ReopenKeeps
<1>11. rows' \in [Threads -> Row]
  <2>1. rows' = [t \in Threads |-> rows'[t]] BY <1>8 DEF Reopen
  <2> QED BY <2>1, <1>5, <1>10, NoRowTyped
<1>12. \A t \in Threads : Ended(rows[t], rows'[t]) BY <1>5, <1>10 DEF Ended
<1>13. \A t \in above : ~Holds(t) => ~HasMark(rows'[t])
  BY <1>4, <1>7, <1>10 DEF Holds
<1> QED BY <1>1, <1>9, <1>11, <1>12, <1>13 DEF above

LEMMA ActiveRows ==
  ASSUME Ready, Active
  PROVE  /\ ~Quiet /\ Event1.kind = "active"
         /\ rows' \in [Threads -> Row]
         /\ \A t \in Threads : Ended(rows[t], rows'[t])
         /\ \A t \in Above[Event1.thread] : ~Holds(t) => ~HasMark(rows'[t])
         /\ \E ids \in SUBSET Threads : unknown' = unknown \cup ids
         /\ heldTurns' = heldTurns \/ (heldTurns' = heldTurns \cup {Event1.thread} /\ Lifted(bb, Event1.thread))
<1>1. ~Quiet /\ Event1.kind = "active" BY DEF Active, Handle, Quiet, Event1
<1>2. Types /\ NotAhead BY DEF Ready
<1> DEFINE above == Above[Event1.thread]
           held(r) == HeldBy(Event1, above \cup {Event1.thread}, {}, r)
           kept(r) == HoldRows(held(r), Told(Event1))
           own_(r) == IF kept(r)[Event1.thread].mark = "active" THEN NoRow
                      ELSE Unstale(kept(r)[Event1.thread], Event1.attention)
<1>3. PICK r \in BOOLEAN :
        /\ heldTurns' = IF Event1.thread \in held(r) THEN heldTurns \cup {Event1.thread} ELSE heldTurns
        /\ rows' = Reopen([kept(r) EXCEPT ![Event1.thread] = own_(r)], above, held(r))
        /\ Unknown(above \cup {Event1.thread}, r)
  BY DEF Active, Event1
<1>4. /\ above \subseteq Threads /\ Event1 \in Event /\ Event1.thread \in Threads /\ Event1.attention \in Times
      /\ \A t \in Threads : Told(Event1) \in [Threads -> Listing] /\ Told(Event1)[t].attention <= time
  BY <1>1, HandlerListing
<1>5. \A t \in Threads : kept(r)[t] \in Row /\ Ended(rows[t], kept(r)[t])
  BY <1>2, <1>4, HoldRowsKeeps
<1>6. kept(r) \in [Threads -> Row] BY <1>5 DEF HoldRows
<1>7. \A t \in Threads : t \in held(r) => Lifted(bb, t) /\ bb[t].listed /\ ~bb[t].question
  BY <1>2, <1>4, HeldMeans
<1>8. \E ids \in SUBSET Threads : unknown' = unknown \cup ids
  <2>1. unknown' = unknown \cup {} \/ unknown' = unknown \cup (above \cup {Event1.thread}) BY <1>3 DEF Unknown
  <2> QED BY <2>1, <1>4
<1>9. own_(r) \in {kept(r)[Event1.thread], NoRow} /\ own_(r) \in Row
  BY <1>4, <1>5, UnstaleKeeps, NoRowTyped
<1> HIDE DEF above, held, kept, own_
<1> DEFINE kept2 == [kept(r) EXCEPT ![Event1.thread] = own_(r)]
<1>10. kept2 \in [Threads -> Row] /\ \A t \in Threads : kept2[t] \in {kept(r)[t], NoRow}
  BY <1>4, <1>6, <1>9
<1>11. rows' = Reopen(kept2, above, held(r)) BY <1>3
<1> HIDE DEF kept2
<1>12. \A t \in Threads : rows'[t] \in {kept2[t], NoRow} /\ (t \in above \ held(r) => ~HasMark(rows'[t]))
  BY <1>10, <1>11, ReopenKeeps
<1>13. rows' \in [Threads -> Row]
  <2>1. rows' = [t \in Threads |-> rows'[t]] BY <1>11 DEF Reopen
  <2> QED BY <2>1, <1>10, <1>12, NoRowTyped
<1>14. \A t \in Threads : Ended(rows[t], rows'[t]) BY <1>5, <1>10, <1>12 DEF Ended
<1>15. \A t \in above : ~Holds(t) => ~HasMark(rows'[t])
  BY <1>4, <1>7, <1>12 DEF Holds
<1>16. heldTurns' = heldTurns \/ (heldTurns' = heldTurns \cup {Event1.thread} /\ Lifted(bb, Event1.thread))
  BY <1>3, <1>4, <1>7
<1> QED BY <1>1, <1>8, <1>13, <1>14, <1>15, <1>16 DEF above

LEMMA AttendedRows ==
  ASSUME Ready, Attended
  PROVE  /\ ~Quiet /\ Event1.kind = "attention"
         /\ rows' \in [Threads -> Row]
         /\ \A t \in Threads : Ended(rows[t], rows'[t])
         /\ \E ids \in SUBSET {Event1.thread} : unknown' = unknown \cup ids
         /\ heldTurns' = heldTurns \ {Event1.thread} \/ (heldTurns' = heldTurns /\ Event1.thread \in unknown')
         /\ \/ Event1.thread \in unknown'
            \/ ~bb[Event1.thread].question /\ (Lifted(bb, Event1.thread) \/ Event1.thread \in heldTurns)
            \/ rows'[Event1.thread] = Unstale(rows[Event1.thread], Event1.attention)
<1>1. ~Quiet /\ Event1.kind = "attention" BY DEF Attended, Handle, Quiet, Event1
<1>2. Types /\ NotAhead BY DEF Ready
<1> DEFINE e == Event1.thread
           held(r) == HeldBy(Event1, {e}, TurnHeld(e), r)
           kept(r) == HoldRows(held(r), Told(Event1))
           skips(r) == ~r /\ HasMark(rows[e]) /\ TurnHeld(e) # {}
<1>3. PICK r \in BOOLEAN :
        /\ heldTurns' = IF skips(r) THEN heldTurns ELSE heldTurns \ {e}
        /\ rows' = IF skips(r) THEN rows ELSE [kept(r) EXCEPT ![e] = Unstale(@, Event1.attention)]
        /\ Unknown({e}, r)
  BY DEF Attended, Event1
<1>4. /\ Event1 \in Event /\ e \in Threads /\ Event1.attention \in Times
      /\ \A t \in Threads : Told(Event1) \in [Threads -> Listing] /\ Told(Event1)[t].attention <= time
  BY <1>1, HandlerListing
<1>5. \A t \in Threads : /\ kept(r)[t] \in Row /\ Ended(rows[t], kept(r)[t])
                         /\ t \notin held(r) => kept(r)[t] = rows[t]
  BY <1>2, <1>4, HoldRowsKeeps
<1>6. kept(r) \in [Threads -> Row] BY <1>5 DEF HoldRows
<1>7. e \in held(r) => ~bb[e].question /\ (Lifted(bb, e) \/ e \in heldTurns)
  BY <1>2, <1>4, HeldMeans DEF TurnHeld
<1>8. (~r => e \in unknown') /\ \E ids \in SUBSET {e} : unknown' = unknown \cup ids
  <2>1. CASE r
    <3>1. unknown' = unknown \cup {} BY <1>3, <2>1 DEF Unknown
    <3> QED BY <2>1, <3>1
  <2>2. CASE ~r
    <3>1. unknown' = unknown \cup {e} BY <1>3, <2>2 DEF Unknown
    <3> QED BY <3>1
  <2> QED BY <2>1, <2>2
<1>9. rows \in [Threads -> Row] BY <1>2 DEF Types
<1> HIDE DEF e, held, kept
<1>10. Unstale(kept(r)[e], Event1.attention) \in {kept(r)[e], NoRow} /\ Unstale(kept(r)[e], Event1.attention) \in Row
  BY <1>4, <1>6, UnstaleKeeps
<1>11. CASE skips(r)
  <2>1. rows' = rows /\ heldTurns' = heldTurns /\ e \in unknown' BY <1>3, <1>8, <1>11
  <2> QED BY <1>1, <1>8, <1>9, <2>1 DEF Ended, e
<1>12. CASE ~skips(r)
  <2>1. rows' = [kept(r) EXCEPT ![e] = Unstale(kept(r)[e], Event1.attention)] /\ heldTurns' = heldTurns \ {e}
    BY <1>3, <1>4, <1>6, <1>12
  <2>2. rows' \in [Threads -> Row] /\ \A t \in Threads : rows'[t] \in {kept(r)[t], NoRow}
    BY <2>1, <1>4, <1>6, <1>10
  <2>3. \A t \in Threads : Ended(rows[t], rows'[t]) BY <2>2, <1>5 DEF Ended
  <2>4. e \notin held(r) => rows'[e] = Unstale(rows[e], Event1.attention) BY <2>1, <1>4, <1>5, <1>6
  <2> QED BY <1>1, <1>7, <1>8, <2>1, <2>2, <2>3, <2>4 DEF e
<1> QED BY <1>11, <1>12

LEMMA ReconcileRows ==
  ASSUME Ready, Reconcile
  PROVE  /\ rows' \in [Threads -> Row]
         /\ \A t \in Threads : Ended(rows[t], rows'[t])
         /\ own' \in [Threads -> Times]
         /\ \A t \in Threads :
              \/ own'[t] = 0 /\ own[t] <= bb[t].attention
              \/ own'[t] = own[t] /\ (bb[t].listed => rows'[t] = Unstale(rows[t], bb[t].attention))
              \/ own'[t] = own[t] /\ own[t] > bb[t].attention
<1> DEFINE held == Held(seen, Threads, {})
           kept == HoldRows(held, seen)
           now == [t \in Threads |-> IF seen[t].listed THEN Unstale(kept[t], seen[t].attention) ELSE kept[t]]
           owns == [t \in Threads |-> IF t \in held /\ own[t] <= seen[t].attention THEN 0 ELSE own[t]]
<1>1. Types /\ NotAhead /\ seen = bb BY DEF Ready, KeepsUp, Reconcile
<1>2. seen \in [Threads -> Listing] BY <1>1 DEF Types
<1>3. rows' = now /\ own' = owns BY DEF Reconcile
<1>4. \A t \in Threads : /\ kept[t] \in Row /\ Ended(rows[t], kept[t])
                         /\ t \notin held => kept[t] = rows[t]
  <2> TAKE t \in Threads
  <2>1. seen[t].attention <= time BY <1>1 DEF NotAhead
  <2> QED BY <1>1, <1>2, <2>1, HoldRowsKeeps
<1> HIDE DEF held, kept
<1>5. \A t \in Threads : now[t] \in {kept[t], NoRow} /\ now[t] \in Row
  BY <1>4, UnstaleKeeps
<1>6. now \in [Threads -> Row] BY <1>5
<1>7. owns \in [Threads -> Times]
  <2>1. own \in [Threads -> Times] /\ 0 \in Times BY <1>1, MarksAssumption DEF Types, Times
  <2> QED BY <2>1
<1>8. \A t \in Threads : Ended(rows[t], now[t]) BY <1>4, <1>5 DEF Ended
<1>9. ASSUME NEW t \in Threads
      PROVE  \/ owns[t] = 0 /\ own[t] <= bb[t].attention
             \/ owns[t] = own[t] /\ (bb[t].listed => now[t] = Unstale(rows[t], bb[t].attention))
             \/ owns[t] = own[t] /\ own[t] > bb[t].attention
  <2>1. bb[t].attention \in Int /\ own[t] \in Int BY <1>1, Heard, NoRowTyped
  <2>2. CASE t \in held BY <1>1, <2>1, <2>2
  <2>3. CASE t \notin held
    <3>1. kept[t] = rows[t] /\ owns[t] = own[t] BY <1>4, <2>3
    <3>2. bb[t].listed => now[t] = Unstale(rows[t], bb[t].attention) BY <1>1, <3>1
    <3> QED BY <3>1, <3>2
  <2> QED BY <2>2, <2>3
<1> HIDE DEF now, owns
<1> QED BY <1>3, <1>6, <1>7, <1>8, <1>9

\* What an action writes, and what it offers to Undo.
LEMMA WritesRows ==
  ASSUME Types, NEW D \in SUBSET Threads, NEW written \in [D -> Row], NEW kind \in {"set", "ended"}, Writes(written, kind)
  PROVE  /\ rows' \in [Threads -> Row]
         /\ \A t \in Threads : rows'[t] = IF t \in D THEN written[t] ELSE rows[t]
         /\ toast' \in [kind : {"set", "ended"}, changes : SUBSET Change] /\ toast'.kind = kind
         /\ \A c \in toast'.changes : /\ c.thread \in D
                                      /\ c.before = rows[c.thread] /\ c.after = written[c.thread]
         /\ \A t \in Threads : rows'[t] # rows[t] => \E c \in toast'.changes : c.thread = t
         /\ moved' \subseteq moved /\ \A t \in moved' : rows'[t] = rows[t]
         /\ unknown' = unknown
<1> DEFINE all == {[thread |-> u, before |-> rows[u], after |-> written[u]] : u \in D}
           changes == {c \in all : c.before # c.after}
<1>1. DOMAIN written = D OBVIOUS
<1>2. /\ rows' = [u \in Threads |-> IF u \in D THEN written[u] ELSE rows[u]]
      /\ toast' = [kind |-> kind, changes |-> changes]
      /\ moved' = moved \ {c.thread : c \in changes}
      /\ unknown' = unknown
  BY <1>1 DEF Writes
<1>3. rows \in [Threads -> Row] /\ moved \in SUBSET Threads BY DEF Types
<1>4. all \subseteq Change BY <1>3 DEF Change
<1>5. \A c \in all : c.thread \in D /\ c.before = rows[c.thread] /\ c.after = written[c.thread] OBVIOUS
<1>6. changes \subseteq Change BY <1>4
<1>7. ASSUME NEW t \in Threads, rows'[t] # rows[t] PROVE \E c \in changes : c.thread = t
  <2>1. t \in D /\ written[t] # rows[t] BY <1>2, <1>7
  <2> DEFINE c == [thread |-> t, before |-> rows[t], after |-> written[t]]
  <2>2. c \in changes /\ c.thread = t BY <2>1
  <2> HIDE DEF c, changes
  <2> QED BY <2>2
<1>8. \A t \in moved' : rows'[t] = rows[t]
  <2> SUFFICES ASSUME NEW t \in moved', rows'[t] # rows[t] PROVE FALSE OBVIOUS
  <2>1. t \in Threads BY <1>2, <1>3
  <2> HIDE DEF changes
  <2>2. t \in {d.thread : d \in changes} BY <1>7, <2>1
  <2> QED BY <1>2, <2>2
<1>9. rows' \in [Threads -> Row] BY <1>2, <1>3
<1>10. toast' \in [kind : {"set", "ended"}, changes : SUBSET Change] BY <1>2, <1>6
<1>11. \A t \in Threads : rows'[t] # rows[t] => \E c \in toast'.changes : c.thread = t
  <2> HIDE DEF changes
  <2> QED BY <1>2, <1>7
<1> QED BY <1>2, <1>3, <1>5, <1>9, <1>10, <1>8, <1>11

\* What an Undo gives back.
GivenBack(t, c) ==
  /\ c \in toast.changes /\ c.thread = t /\ rows[t] = c.after /\ rows'[t] = c.before
  /\ toast.kind = "ended" => t \notin moved'
  /\ HasMark(c.before) /\ own[t] > c.before.at => t \in unknown'

LEMMA UndoRows ==
  ASSUME Types, Undo
  PROVE  /\ rows' \in [Threads -> Row]
         /\ \A t \in Threads : rows'[t] = rows[t] \/ \E c \in toast.changes : GivenBack(t, c)
         /\ moved' \subseteq moved
         /\ unknown' \in SUBSET Threads /\ unknown \subseteq unknown'
<1> DEFINE settles    == {c \in toast.changes : c.after.mark = "settled"}
           back       == {c \in toast.changes : Unchanged(c) /\ (c \in settles => bb[c.thread].listed /\ ~IsBusy(bb[c.thread]))}
           first(t)   == CHOOSE c \in back : c.thread = t
           ids        == {c.thread : c \in back}
<1>1. /\ rows' = [t \in Threads |-> IF t \in ids THEN first(t).before ELSE rows[t]]
      /\ moved' = IF toast.kind = "ended" THEN moved \ ids ELSE moved
      /\ unknown' = unknown \cup {t \in ids : HasMark(first(t).before) /\ own[t] > first(t).before.at}
  BY DEF Undo
<1>2. /\ rows \in [Threads -> Row] /\ moved \in SUBSET Threads /\ unknown \in SUBSET Threads
      /\ toast.changes \subseteq Change
  BY DEF Types
<1>3. \A c \in back : c \in toast.changes /\ rows[c.thread] = c.after BY DEF Unchanged
<1>4. ids \subseteq Threads BY <1>2, <1>3 DEF Change
<1>5. \A t \in ids : first(t) \in back /\ first(t).thread = t OBVIOUS
<1> HIDE DEF back, first
<1>6. \A t \in ids : first(t) \in toast.changes /\ first(t).thread = t /\ rows[t] = first(t).after /\ first(t).before \in Row
  BY <1>2, <1>3, <1>5 DEF Change
<1> HIDE DEF ids
<1>7. rows' \in [Threads -> Row] BY <1>1, <1>2, <1>6
<1>8. ASSUME NEW t \in Threads PROVE rows'[t] = rows[t] \/ \E c \in toast.changes : GivenBack(t, c)
  <2>1. CASE t \notin ids BY <1>1, <2>1
  <2>2. CASE t \in ids
    <3>1. rows'[t] = first(t).before BY <1>1, <2>2
    <3>2. toast.kind = "ended" => t \notin moved' BY <1>1, <2>2
    <3>3. HasMark(first(t).before) /\ own[t] > first(t).before.at => t \in unknown' BY <1>1, <2>2
    <3>4. GivenBack(t, first(t)) BY <1>6, <2>2, <3>1, <3>2, <3>3 DEF GivenBack
    <3> QED BY <1>6, <2>2, <3>4
  <2> QED BY <2>1, <2>2
<1>9. moved' \subseteq moved /\ unknown' \in SUBSET Threads /\ unknown \subseteq unknown'
  BY <1>1, <1>2, <1>4
<1> QED BY <1>7, <1>8, <1>9

Offers(kind) ==
  /\ toast' \in [kind : {"set", "ended"}, changes : SUBSET Change] /\ toast'.kind = kind
  /\ \A c \in toast'.changes : c.thread \in Threads /\ c.before = rows[c.thread]
  /\ moved' \subseteq moved /\ \A t \in moved' : rows'[t] = rows[t]
  /\ unknown' = unknown

\* The threads an action has found fit for its put.
PutOn == IF action.kind = "settled" THEN {u \in Threads : action.step = 2 /\ action.listed[u] # None}
         ELSE {action.thread}

LEMMA PutRows ==
  ASSUME Ready, FinishPut
  PROVE  /\ Quiet /\ server = "up" /\ ~Idle
         /\ rows' \in [Threads -> Row]
         /\ \A t \in Threads :
              \/ rows'[t] = rows[t]
              \/ t \in PutOn /\ HasMark(rows'[t]) /\ rows'[t].at = time /\ rows'[t].held = None
         /\ Offers("set")
         /\ \A c \in toast'.changes : /\ c.thread \in PutOn
                                      /\ HasMark(c.after) /\ c.after.at = time /\ c.after.held = None
<1> DEFINE ids == IF action.kind = "settled" THEN {u \in Threads : action.listed[u] # None} ELSE {action.thread}
           at == IF action.kind = "settled" THEN time ELSE action.at
           now == RowOf(action.kind, at)
           written == [u \in ids |-> now]
<1>1. Types /\ KeepsUp BY DEF Ready
<1>2. action \in AnyAction /\ time \in Times BY <1>1 DEF Types
<1>3. action.step # 0 BY DEF FinishPut
<1>4. ~Idle /\ server = "up" /\ action.at = time /\ action.thread \in Threads /\ Quiet BY <1>1, <1>3 DEF KeepsUp
<1>5. action.kind \in Marked BY <1>2, <1>4 DEF AnyAction, Idle
<1>6. at = time /\ ids \in SUBSET Threads BY <1>4
<1>7. now \in Row /\ now.at = time /\ now.held = None /\ HasMark(now)
  BY <1>2, <1>5, <1>6, NoRowTyped DEF RowOf, Row, HasMark
<1>8. Writes(written, "set") BY DEF FinishPut
<1>9. ids = PutOn BY DEF FinishPut, PutOn
<1> HIDE DEF ids, now
<1>10. written \in [ids -> Row] /\ \A u \in ids : written[u] = now BY <1>7
<1> HIDE DEF written
<1>11. /\ rows' \in [Threads -> Row]
       /\ \A t \in Threads : rows'[t] = IF t \in ids THEN written[t] ELSE rows[t]
       /\ toast' \in [kind : {"set", "ended"}, changes : SUBSET Change] /\ toast'.kind = "set"
       /\ \A c \in toast'.changes : /\ c.thread \in ids
                                    /\ c.before = rows[c.thread] /\ c.after = written[c.thread]
       /\ moved' \subseteq moved /\ \A t \in moved' : rows'[t] = rows[t]
       /\ unknown' = unknown
  BY <1>1, <1>6, <1>8, <1>10, WritesRows
<1>12. \A t \in Threads :
         \/ rows'[t] = rows[t]
         \/ t \in PutOn /\ HasMark(rows'[t]) /\ rows'[t].at = time /\ rows'[t].held = None
  BY <1>7, <1>10, <1>11, <1>9
<1>13. \A c \in toast'.changes : /\ c.thread \in PutOn
                                 /\ HasMark(c.after) /\ c.after.at = time /\ c.after.held = None
  BY <1>7, <1>10, <1>11, <1>9
<1> QED BY <1>4, <1>6, <1>11, <1>12, <1>13 DEF Offers

\* Resume, Wake now and Unsettle.
Ends(t) == Resume(t) \/ Wake(t) \/ Unsettle(t)
LEMMA EndRows ==
  ASSUME Ready, NEW t \in Threads, Ends(t)
  PROVE  /\ rows' \in [Threads -> Row]
         /\ \A u \in Threads : rows'[u] = rows[u] \/ (rows'[u].mark \in {"none", "active"} /\ rows'[u].held = None)
         /\ Offers("ended")
         /\ \A u \in Threads : rows'[u] # rows[u] => \E c \in toast'.changes : c.thread = u
         /\ \A c \in toast'.changes : rows'[c.thread].mark \in {"none", "active"}
<1> DEFINE Over(row) == row \in Row /\ row.mark \in {"none", "active"} /\ row.held = None
<1>1. Over(NoRow) /\ Over(RowOf("active", 0)) BY MarksAssumption, NoRowTyped DEF NoRow, RowOf, Row, Times
<1>2. \E D \in SUBSET Threads : \E written \in [D -> Row] :
         Writes(written, "ended") /\ \A u \in D : Over(written[u])
  <2>1. CASE Resume(t)
    <3> DEFINE written == [u \in {t} |-> RowOf("active", 0)]
    <3>1. Writes(written, "ended") BY <2>1 DEF Resume
    <3> QED BY <1>1, <3>1
  <2>2. CASE Wake(t)
    <3> DEFINE written == [u \in {t} |-> NoRow]
    <3>1. Writes(written, "ended") BY <2>2 DEF Wake
    <3> QED BY <1>1, <3>1
  <2>3. CASE Unsettle(t)
    <3> DEFINE below == {u \in ListedTree(bb, t) \ {t} : rows[u].mark = "settled"}
               above == {u \in Above[t] : HasMark(rows[u])}
               D == {t} \cup below \cup above
               written == [u \in D |-> IF u = t THEN RowOf("active", 0) ELSE NoRow]
    <3>1. Writes(written, "ended") BY <2>3 DEF Unsettle
    <3>2. D \in SUBSET Threads BY TreeAssumption DEF ListedTree, TreeOf, Below
    <3> HIDE DEF D
    <3>3. written \in [D -> Row] /\ \A u \in D : Over(written[u]) BY <1>1
    <3> QED BY <3>1, <3>2, <3>3
  <2> QED BY <2>1, <2>2, <2>3 DEF Ends
<1>3. PICK D \in SUBSET Threads : \E written \in [D -> Row] :
         Writes(written, "ended") /\ \A u \in D : Over(written[u])
  BY <1>2
<1>4. PICK written \in [D -> Row] : Writes(written, "ended") /\ \A u \in D : Over(written[u])
  BY <1>3
<1>5. Types BY DEF Ready
<1>6. /\ rows' \in [Threads -> Row]
      /\ \A u \in Threads : rows'[u] = IF u \in D THEN written[u] ELSE rows[u]
      /\ toast' \in [kind : {"set", "ended"}, changes : SUBSET Change] /\ toast'.kind = "ended"
      /\ \A c \in toast'.changes : /\ c.thread \in D
                                   /\ c.before = rows[c.thread] /\ c.after = written[c.thread]
      /\ \A u \in Threads : rows'[u] # rows[u] => \E c \in toast'.changes : c.thread = u
      /\ moved' \subseteq moved /\ \A u \in moved' : rows'[u] = rows[u]
      /\ unknown' = unknown
  BY <1>4, <1>5, WritesRows
<1>7. \A u \in Threads : rows'[u] = rows[u] \/ (rows'[u].mark \in {"none", "active"} /\ rows'[u].held = None)
  BY <1>4, <1>6
<1>8. \A c \in toast'.changes : rows'[c.thread].mark \in {"none", "active"} BY <1>4, <1>6
<1> QED BY <1>6, <1>7, <1>8 DEF Offers

\* bb moves on one thread, and tells of that one.
BbStep(t) == StartTurn(t) \/ EndTurn(t) \/ Ask(t) \/ AnswerQuestion(t) \/ Create(t) \/ Archive(t)
Tells(t) ==
  /\ events' \in Seq(Event) /\ Len(events') <= 1
  /\ server = "down" => events' = <<>>
  /\ events' # <<>> => Head(events').thread = t /\ Head(events').attention <= time'

LEMMA BbWaits ==
  ASSUME Ready, Prompt, NEW t \in Threads, BbStep(t)
  PROVE  /\ Quiet /\ Idle /\ server \in {"up", "down"}
         /\ UNCHANGED <<rows, heldTurns, action, toast, server, seen>>
<1>1. BbMoves BY DEF BbStep, StartTurn, EndTurn, Ask, AnswerQuestion, Create, Archive
<1>2. Quiet /\ Idle /\ server # "starting" BY <1>1 DEF BbMoves, Steady, Quiet
<1>3. UNCHANGED <<rows, heldTurns, action, toast, server, seen>> BY <1>1 DEF BbMoves
<1>4. server \in {"down", "starting", "up"} BY DEF Ready, Types
<1> QED BY <1>2, <1>3, <1>4

LEMMA AnnouncesOne ==
  ASSUME Types, Quiet, server \in {"up", "down"}, time' \in Times,
         NEW kind \in {"created", "active", "attention", "gone"}, NEW t \in Threads,
         NEW attention \in Times, attention <= time', Announce(kind, t, attention)
  PROVE  Tells(t)
<1>1. /\ events' \in Seq(Event)
      /\ server = "down" => events' = <<>>
      /\ server # "down" => /\ events' # <<>> /\ Len(events') = 1
                            /\ Head(events') = [kind |-> kind, thread |-> t, attention |-> attention]
  BY Announces
<1>2. CASE server = "down" BY <1>1, <1>2, EmptySeq DEF Tells
<1>3. CASE server # "down"
  <2>1. Head(events').thread = t /\ Head(events').attention = attention BY <1>1, <1>3
  <2>2. Head(events').attention <= time' BY <2>1
  <2>3. events' \in Seq(Event) BY <1>1
  <2>4. Len(events') <= 1
    <3>1. Len(events') = 1 BY <1>1, <1>3
    <3> QED BY <3>1
  <2> QED BY <1>3, <2>1, <2>2, <2>3, <2>4 DEF Tells
<1> QED BY <1>2, <1>3

LEMMA BbTells ==
  ASSUME Ready, Prompt, NEW t \in Threads, BbStep(t)
  PROVE  /\ Tells(t)
         /\ time' \in Times /\ time <= time'
         /\ bb' \in [Threads -> Listing] /\ \A u \in Threads \ {t} : bb'[u] = bb[u]
         /\ own' \in [Threads -> Times] /\ \A u \in Threads \ {t} : own'[u] = own[u]
         /\ bb'[t].attention <= time' /\ own'[t] <= time'
         /\ own'[t] > 0 => bb'[t].attention # None
<1>1. Types /\ NotAhead /\ Family /\ Quiet /\ server \in {"up", "down"} BY BbWaits DEF Ready
<1>2. /\ bb \in [Threads -> Listing] /\ bb[t] \in Listing /\ bb[t].attention \in Times \cup {None}
      /\ own \in [Threads -> Times] /\ own[t] \in Times /\ time \in Times /\ Times \subseteq Int
  BY <1>1, Heard, NoRowTyped DEF Types
<1>3. bb[t].attention <= time /\ own[t] <= time /\ (own[t] > 0 => bb[t].attention # None)
  BY <1>1 DEF NotAhead
<1>4. time < MaxTime => time + 1 \in Times BY <1>2, MarksAssumption DEF Times
<1>5. bb[t].listed => bb[t].attention \in Times BY <1>1, <1>2 DEF Family
<1>6. None = -1 /\ \A n \in Times : n >= 0 BY MarksAssumption DEF None, Times
<1>7. CASE StartTurn(t)
  <2>1. bb' = [bb EXCEPT ![t].work = "turn"] /\ time' = time /\ own' = own /\ bb[t].listed /\ Announce("active", t, bb[t].attention)
    BY <1>7 DEF StartTurn
  <2>2. bb' \in [Threads -> Listing] /\ \A u \in Threads \ {t} : bb'[u] = bb[u] BY <1>2, <2>1 DEF Listing
  <2>3. bb'[t].attention = bb[t].attention BY <1>2, <2>1 DEF Listing
  <2>4. Tells(t) BY <1>1, <1>2, <1>3, <1>5, <2>1, AnnouncesOne
  <2> QED BY <1>2, <1>3, <2>1, <2>2, <2>3, <2>4
<1>8. CASE EndTurn(t) \/ Ask(t)
  <2>1. /\ time < MaxTime /\ time' = time + 1 /\ Announce("attention", t, time + 1)
        /\ own' = own \/ own' = [own EXCEPT ![t] = time + 1]
        /\ \/ bb' = [bb EXCEPT ![t].work = "none", ![t].question = FALSE, ![t].attention = time + 1]
           \/ bb' = [bb EXCEPT ![t].question = TRUE, ![t].attention = time + 1]
    BY <1>8 DEF EndTurn, Ask, Attention
  <2>2. time' \in Times /\ time + 1 \in Times BY <1>4, <2>1
  <2>3. \E x \in Listing : x.attention = time + 1 /\ bb' = [bb EXCEPT ![t] = x]
    <3>1. CASE bb' = [bb EXCEPT ![t].work = "none", ![t].question = FALSE, ![t].attention = time + 1]
      <4> DEFINE x == [bb[t] EXCEPT !.work = "none", !.question = FALSE, !.attention = time + 1]
      <4>1. x \in Listing /\ x.attention = time + 1 BY <1>2, <2>2 DEF Listing
      <4>2. bb' = [bb EXCEPT ![t] = x] BY <1>2, <3>1
      <4> QED BY <4>1, <4>2
    <3>2. CASE bb' = [bb EXCEPT ![t].question = TRUE, ![t].attention = time + 1]
      <4> DEFINE x == [bb[t] EXCEPT !.question = TRUE, !.attention = time + 1]
      <4>1. x \in Listing /\ x.attention = time + 1 BY <1>2, <2>2 DEF Listing
      <4>2. bb' = [bb EXCEPT ![t] = x] BY <1>2, <3>2
      <4> QED BY <4>1, <4>2
    <3> QED BY <2>1, <3>1, <3>2
  <2>4. bb' \in [Threads -> Listing] /\ (\A u \in Threads \ {t} : bb'[u] = bb[u]) /\ bb'[t].attention = time + 1
    BY <1>2, <2>3
  <2>5. own' \in [Threads -> Times] /\ (\A u \in Threads \ {t} : own'[u] = own[u]) /\ own'[t] \in {own[t], time + 1}
    BY <1>2, <2>1, <2>2
  <2>6. time + 1 <= time' BY <1>2, <2>1
  <2>7. Tells(t) BY <1>1, <2>1, <2>2, <2>6, AnnouncesOne
  <2> QED BY <1>2, <1>3, <1>6, <2>1, <2>2, <2>4, <2>5, <2>7
<1>9. CASE AnswerQuestion(t)
  <2>1. bb' = [bb EXCEPT ![t].question = FALSE] /\ time' = time /\ own' = own /\ events' = events
    BY <1>9 DEF AnswerQuestion, history
  <2>2. bb' \in [Threads -> Listing] /\ \A u \in Threads \ {t} : bb'[u] = bb[u] BY <1>2, <2>1 DEF Listing
  <2>3. bb'[t].attention = bb[t].attention BY <1>2, <2>1 DEF Listing
  <2>4. events' = <<>> BY <1>1, <2>1 DEF Quiet
  <2>5. Tells(t) BY <2>4, EmptySeq DEF Tells
  <2> QED BY <1>2, <1>3, <2>1, <2>2, <2>3, <2>5
<1>10. CASE Create(t)
  <2>1. bb' = [bb EXCEPT ![t].listed = TRUE, ![t].attention = time] /\ time' = time /\ own' = own /\ Announce("created", t, time)
    BY <1>10 DEF Create
  <2>2. bb' \in [Threads -> Listing] /\ \A u \in Threads \ {t} : bb'[u] = bb[u] BY <1>2, <2>1 DEF Listing
  <2>3. bb'[t].attention = time BY <1>2, <2>1 DEF Listing
  <2>4. Tells(t) BY <1>1, <1>2, <2>1, AnnouncesOne
  <2> QED BY <1>2, <1>3, <1>6, <2>1, <2>2, <2>3, <2>4
<1>11. CASE Archive(t)
  <2>1. /\ bb' = [bb EXCEPT ![t].listed = FALSE, ![t].work = "none", ![t].question = FALSE]
        /\ time' = time /\ own' = own /\ bb[t].listed /\ Announce("gone", t, bb[t].attention)
    BY <1>11 DEF Archive
  <2>2. bb' \in [Threads -> Listing] /\ \A u \in Threads \ {t} : bb'[u] = bb[u] BY <1>2, <2>1 DEF Listing
  <2>3. bb'[t].attention = bb[t].attention BY <1>2, <2>1 DEF Listing
  <2>4. Tells(t) BY <1>1, <1>2, <1>3, <1>5, <2>1, AnnouncesOne
  <2> QED BY <1>2, <1>3, <2>1, <2>2, <2>3, <2>4
<1> QED BY <1>7, <1>8, <1>9, <1>10, <1>11 DEF BbStep

Handler == Created \/ Active \/ Attended \/ Gone
LEMMA HandlerKeeps ==
  ASSUME Ready, Handler
  PROVE  /\ ~Quiet /\ events' = <<>> /\ server = "up" /\ Idle
         /\ UNCHANGED <<bb, time, action, toast, server, seen, begun, own, moved>>
         /\ rows' \in [Threads -> Row] /\ \A t \in Threads : Ended(rows[t], rows'[t])
         /\ heldTurns' \in SUBSET Threads
         /\ unknown' \in SUBSET Threads /\ unknown \subseteq unknown'
<1>1. Types /\ KeepsUp BY DEF Ready
<1>2. rows \in [Threads -> Row] /\ heldTurns \in SUBSET Threads /\ unknown \in SUBSET Threads BY <1>1 DEF Types
<1>3. ~Quiet BY CreatedRows, ActiveRows, AttendedRows DEF Handler, Gone, Handle, Quiet
<1>4. Event1.thread \in Threads /\ Tail(events) = <<>> /\ Idle /\ server = "up" BY <1>1, <1>3, TheEvent
<1>5. events' = Tail(events) /\ UNCHANGED <<bb, time, action, toast, server, seen, begun, own>>
  BY DEF Handler, Created, Active, Attended, Gone, Handle, bbVars
<1>6. CASE Created
  <2>1. moved' = moved /\ heldTurns' = heldTurns BY <1>6 DEF Created, Unknown
  <2> QED BY <1>2, <1>3, <1>4, <1>5, <1>6, <2>1, CreatedRows
<1>7. CASE Active
  <2>1. moved' = moved BY <1>7 DEF Active, Unknown
  <2> QED BY <1>2, <1>3, <1>4, <1>5, <1>7, <2>1, ActiveRows
<1>8. CASE Attended
  <2>1. moved' = moved BY <1>8 DEF Attended, Unknown
  <2> QED BY <1>2, <1>3, <1>4, <1>5, <1>8, <2>1, AttendedRows
<1>9. CASE Gone
  <2>1. moved' = moved /\ rows' = rows /\ unknown' = unknown /\ heldTurns' \subseteq heldTurns BY <1>9 DEF Gone
  <2> QED BY <1>2, <1>3, <1>4, <1>5, <2>1 DEF Ended
<1> QED BY <1>6, <1>7, <1>8, <1>9 DEF Handler

BeginsPut == \E t \in Putters, kind \in Markings : BeginPut(kind, t)
EndsOne == \E t \in Putters : Ends(t)
Person == BeginsPut \/ ListAgain \/ FinishPut \/ EndsOne \/ Undo
LEMMA PersonKeeps ==
  ASSUME Ready, Prompt, Person
  PROVE  /\ Quiet /\ server = "up"
         /\ UNCHANGED <<bb, time, heldTurns, events, server, seen, begun, own>>
         /\ \/ UNCHANGED <<rows, toast, moved, unknown>> /\ (BeginsPut \/ ListAgain)
            \/ FinishPut \/ (\E t \in Threads : Ends(t)) \/ Undo
<1>1. Types /\ KeepsUp BY DEF Ready
<1>2. CASE BeginsPut
  <2>1. PICK t \in Putters, kind \in Markings : BeginPut(kind, t) BY <1>2 DEF BeginsPut
  <2> QED BY <1>2, <2>1 DEF BeginPut, PersonActs, Quiet, bbVars, history
<1>3. CASE ListAgain
  <2>1. ~Idle BY <1>3 DEF ListAgain, Idle
  <2> QED BY <1>1, <1>3, <2>1 DEF ListAgain, KeepsUp, bbVars, history
<1>4. CASE FinishPut
  <2>1. Quiet /\ server = "up" BY <1>4, PutRows
  <2>2. UNCHANGED <<bb, time, heldTurns, events, server, seen, begun, own>> BY <1>4 DEF FinishPut, bbVars
  <2> QED BY <1>4, <2>1, <2>2
<1>5. CASE EndsOne \/ Undo
  <2>1. Acts BY <1>5 DEF EndsOne, Ends, Resume, Wake, Unsettle, Undo
  <2>2. EndsOne => \E t \in Threads : Ends(t) BY MarksAssumption DEF EndsOne
  <2> QED BY <1>5, <2>1, <2>2 DEF Acts, PersonActs, Quiet, bbVars
<1> QED BY <1>2, <1>3, <1>4, <1>5 DEF Person

Restart == Stop \/ Start \/ Reconcile
LEMMA RestartKeeps ==
  ASSUME Ready, Prompt, Restart
  PROVE  /\ Idle /\ Quiet /\ events' = <<>>
         /\ UNCHANGED <<bb, time, toast, moved, unknown>>
         /\ \/ Stop /\ server = "up" /\ UNCHANGED <<rows, own>>
            \/ Start /\ server = "down" /\ UNCHANGED <<rows, own, heldTurns, begun, action>>
            \/ Reconcile /\ server = "starting" /\ UNCHANGED <<heldTurns, begun, action>>
<1>1. KeepsUp BY DEF Ready
<1>2. CASE Stop BY <1>2 DEF Stop, Quiet, bbVars
<1>3. CASE Start
  <2>1. server = "down" /\ UNCHANGED <<bb, time, toast, moved, unknown, rows, own, heldTurns, begun, action, events>>
    BY <1>3 DEF Start, bbVars, history
  <2> QED BY <1>1, <1>3, <2>1 DEF KeepsUp, Quiet
<1>4. CASE Reconcile
  <2>1. server = "starting" /\ Idle /\ UNCHANGED <<bb, time, toast, moved, unknown, heldTurns, begun, action, events>>
    BY <1>4 DEF Reconcile, bbVars
  <2> QED BY <1>1, <1>4, <2>1 DEF KeepsUp, Quiet
<1> QED BY <1>2, <1>3, <1>4 DEF Restart

LEMMA Steps == Next => (\E t \in Threads : BbStep(t)) \/ Handler \/ Person \/ Restart
  BY MarksAssumption DEF Next, BbStep, Handler, Person, BeginsPut, EndsOne, Ends, Restart

-----------------------------------------------------------------------------
(***************************************************************************)
(* The bookkeeping is kept.                                                *)
(***************************************************************************)
Base == Ready /\ PutsMarks

LEMMA BbReady ==
  ASSUME Base, Prompt, NEW t \in Threads, BbStep(t)
  PROVE  Base'
<1>1. Ready /\ PutsMarks /\ Types /\ KeepsUp /\ NotAhead /\ Family BY DEF Base, Ready
<1>2. /\ Quiet /\ Idle /\ server \in {"up", "down"}
      /\ UNCHANGED <<rows, heldTurns, action, toast, server, seen>>
  BY <1>1, BbWaits
<1>3. /\ Tells(t)
      /\ time' \in Times /\ time <= time'
      /\ bb' \in [Threads -> Listing] /\ \A u \in Threads \ {t} : bb'[u] = bb[u]
      /\ own' \in [Threads -> Times] /\ \A u \in Threads \ {t} : own'[u] = own[u]
      /\ bb'[t].attention <= time' /\ own'[t] <= time'
      /\ own'[t] > 0 => bb'[t].attention # None
  BY <1>1, BbTells
<1>4. Types'
  <2>1. begun' \in SUBSET Threads
    <3>1. begun \in SUBSET Threads BY <1>1 DEF Types
    <3> QED BY <3>1 DEF BbStep, StartTurn, EndTurn, Ask, AnswerQuestion, Create, Archive, history
  <2>2. moved' \in SUBSET Threads /\ unknown' \in SUBSET Threads
    <3>1. moved \in SUBSET Threads /\ unknown \in SUBSET Threads /\ Woken(t) \subseteq Threads
      BY <1>1, TreeAssumption DEF Types, Woken
    <3> HIDE DEF Woken
    <3> QED BY <3>1 DEF BbStep, StartTurn, EndTurn, Ask, AnswerQuestion, Create, Archive, history
  <2>3. events' \in Seq(Event) BY <1>3 DEF Tells
  <2> QED BY <1>1, <1>2, <1>3, <2>1, <2>2, <2>3 DEF Types
<1>5. KeepsUp'
  <2>1. Quiet' \/ (server = "up" /\ ~Quiet') BY <1>2, <1>3 DEF Tells, Quiet
  <2>2. Idle' /\ server' = server /\ heldTurns' = heldTurns /\ action' = action BY <1>2 DEF Idle
  <2> QED BY <1>1, <1>2, <1>3, <2>1, <2>2 DEF KeepsUp, Tells
<1>6. NotAhead'
  <2>1. /\ \A u \in Threads : rows[u] \in Row /\ rows[u].held \in Int
        /\ \A c \in toast.changes : c.before.held \in Int
        /\ time \in Int /\ time' \in Int
    <3>1. /\ rows \in [Threads -> Row] /\ toast.changes \subseteq Change /\ time \in Times /\ Times \subseteq Int
          /\ None \in Int
      BY <1>1, NoRowTyped DEF Types
    <3> QED BY <1>3, <3>1 DEF Row, Change
  <2>2. \A u \in Threads : rows'[u].held <= time' BY <1>1, <1>2, <1>3, <2>1 DEF NotAhead
  <2>3. \A c \in toast'.changes : c.before.held <= time' BY <1>1, <1>2, <1>3, <2>1 DEF NotAhead
  <2>4. ~Quiet' => Event1'.attention <= time' BY <1>3 DEF Tells, Quiet, Event1
  <2>5. ASSUME NEW u \in Threads
        PROVE bb'[u].attention <= time' /\ own'[u] <= time' /\ (own'[u] > 0 => bb'[u].attention # None)
    <3>1. CASE u = t BY <1>3, <3>1
    <3>2. CASE u # t
      <4>1. bb[u].attention \in Int /\ own[u] \in Int BY <1>1, Heard, NoRowTyped
      <4>2. bb'[u] = bb[u] /\ own'[u] = own[u] BY <1>3, <3>2
      <4> QED BY <1>1, <1>3, <2>1, <4>1, <4>2 DEF NotAhead
    <3> QED BY <3>1, <3>2
  <2> QED BY <2>2, <2>3, <2>4, <2>5 DEF NotAhead
<1>7. Family'
  <2>1. bb \in [Threads -> Listing] /\ bb[t] \in Listing /\ time \in Times /\ ~(None \in Times) /\ time + 1 # None
    BY <1>1, MarksAssumption DEF Types, Times, None
  <2>2. /\ bb'[t].listed \/ bb'[t].question \/ bb'[t].work # "none" => bb'[t].attention # None
        /\ bb[t].attention # None => bb'[t].attention # None
    <3>1. CASE StartTurn(t)
      <4>1. bb'[t] = [bb[t] EXCEPT !.work = "turn"] /\ bb[t].listed BY <2>1, <3>1 DEF StartTurn
      <4> QED BY <1>1, <2>1, <4>1 DEF Family, Listing
    <3>2. CASE EndTurn(t)
      <4>1. bb'[t] = [bb[t] EXCEPT !.work = "none", !.question = FALSE, !.attention = time + 1] BY <2>1, <3>2 DEF EndTurn
      <4> QED BY <2>1, <4>1 DEF Listing
    <3>3. CASE Ask(t)
      <4>1. bb'[t] = [bb[t] EXCEPT !.question = TRUE, !.attention = time + 1] BY <2>1, <3>3 DEF Ask
      <4> QED BY <2>1, <4>1 DEF Listing
    <3>4. CASE AnswerQuestion(t)
      <4>1. bb'[t] = [bb[t] EXCEPT !.question = FALSE] BY <2>1, <3>4 DEF AnswerQuestion
      <4> QED BY <1>1, <2>1, <4>1 DEF Family, Listing
    <3>5. CASE Create(t)
      <4>1. bb'[t] = [bb[t] EXCEPT !.listed = TRUE, !.attention = time] BY <2>1, <3>5 DEF Create
      <4> QED BY <2>1, <4>1 DEF Listing
    <3>6. CASE Archive(t)
      <4>1. bb'[t] = [bb[t] EXCEPT !.listed = FALSE, !.work = "none", !.question = FALSE] BY <2>1, <3>6 DEF Archive
      <4> QED BY <2>1, <4>1 DEF Listing
    <3> QED BY <3>1, <3>2, <3>3, <3>4, <3>5, <3>6 DEF BbStep
  <2>4. bb'[t].attention # None => \A a \in Above[t] : bb[a].attention # None
    <3>1. CASE Create(t) BY <3>1 DEF Create
    <3>2. CASE ~Create(t)
      <4>1. bb[t].attention # None
        <5>1. bb[t].listed \/ bb[t].question \/ bb[t].work # "none" 
          BY <3>2 DEF BbStep, StartTurn, EndTurn, Ask, AnswerQuestion, Archive
        <5> QED BY <1>1, <5>1 DEF Family
      <4> QED BY <1>1, <4>1 DEF Family
    <3> QED BY <3>1, <3>2
  <2>5. ASSUME NEW u \in Threads
        PROVE  /\ bb'[u].listed \/ bb'[u].question \/ bb'[u].work # "none" => bb'[u].attention # None
               /\ bb'[u].attention # None => \A a \in Above[u] : bb'[a].attention # None
    <3>1. \A a \in Above[u] : a \in Threads BY TreeAssumption
    <3>2. \A a \in Threads : bb[a].attention # None => bb'[a].attention # None BY <1>3, <2>2
    <3>3. CASE u = t BY <2>2, <2>4, <3>1, <3>2, <3>3
    <3>4. CASE u # t
      <4>1. bb'[u] = bb[u] BY <1>3, <3>4
      <4> QED BY <1>1, <3>1, <3>2, <4>1 DEF Family
    <3> QED BY <3>3, <3>4
  <2> QED BY <2>5 DEF Family
<1>8. PutsMarks' BY <1>1, <1>2 DEF PutsMarks, HasMark
<1> QED BY <1>4, <1>5, <1>6, <1>7, <1>8 DEF Base, Ready

LEMMA HandlerReady ==
  ASSUME Base, Handler
  PROVE  Base'
<1>1. Ready /\ PutsMarks /\ Types /\ KeepsUp /\ NotAhead /\ Family BY DEF Base, Ready
<1>2. /\ events' = <<>> /\ server = "up" /\ Idle
      /\ UNCHANGED <<bb, time, action, toast, server, seen, begun, own, moved>>
      /\ rows' \in [Threads -> Row] /\ \A t \in Threads : Ended(rows[t], rows'[t])
      /\ heldTurns' \in SUBSET Threads
      /\ unknown' \in SUBSET Threads
  BY <1>1, HandlerKeeps
<1>3. Types'
  <2>1. events' \in Seq(Event) BY <1>2, EmptySeq
  <2> QED BY <1>1, <1>2, <2>1 DEF Types
<1>4. Quiet' BY <1>2 DEF Quiet
<1>5. KeepsUp'
  <2>1. Len(events') <= 1 BY <1>2, EmptySeq
  <2>2. Idle' /\ server' = "up" BY <1>2 DEF Idle
  <2> QED BY <1>1, <1>2, <1>4, <2>1, <2>2 DEF KeepsUp
<1>6. NotAhead'
  <2>1. \A t \in Threads : rows'[t].held <= time
    <3> TAKE t \in Threads
    <3>1. time \in Nat /\ NoRow.held = -1 /\ \A n \in Times : n \in Nat BY <1>1, MarksAssumption DEF Types, Times, NoRow, None
    <3>2. Ended(rows[t], rows'[t]) /\ rows[t].held <= time BY <1>1, <1>2 DEF NotAhead
    <3> QED BY <3>1, <3>2 DEF Ended
  <2> QED BY <1>1, <1>2, <1>4, <2>1 DEF NotAhead
<1>7. Family' /\ PutsMarks' BY <1>1, <1>2 DEF Family, PutsMarks, HasMark
<1> QED BY <1>3, <1>5, <1>6, <1>7 DEF Base, Ready

LEMMA PersonReady ==
  ASSUME Base, Prompt, Person
  PROVE  Base'
<1>1. Ready /\ PutsMarks /\ Types /\ KeepsUp /\ NotAhead /\ Family BY DEF Base, Ready
<1>2. /\ Quiet /\ server = "up"
      /\ UNCHANGED <<bb, time, heldTurns, events, server, seen, begun, own>>
      /\ \/ UNCHANGED <<rows, toast, moved, unknown>> /\ (BeginsPut \/ ListAgain)
         \/ FinishPut \/ (\E t \in Threads : Ends(t)) \/ Undo
  BY <1>1, PersonKeeps
<1>3. /\ rows \in [Threads -> Row] /\ moved \in SUBSET Threads /\ unknown \in SUBSET Threads /\ toast.changes \subseteq Change
      /\ action \in AnyAction /\ time \in Times /\ bb \in [Threads -> Listing]
  BY <1>1 DEF Types
<1>4. time \in Nat /\ None = -1 /\ 0 \in Times BY <1>3, MarksAssumption DEF Times, None
<1> DEFINE Fine ==
      /\ rows' \in [Threads -> Row] /\ \A t \in Threads : rows'[t].held <= time
      /\ toast' \in [kind : {"set", "ended"}, changes : SUBSET Change]
      /\ \A c \in toast'.changes : c.before.held <= time
      /\ toast'.kind = "set" => \A c \in toast'.changes : HasMark(c.after)
      /\ moved' \in SUBSET Threads /\ unknown' \in SUBSET Threads
<1>5. Fine
  <2>1. \A t \in Threads : rows[t].held <= time BY <1>1 DEF NotAhead
  <2>2. CASE UNCHANGED <<rows, toast, moved, unknown>>
    <3>1. toast \in [kind : {"set", "ended"}, changes : SUBSET Change] BY <1>1 DEF Types
    <3> QED BY <1>1, <1>3, <2>1, <2>2, <3>1 DEF NotAhead, PutsMarks
  <2>3. CASE FinishPut
    <3>1. /\ rows' \in [Threads -> Row]
          /\ \A t \in Threads : rows'[t] = rows[t] \/ (rows'[t].at = time /\ rows'[t].held = None)
          /\ Offers("set") /\ \A c \in toast'.changes : HasMark(c.after)
      BY <1>1, <2>3, PutRows
    <3> QED BY <1>3, <1>4, <2>1, <3>1 DEF Offers
  <2>4. CASE \E t \in Threads : Ends(t)
    <3>1. /\ rows' \in [Threads -> Row]
          /\ \A u \in Threads : rows'[u] = rows[u] \/ (rows'[u].mark \in {"none", "active"} /\ rows'[u].held = None)
          /\ Offers("ended")
      BY <1>1, <2>4, EndRows
    <3> QED BY <1>3, <1>4, <2>1, <3>1 DEF Offers
  <2>5. CASE Undo
    <3>1. /\ rows' \in [Threads -> Row]
          /\ \A t \in Threads : rows'[t] = rows[t] \/ \E c \in toast.changes : GivenBack(t, c)
          /\ moved' \subseteq moved /\ unknown' \in SUBSET Threads
      BY <1>1, <2>5, UndoRows
    <3>2. toast' = [kind |-> "set", changes |-> {}] BY <2>5 DEF Undo, NoToast
    <3>3. \A t \in Threads : rows'[t].held <= time
      BY <1>1, <2>1, <3>1 DEF GivenBack, NotAhead
    <3> QED BY <1>3, <3>1, <3>2, <3>3
  <2> QED BY <1>2, <2>2, <2>3, <2>4, <2>5
<1>6. action' \in AnyAction /\ (~Idle' => action'.at = time /\ action'.thread \in Threads) /\ (Idle' => action'.step = 0)
  <2>1. NoAction \in AnyAction /\ NoAction.kind = "none" /\ NoAction.step = 0
    <3>1. [t \in Threads |-> None] \in [Threads -> Times \cup {None}] OBVIOUS
    <3> QED BY <1>4, <3>1 DEF NoAction, AnyAction
  <2>2. CASE BeginsPut
    <3>1. PICK t \in Putters, kind \in Markings : BeginPut(kind, t) BY <2>2 DEF BeginsPut
    <3>2. t \in Threads /\ kind \in Marked BY MarksAssumption DEF Marked
    <3>3. Attentions \in [Threads -> Times \cup {None}] BY <1>3 DEF Attentions, Listing
    <3>4. action' = [kind |-> kind, thread |-> t, step |-> 1, listed |-> Attentions, at |-> time] BY <3>1 DEF BeginPut
    <3>5. action' \in AnyAction BY <1>3, <3>2, <3>3, <3>4 DEF AnyAction
    <3> QED BY <3>2, <3>4, <3>5 DEF Idle, Marked
  <2>3. CASE ListAgain
    <3>1. ~Idle /\ action.kind = "settled" BY <2>3 DEF ListAgain, Idle
    <3>2. action.at = time /\ action.thread \in Threads BY <1>1, <3>1 DEF KeepsUp
    <3>3. PICK tree : \/ action' = [action EXCEPT !.step = 2, !.listed = [u \in Threads |-> IF u \in tree THEN bb[u].attention ELSE None]]
                      \/ action' = NoAction
      BY <2>3 DEF ListAgain
    <3>4. [u \in Threads |-> IF u \in tree THEN bb[u].attention ELSE None] \in [Threads -> Times \cup {None}]
      BY <1>3 DEF Listing
    <3>5. CASE action' = NoAction BY <2>1, <3>5 DEF Idle
    <3>6. CASE action' = [action EXCEPT !.step = 2, !.listed = [u \in Threads |-> IF u \in tree THEN bb[u].attention ELSE None]]
      <4> DEFINE listed == [u \in Threads |-> IF u \in tree THEN bb[u].attention ELSE None]
      <4>1. action' = [action EXCEPT !.step = 2, !.listed = listed] BY <3>6
      <4>2. listed \in [Threads -> Times \cup {None}] BY <3>4
      <4> HIDE DEF listed
      <4> DEFINE T == Threads \cup {NoAction.thread}
                 K == Marked \cup {"none"}
                 L == [Threads -> Times \cup {None}]
      <4> HIDE DEF T, K, L, Fine
      <4>4. action \in [kind : K, thread : T, step : 0..2, listed : L, at : Times] BY <1>3 DEF AnyAction, T, K, L
      <4>5. listed \in L BY <4>2 DEF L
      <4>8. action' = [kind |-> action.kind, thread |-> action.thread, step |-> 2, listed |-> listed, at |-> action.at]
        BY <4>1, <4>4
      <4>9. action.kind \in K /\ action.thread \in T /\ action.at \in Times BY <4>4
      <4>6. action' \in [kind : K, thread : T, step : 0..2, listed : L, at : Times] /\ action'.kind = "settled"
        BY <3>1, <4>8, <4>9, <4>5
      <4>7. action'.at = action.at /\ action'.thread = action.thread BY <4>1, <4>4
      <4>3. action' \in AnyAction /\ action'.kind = "settled" /\ action'.at = action.at /\ action'.thread = action.thread
        BY <4>6, <4>7 DEF AnyAction, T, K, L
      <4> QED BY <3>2, <4>3 DEF Idle
    <3> QED BY <3>3, <3>5, <3>6
  <2>4. CASE FinishPut
    <3>1. action' = NoAction BY <2>4 DEF FinishPut
    <3> QED BY <2>1, <3>1 DEF Idle
  <2>5. CASE (\E t \in Threads : Ends(t)) \/ Undo
    <3>1. action' = action BY <2>5 DEF Ends, Resume, Wake, Unsettle, Undo, Acts
    <3> QED BY <1>1, <1>3, <3>1 DEF KeepsUp, Idle
  <2> QED BY <1>2, <2>2, <2>3, <2>4, <2>5
<1> HIDE DEF Fine
<1>7. Types' BY <1>1, <1>2, <1>5, <1>6 DEF Types, Fine
<1>8. KeepsUp' BY <1>1, <1>2, <1>6 DEF KeepsUp, Quiet
<1>9. NotAhead' BY <1>1, <1>2, <1>5 DEF NotAhead, Fine, Quiet, Event1
<1>10. Family' /\ PutsMarks' BY <1>1, <1>2, <1>5 DEF Family, PutsMarks, HasMark, Fine
<1> QED BY <1>7, <1>8, <1>9, <1>10 DEF Base, Ready

LEMMA RestartReady ==
  ASSUME Base, Prompt, Restart
  PROVE  Base'
<1>1. Ready /\ PutsMarks /\ Types /\ KeepsUp /\ NotAhead /\ Family BY DEF Base, Ready
<1>2. /\ Idle /\ Quiet /\ events' = <<>>
      /\ UNCHANGED <<bb, time, toast, moved, unknown>>
      /\ \/ Stop /\ server = "up" /\ UNCHANGED <<rows, own>>
         \/ Start /\ server = "down" /\ UNCHANGED <<rows, own, heldTurns, begun, action>>
         \/ Reconcile /\ server = "starting" /\ UNCHANGED <<heldTurns, begun, action>>
  BY <1>1, RestartKeeps
<1>3. events' \in Seq(Event) /\ Len(events') <= 1 /\ Quiet' BY <1>2, EmptySeq DEF Quiet
<1>4. NoAction.kind = "none" /\ NoAction.step = 0 /\ NoListing \in [Threads -> Listing] /\ NoAction \in AnyAction
  <2>1. 0 \in Times BY MarksAssumption DEF Times
  <2>2. [t \in Threads |-> None] \in [Threads -> Times \cup {None}] OBVIOUS
  <2>3. NoAction \in AnyAction /\ NoAction.kind = "none" /\ NoAction.step = 0 BY <2>1, <2>2 DEF NoAction, AnyAction
  <2>4. Unborn \in Listing BY DEF Unborn, Listing
  <2> QED BY <2>3, <2>4 DEF NoListing
<1>5. Family' /\ PutsMarks' BY <1>1, <1>2 DEF Family, PutsMarks, HasMark
<1>6. CASE Stop
  <2>1. /\ server' = "down" /\ heldTurns' = {} /\ action' = NoAction /\ begun' = {} /\ seen' = seen
        /\ UNCHANGED <<rows, own>>
    BY <1>6, <1>2 DEF Stop
  <2>2. Types' BY <1>1, <1>2, <1>3, <1>4, <2>1 DEF Types
  <2>3. KeepsUp' BY <1>2, <1>3, <1>4, <2>1 DEF KeepsUp, Idle
  <2>4. NotAhead' BY <1>1, <1>2, <1>3, <2>1 DEF NotAhead
  <2> QED BY <1>5, <2>2, <2>3, <2>4 DEF Base, Ready
<1>7. CASE Start
  <2>1. server' = "starting" /\ seen' = bb /\ UNCHANGED <<rows, own, heldTurns, begun, action>> /\ server = "down"
    BY <1>7, <1>2 DEF Start, history
  <2>2. Types' BY <1>1, <1>2, <1>3, <2>1 DEF Types
  <2>3. KeepsUp' BY <1>1, <1>2, <1>3, <2>1 DEF KeepsUp, Idle
  <2>4. NotAhead' BY <1>1, <1>2, <1>3, <2>1 DEF NotAhead
  <2> QED BY <1>5, <2>2, <2>3, <2>4 DEF Base, Ready
<1>8. CASE Reconcile
  <2>1. server' = "up" /\ seen' = NoListing /\ UNCHANGED <<heldTurns, begun, action>> /\ server = "starting"
    BY <1>8, <1>2 DEF Reconcile, Start, Stop
  <2>2. /\ rows' \in [Threads -> Row]
        /\ \A t \in Threads : Ended(rows[t], rows'[t])
        /\ own' \in [Threads -> Times]
        /\ \A t \in Threads : own'[t] = 0 \/ own'[t] = own[t]
    BY <1>1, <1>8, ReconcileRows
  <2>6. \A t \in Threads : own[t] \in Times /\ own[t] <= time /\ rows[t].held <= time /\ (own[t] > 0 => bb[t].attention # None)
    BY <1>1, Heard DEF NotAhead
  <2>3. Types' BY <1>1, <1>2, <1>3, <1>4, <2>1, <2>2 DEF Types
  <2>4. KeepsUp' BY <1>1, <1>2, <1>3, <2>1 DEF KeepsUp, Idle
  <2>5. NotAhead'
    <3>1. time \in Nat /\ NoRow.held = -1 /\ \A n \in Times : n \in Nat BY <1>1, MarksAssumption DEF Types, Times, NoRow, None
    <3>2. \A t \in Threads : rows'[t].held <= time /\ own'[t] <= time /\ (own'[t] > 0 => bb[t].attention # None)
      BY <2>2, <2>6, <3>1 DEF Ended
    <3> QED BY <1>1, <1>2, <1>3, <3>2 DEF NotAhead
  <2> QED BY <1>5, <2>3, <2>4, <2>5 DEF Base, Ready
<1> QED BY <1>2, <1>6, <1>7, <1>8

-----------------------------------------------------------------------------
(***************************************************************************)
(* Work comes through.                                                     *)
(***************************************************************************)
LEMMA EndedMarks ==
  ASSUME NEW row, NEW now, Ended(row, now), HasMark(now)
  PROVE  now.mark = row.mark /\ now.at = row.at /\ HasMark(row)
  BY NoRowTyped DEF Ended, HasMark, Marked

\* A turn that starts, or a new thread, leaves the holds above it as they were.
LEMMA HoldsStay ==
  ASSUME Base, Prompt, NEW t \in Threads, StartTurn(t) \/ Create(t), NEW u \in Threads \ {t}, Holds(u)'
  PROVE  Holds(u)
<1>1. Types /\ Family /\ bb \in [Threads -> Listing] /\ bb[t] \in Listing BY DEF Base, Ready, Types
<1>2. BbStep(t) BY DEF BbStep
<1>3. bb' \in [Threads -> Listing] /\ \A v \in Threads \ {t} : bb'[v] = bb[v] BY <1>2, BbTells DEF Base
<1>4. Lifted(bb', u) /\ bb[u].listed /\ ~bb[u].question BY <1>3 DEF Holds
<1>5. CASE StartTurn(t)
  <2>1. bb'[t].listed = bb[t].listed /\ bb'[t].question = bb[t].question BY <1>1, <1>5 DEF StartTurn, Listing
  <2>2. Lifted(bb, u) BY <1>1, <1>3, <1>4, <2>1, LiftedLess
  <2> QED BY <1>4, <2>2 DEF Holds
<1>6. CASE Create(t)
  <2>1. bb[t].attention = None /\ bb'[t].question = bb[t].question BY <1>1, <1>6 DEF Create, Listing
  <2>2. ~bb'[t].question BY <1>1, <2>1 DEF Family
  <2>3. \A v \in Threads : bb[v].question => t \notin Above[v] BY <1>1, <2>1 DEF Family
  <2>4. Lifted(bb, u) BY <1>1, <1>3, <1>4, <2>2, <2>3, LiftedCreated
  <2> QED BY <1>4, <2>4 DEF Holds
<1> QED BY <1>5, <1>6

LEMMA BbWork ==
  ASSUME Base, Prompt, WorkInv, NEW t \in Threads, BbStep(t)
  PROVE  WorkInv'
<1>1. Ready /\ Types BY DEF Base, Ready
<1>2. Quiet /\ server \in {"up", "down"} /\ rows' = rows BY <1>1, BbWaits
<1>3. \A u \in moved : ~HasMark(rows[u]) BY <1>2 DEF WorkInv, WorkOnItsWay
<1>4. bb[t].listed => bb[t].attention \in Times BY <1>1, Heard DEF Base, Ready, Family
<1>5. time \in Times BY <1>1 DEF Types
<1>6. ASSUME NEW u \in moved', HasMark(rows'[u]) PROVE WorkOnItsWay(u)'
  <2>1. u \notin moved /\ HasMark(rows[u]) BY <1>2, <1>3, <1>6
  <2>2. (StartTurn(t) \/ Create(t)) /\ u \in Woken(t)
    BY <2>1 DEF BbStep, StartTurn, EndTurn, Ask, AnswerQuestion, Create, Archive, history
  <2>3. u \in Above[t] /\ server # "down" /\ ~Holds(u) BY <2>2 DEF Woken, Holds
  <2>4. u \in Threads \ {t} BY <2>3, TreeAssumption
  <2>5. ~Holds(u)' BY <2>2, <2>3, <2>4, HoldsStay
  <2>6. events' # <<>> /\ Head(events').kind \in {"created", "active"} /\ Head(events').thread = t
    <3>1. CASE StartTurn(t)
      <4>1. Announce("active", t, bb[t].attention) /\ bb[t].attention \in Times BY <1>4, <3>1 DEF StartTurn
      <4>2. events' # <<>> /\ Head(events') = [kind |-> "active", thread |-> t, attention |-> bb[t].attention]
        BY <1>1, <1>2, <2>3, <4>1, Announces
      <4> QED BY <4>2
    <3>2. CASE Create(t)
      <4>1. Announce("created", t, time) BY <3>2 DEF Create
      <4>2. events' # <<>> /\ Head(events') = [kind |-> "created", thread |-> t, attention |-> time]
        BY <1>1, <1>2, <1>5, <2>3, <4>1, Announces
      <4> QED BY <4>2
    <3> QED BY <2>2, <3>1, <3>2
  <2> QED BY <2>3, <2>5, <2>6 DEF WorkOnItsWay, Quiet, Event1
<1> QED BY <1>6 DEF WorkInv

LEMMA HandlerWork ==
  ASSUME Base, WorkInv, Handler
  PROVE  WorkInv'
<1>1. Ready BY DEF Base
<1>2. moved' = moved /\ moved \subseteq Threads /\ \A t \in Threads : Ended(rows[t], rows'[t])
  BY <1>1, HandlerKeeps DEF Ready, Types
<1>3. ASSUME NEW u \in moved, HasMark(rows'[u]) PROVE FALSE
  <2>1. HasMark(rows[u]) BY <1>2, <1>3, EndedMarks
  <2>2. WorkOnItsWay(u) BY <2>1 DEF WorkInv
  <2>3. CASE Created BY <1>1, <1>3, <2>2, <2>3, CreatedRows DEF WorkOnItsWay
  <2>4. CASE Active BY <1>1, <1>3, <2>2, <2>4, ActiveRows DEF WorkOnItsWay
  <2>5. CASE Attended BY <1>1, <2>2, <2>5, AttendedRows DEF WorkOnItsWay
  <2>6. CASE Gone BY <2>2, <2>6 DEF WorkOnItsWay, Gone, Handle, Event1
  <2> QED BY <2>3, <2>4, <2>5, <2>6 DEF Handler
<1> QED BY <1>2, <1>3 DEF WorkInv

LEMMA PersonWork ==
  ASSUME Base, Prompt, WorkInv, Person
  PROVE  WorkInv'
<1>1. Ready /\ Types /\ moved \subseteq Threads BY DEF Base, Ready, Types
<1>2. Quiet /\ \/ UNCHANGED <<rows, toast, moved, unknown>>
               \/ FinishPut \/ (\E t \in Threads : Ends(t)) \/ Undo
  BY <1>1, PersonKeeps
<1>3. \A u \in moved : ~HasMark(rows[u]) BY <1>2 DEF WorkInv, WorkOnItsWay
<1>4. ASSUME NEW u \in moved', HasMark(rows'[u]) PROVE FALSE
  <2>1. CASE UNCHANGED <<rows, toast, moved, unknown>> BY <1>3, <1>4, <2>1
  <2>2. CASE FinishPut
    <3>1. u \in moved /\ rows'[u] = rows[u] BY <1>1, <1>4, <2>2, PutRows DEF Offers
    <3> QED BY <1>3, <1>4, <3>1
  <2>3. CASE \E t \in Threads : Ends(t)
    <3>1. u \in moved /\ rows'[u] = rows[u] BY <1>1, <1>4, <2>3, EndRows DEF Offers
    <3> QED BY <1>3, <1>4, <3>1
  <2>4. CASE Undo
    <3>1. u \in moved /\ u \in Threads BY <1>1, <1>4, <2>4, UndoRows
    <3>2. rows'[u] = rows[u] \/ \E c \in toast.changes : GivenBack(u, c) BY <1>1, <2>4, <3>1, UndoRows
    <3>3. PICK c \in toast.changes : GivenBack(u, c) BY <1>3, <1>4, <3>1, <3>2
    <3>4. toast.kind = "set" BY <1>1, <1>4, <3>3 DEF GivenBack, Types
    <3>5. HasMark(rows[u]) BY <3>3, <3>4 DEF GivenBack, Base, PutsMarks
    <3> QED BY <1>3, <3>1, <3>5
  <2> QED BY <1>2, <2>1, <2>2, <2>3, <2>4
<1> QED BY <1>4 DEF WorkInv

LEMMA RestartWork ==
  ASSUME Base, Prompt, WorkInv, Restart
  PROVE  WorkInv'
<1>1. Ready /\ Types /\ moved \subseteq Threads BY DEF Base, Ready, Types
<1>2. /\ Quiet /\ moved' = moved
      /\ rows' = rows \/ Reconcile
  BY <1>1, RestartKeeps
<1>3. \A u \in moved : ~HasMark(rows[u]) BY <1>2 DEF WorkInv, WorkOnItsWay
<1>4. \A u \in moved : ~HasMark(rows'[u])
  <2>1. CASE rows' = rows BY <1>3, <2>1
  <2>2. CASE Reconcile
    <3>1. \A u \in Threads : Ended(rows[u], rows'[u]) BY <1>1, <2>2, ReconcileRows
    <3> QED BY <1>1, <1>3, <3>1, EndedMarks
  <2> QED BY <1>2, <2>1, <2>2
<1> QED BY <1>2, <1>4 DEF WorkInv

-----------------------------------------------------------------------------
(***************************************************************************)
(* What is known of turns.                                                 *)
(***************************************************************************)
\* What the server is told of a step.
LEMMA BbEvent ==
  ASSUME Base, Prompt, NEW t \in Threads, BbStep(t)
  PROVE  /\ events' # <<>> => server = "up"
         /\ events' # <<>> /\ Head(events').kind = "active" => StartTurn(t)
         /\ EndTurn(t) \/ Ask(t) => (server = "up" => /\ events' # <<>>
                                                      /\ Head(events') = [kind |-> "attention", thread |-> t, attention |-> time'])
         /\ Archive(t) => (server = "up" => events' # <<>> /\ Head(events').kind = "gone" /\ Head(events').thread = t)
<1>1. Ready /\ Types BY DEF Base, Ready
<1>2. Quiet /\ server \in {"up", "down"} BY <1>1, BbWaits
<1>3. bb[t].listed => bb[t].attention \in Times BY <1>1, Heard DEF Base, Ready, Family
<1>4. time \in Times /\ time' \in Times /\ events' \in Seq(Event) BY <1>1, BbTells DEF Types, Tells
<1>5. events' # <<>> => server = "up" BY <1>1, <1>2, BbTells DEF Tells
<1>6. CASE StartTurn(t)
  <2>1. ~(EndTurn(t) \/ Ask(t))
    BY <1>6 DEF StartTurn, EndTurn, Ask
  <2>2. Announce("active", t, bb[t].attention) /\ bb[t].attention \in Times BY <1>3, <1>6 DEF StartTurn
  <2>3. server # "down" => Head(events') = [kind |-> "active", thread |-> t, attention |-> bb[t].attention]
    BY <1>1, <1>2, <2>2, Announces
  <2>4. ~Archive(t)
    <3> SUFFICES ASSUME Archive(t) PROVE FALSE OBVIOUS
    <3>1. bb[t] \in Listing /\ bb \in [Threads -> Listing] BY <1>1, Heard DEF Types
    <3>2. bb'[t].work = "turn" BY <1>6, <3>1 DEF StartTurn, Listing
    <3>3. bb'[t].work = "none" BY <3>1 DEF Archive, Listing
    <3> QED BY <3>2, <3>3
  <2> QED BY <1>5, <1>6, <2>1, <2>4
<1>7. CASE EndTurn(t) \/ Ask(t)
  <2>1. time' = time + 1 /\ Announce("attention", t, time + 1) BY <1>7 DEF EndTurn, Ask, Attention
  <2>2. server # "down" => events' # <<>> /\ Head(events') = [kind |-> "attention", thread |-> t, attention |-> time + 1]
    BY <1>1, <1>2, <1>4, <2>1, Announces
  <2>3. ~Archive(t)
    <3> SUFFICES ASSUME Archive(t) PROVE FALSE OBVIOUS
    <3>1. time' = time BY DEF Archive
    <3> QED BY <1>4, <2>1, <3>1, NoRowTyped
  <2> QED BY <1>2, <1>5, <2>1, <2>2, <2>3
<1>8. CASE AnswerQuestion(t)
  <2>1. events' = <<>> BY <1>2, <1>8 DEF AnswerQuestion, Quiet
  <2>2. time' = time BY <1>8 DEF AnswerQuestion
  <2>3. ~(EndTurn(t) \/ Ask(t)) BY <2>2, <1>4, NoRowTyped DEF EndTurn, Ask, Attention
  <2>4. Archive(t) => server = "down"
    <3> SUFFICES ASSUME Archive(t), server # "down" PROVE FALSE OBVIOUS
    <3>1. bb[t].attention \in Times /\ Announce("gone", t, bb[t].attention) BY <1>3 DEF Archive
    <3> QED BY <1>1, <1>2, <2>1, <3>1, Announces
  <2> QED BY <2>1, <2>3, <2>4
<1>9. CASE Create(t)
  <2>1. Announce("created", t, time) /\ time' = time /\ bb[t].attention = None BY <1>9 DEF Create
  <2>2. server # "down" => Head(events') = [kind |-> "created", thread |-> t, attention |-> time]
    BY <1>1, <1>2, <1>4, <2>1, Announces
  <2>3. ~(EndTurn(t) \/ Ask(t)) BY <2>1, <1>4, NoRowTyped DEF EndTurn, Ask, Attention
  <2>4. ~Archive(t) BY <2>1 DEF Archive, Base, Ready, Family
  <2> QED BY <1>5, <2>2, <2>3, <2>4
<1>10. CASE Archive(t)
  <2>1. Announce("gone", t, bb[t].attention) /\ bb[t].attention \in Times /\ time' = time BY <1>3, <1>10 DEF Archive
  <2>2. server # "down" => events' # <<>> /\ Head(events') = [kind |-> "gone", thread |-> t, attention |-> bb[t].attention]
    BY <1>1, <1>2, <2>1, Announces
  <2>3. ~(EndTurn(t) \/ Ask(t)) BY <2>1, <1>4, NoRowTyped DEF EndTurn, Ask, Attention
  <2> QED BY <1>2, <1>5, <2>2, <2>3
<1> QED BY <1>6, <1>7, <1>8, <1>9, <1>10 DEF BbStep

LEMMA BbTurns ==
  ASSUME Base, Prompt, TurnsInv, NEW t \in Threads, BbStep(t)
  PROVE  TurnsInv'
<1>1. Ready /\ Types /\ KeepsUp /\ begun \in SUBSET Threads /\ heldTurns \in SUBSET Threads BY DEF Base, Ready, Types
<1>2. Quiet /\ server \in {"up", "down"} /\ heldTurns' = heldTurns BY <1>1, BbWaits
<1>3. bb \in [Threads -> Listing] /\ bb[t] \in Listing /\ \A u \in Threads \ {t} : bb'[u] = bb[u]
  BY <1>1, BbTells DEF Types
<1>4. unknown' = unknown BY DEF BbStep, StartTurn, EndTurn, Ask, AnswerQuestion, Create, Archive, history
<1>5. \A u \in begun : bb[u].work = "turn" BY DEF TurnsInv
<1>6. \A u \in heldTurns : u \in begun \cup unknown BY <1>2 DEF TurnsInv
<1>7. /\ begun' \subseteq begun \cup {t} /\ begun \subseteq begun' \cup {t}
      /\ t \in begun' => bb'[t].work = "turn"
      /\ t \in begun /\ t \notin begun' => EndTurn(t) \/ Ask(t) \/ Archive(t)
      /\ StartTurn(t) /\ Lifted(bb, t) /\ server # "down" => t \in begun'
  <2>1. CASE StartTurn(t)
    <3>1. bb'[t].work = "turn" /\ t \notin begun BY <1>3, <1>5, <2>1 DEF StartTurn, Listing
    <3> QED BY <2>1, <3>1 DEF StartTurn
  <2>2. CASE EndTurn(t) \/ Ask(t) \/ Archive(t)
    <3>1. begun' = begun \ {t} BY <2>2 DEF EndTurn, Ask, Archive
    <3>2. ~StartTurn(t)
      <4> SUFFICES ASSUME StartTurn(t) PROVE FALSE OBVIOUS
      <4>1. Archive(t) BY <2>2 DEF StartTurn, EndTurn, Ask
      <4>2. bb'[t].work = "turn" BY <1>3 DEF StartTurn, Listing
      <4>3. bb'[t].work = "none" BY <1>3, <4>1 DEF Archive, Listing
      <4> QED BY <4>2, <4>3
    <3> QED BY <2>2, <3>1, <3>2
  <2>3. CASE AnswerQuestion(t) \/ Create(t)
    <3>1. begun' = begun BY <2>3 DEF AnswerQuestion, Create, history
    <3>2. bb'[t].work = bb[t].work BY <1>3, <2>3 DEF AnswerQuestion, Create, Listing
    <3>3. StartTurn(t) => t \in begun'
      <4> SUFFICES ASSUME StartTurn(t) PROVE FALSE OBVIOUS
      <4>1. bb'[t].work = "turn" /\ bb[t].work = "none" BY <1>3 DEF StartTurn, Listing
      <4> QED BY <3>2, <4>1
    <3> QED BY <1>5, <3>1, <3>2, <3>3
  <2> QED BY <2>1, <2>2, <2>3 DEF BbStep
<1>8. \A u \in begun' : bb'[u].work = "turn" BY <1>1, <1>3, <1>5, <1>7
<1>9. ASSUME events' # <<>>, Head(events').kind = "active", Lifted(bb', Head(events').thread)
      PROVE  Head(events').thread \in begun'
  <2>1. StartTurn(t) /\ server = "up" BY <1>9, BbEvent
  <2>2. Head(events').thread = t BY <1>1, <1>9, BbTells DEF Tells
  <2>3. bb' \in [Threads -> Listing] BY <1>1, BbTells
  <2>4. bb'[t].listed = bb[t].listed /\ bb'[t].question = bb[t].question BY <1>3, <2>1 DEF StartTurn, Listing
  <2>5. Lifted(bb', t) BY <1>9, <2>2
  <2>6. Lifted(bb, t) BY <1>1, <1>3, <2>3, <2>4, <2>5, LiftedLess DEF Types
  <2> QED BY <1>7, <2>1, <2>2, <2>6
<1>10. ASSUME NEW u \in heldTurns
       PROVE  u \in begun' \cup unknown' \/ (events' # <<>> /\ Head(events').kind \in {"attention", "gone"} /\ Head(events').thread = u)
  <2>1. CASE u \in begun' \cup unknown' BY <2>1
  <2>2. CASE u \notin begun' \cup unknown'
    <3>1. u = t /\ (EndTurn(t) \/ Ask(t) \/ Archive(t)) BY <1>4, <1>6, <1>7, <2>2
    <3>2. server = "up" BY <1>1 DEF KeepsUp
    <3>3. EndTurn(t) \/ Ask(t) => events' # <<>> /\ Head(events') = [kind |-> "attention", thread |-> t, attention |-> time']
      BY <3>2, BbEvent
    <3>4. Archive(t) => events' # <<>> /\ Head(events').kind = "gone" /\ Head(events').thread = t BY <3>2, BbEvent
    <3> QED BY <3>1, <3>3, <3>4
  <2> QED BY <2>1, <2>2
<1> QED BY <1>2, <1>8, <1>9, <1>10 DEF TurnsInv, Quiet, Event1

LEMMA HandlerTurns ==
  ASSUME Base, TurnsInv, Handler
  PROVE  TurnsInv'
<1>1. Ready BY DEF Base
<1>2. /\ ~Quiet /\ events' = <<>> /\ bb' = bb /\ begun' = begun /\ unknown \subseteq unknown'
  BY <1>1, HandlerKeeps
<1>3. \A t \in heldTurns : t \in begun \cup unknown \/ (Event1.kind \in {"attention", "gone"} /\ Event1.thread = t)
  BY DEF TurnsInv
<1>4. \A t \in heldTurns' : t \in begun \cup unknown'
  <2>1. CASE Created
    <3>1. heldTurns' = heldTurns BY <2>1 DEF Created
    <3> QED BY <1>1, <1>2, <1>3, <2>1, <3>1, CreatedRows
  <2>2. CASE Active
    <3>1. Event1.kind = "active" /\ (heldTurns' = heldTurns \/ (heldTurns' = heldTurns \cup {Event1.thread} /\ Lifted(bb, Event1.thread)))
      BY <1>1, <2>2, ActiveRows
    <3>2. Lifted(bb, Event1.thread) => Event1.thread \in begun BY <1>2, <3>1 DEF TurnsInv
    <3> QED BY <1>2, <1>3, <3>1, <3>2
  <2>3. CASE Attended
    <3>1. heldTurns' = heldTurns \ {Event1.thread} \/ (heldTurns' = heldTurns /\ Event1.thread \in unknown')
      BY <1>1, <2>3, AttendedRows
    <3> QED BY <1>2, <1>3, <3>1
  <2>4. CASE Gone
    <3>1. heldTurns' = heldTurns \ {Event1.thread} BY <2>4 DEF Gone, Event1
    <3> QED BY <1>2, <1>3, <3>1
  <2> QED BY <2>1, <2>2, <2>3, <2>4 DEF Handler
<1>5. \A t \in begun : bb[t].work = "turn" BY DEF TurnsInv
<1> QED BY <1>2, <1>4, <1>5 DEF TurnsInv, Quiet

LEMMA PersonTurns ==
  ASSUME Base, Prompt, TurnsInv, Person
  PROVE  TurnsInv'
<1>1. Ready /\ Types BY DEF Base, Ready
<1>2. /\ Quiet /\ UNCHANGED <<bb, heldTurns, events, begun>>
      /\ \/ UNCHANGED <<rows, toast, moved, unknown>>
         \/ FinishPut \/ (\E t \in Threads : Ends(t)) \/ Undo
  BY <1>1, PersonKeeps
<1>3. unknown \subseteq unknown' BY <1>1, <1>2, PutRows, EndRows, UndoRows DEF Offers
<1> QED BY <1>2, <1>3 DEF TurnsInv, Quiet

LEMMA RestartTurns ==
  ASSUME Base, Prompt, TurnsInv, Restart
  PROVE  TurnsInv'
<1>1. Ready BY DEF Base
<1>2. /\ Quiet /\ events' = <<>> /\ bb' = bb /\ unknown' = unknown
      /\ Stop \/ UNCHANGED <<heldTurns, begun>>
  BY <1>1, RestartKeeps
<1>3. CASE Stop
  <2>1. heldTurns' = {} /\ begun' = {} BY <1>3 DEF Stop
  <2> QED BY <1>2, <2>1 DEF TurnsInv, Quiet
<1>4. CASE UNCHANGED <<heldTurns, begun>> BY <1>2, <1>4 DEF TurnsInv, Quiet
<1> QED BY <1>2, <1>3, <1>4

-----------------------------------------------------------------------------
(***************************************************************************)
(* Attention comes through.                                                *)
(***************************************************************************)
LEMMA SeenAtRest ==
  ASSUME AttentionInv, Quiet, server = "up", NEW t \in Threads
  PROVE  ~Unseen(t)
  BY DEF AttentionInv, AttentionOnItsWay

LEMMA BbAttention ==
  ASSUME Base, Prompt, TurnsInv, AttentionInv, NEW t \in Threads, BbStep(t)
  PROVE  AttentionInv'
<1>1. Ready /\ Types /\ KeepsUp /\ NotAhead BY DEF Base, Ready
<1>2. Quiet /\ server \in {"up", "down"} /\ UNCHANGED <<rows, heldTurns, server>> BY <1>1, BbWaits
<1>3. /\ bb' \in [Threads -> Listing] /\ \A u \in Threads \ {t} : bb'[u] = bb[u]
      /\ \A u \in Threads \ {t} : own'[u] = own[u]
  BY <1>1, BbTells
<1>4. unknown' = unknown BY DEF BbStep, StartTurn, EndTurn, Ask, AnswerQuestion, Create, Archive, history
<1>5. /\ bb \in [Threads -> Listing] /\ bb[t] \in Listing /\ own \in [Threads -> Times] /\ own[t] \in Times
      /\ rows[t] \in Row /\ time \in Times /\ Times \subseteq Int
  BY <1>1, Heard, NoRowTyped DEF Types
\* Where neither the attention nor the listing changes, nothing does.
<1>6. ASSUME NEW u \in Threads, Unseen(u)', own'[u] = own[u], bb[u].listed,
             server = "up" \/ bb'[u].attention = bb[u].attention
      PROVE  AttentionOnItsWay(u)'
  <2>1. Unseen(u) BY <1>2, <1>4, <1>6 DEF Unseen
  <2>2. server = "down" BY <1>2, <2>1, SeenAtRest
  <2>3. bb[u].attention = own[u] /\ own[u] > rows[u].held BY <2>1 DEF AttentionInv, AttentionOnItsWay
  <2> QED BY <1>2, <1>6, <2>2, <2>3 DEF AttentionOnItsWay
<1>7. ASSUME NEW u \in Threads \ {t}, Unseen(u)' PROVE AttentionOnItsWay(u)'
  <2>1. bb'[u] = bb[u] /\ own'[u] = own[u] /\ u \in Threads BY <1>3
  <2>2. bb[u].listed BY <1>7, <2>1 DEF Unseen
  <2> QED BY <1>6, <1>7, <2>1, <2>2
<1>8. ASSUME Unseen(t)' PROVE AttentionOnItsWay(t)'
  <2>1. CASE StartTurn(t) \/ AnswerQuestion(t)
    <3>1. own' = own BY <2>1 DEF StartTurn, AnswerQuestion, history
    <3>2. bb'[t].listed = bb[t].listed /\ bb'[t].attention = bb[t].attention
      BY <1>5, <2>1 DEF StartTurn, AnswerQuestion, Listing
    <3>3. bb[t].listed BY <1>8, <3>2 DEF Unseen
    <3> QED BY <1>6, <1>8, <3>1, <3>2, <3>3
  <2>2. CASE Create(t)
    <3>1. own' = own /\ bb[t].attention = None BY <2>2 DEF Create
    <3>2. ~(own[t] > 0) BY <1>1, <3>1 DEF NotAhead
    <3>3. own[t] > rows[t].at BY <1>2, <1>8, <3>1 DEF Unseen
    <3>4. rows[t].at \in Times BY <1>5 DEF Row
    <3> QED BY <3>2, <3>3, <3>4, <1>5, MarksAssumption DEF Times
  <2>3. CASE Archive(t)
    <3>1. ~bb'[t].listed BY <1>5, <2>3 DEF Archive, Listing
    <3> QED BY <1>8, <3>1 DEF Unseen
  <2>4. CASE EndTurn(t) \/ Ask(t)
    <3>1. time' = time + 1 /\ (server = "up" => events' # <<>> /\ Head(events') = [kind |-> "attention", thread |-> t, attention |-> time'])
      BY <2>4, BbEvent DEF EndTurn, Ask, Attention
    <3>2. bb'[t].attention = time + 1 /\ bb'[t].listed = bb[t].listed
      <4>1. CASE EndTurn(t)
        <5>1. bb'[t] = [bb[t] EXCEPT !.work = "none", !.question = FALSE, !.attention = time + 1] BY <1>5, <4>1 DEF EndTurn
        <5> QED BY <1>5, <5>1 DEF Listing
      <4>2. CASE Ask(t)
        <5>1. bb'[t] = [bb[t] EXCEPT !.question = TRUE, !.attention = time + 1] BY <1>5, <4>2 DEF Ask
        <5> QED BY <1>5, <5>1 DEF Listing
      <4> QED BY <2>4, <4>1, <4>2
    <3>3. bb[t].listed BY <1>8, <3>2 DEF Unseen
    <3>4. CASE own' = own /\ server = "up" BY <1>6, <1>8, <3>3, <3>4
    <3>5. CASE own' = [own EXCEPT ![t] = time + 1]
      <4>1. own'[t] = time + 1 BY <1>5, <3>5
      <4>2. rows[t].held <= time BY <1>1 DEF NotAhead
      <4>3. rows[t].held \in Int /\ time \in Int BY <1>5, NoRowTyped DEF Row
      <4>4. own'[t] > rows'[t].held BY <1>2, <4>1, <4>2, <4>3
      <4>5. CASE server = "down" BY <1>2, <3>2, <4>1, <4>4, <4>5 DEF AttentionOnItsWay
      <4>6. CASE server = "up"
        <5>1. /\ ~Quiet' /\ Event1'.kind = "attention" /\ Event1'.thread = t /\ Event1'.attention = own'[t]
          BY <3>1, <4>1, <4>6 DEF Quiet, Event1
        <5>2. CASE Ask(t)
          <6>1. bb'[t].question BY <1>5, <5>2 DEF Ask, Listing
          <6> QED BY <3>2, <4>1, <4>4, <5>1, <6>1 DEF AttentionOnItsWay
        <5>3. CASE EndTurn(t) /\ ~(t \in begun \/ Lifted(bb, t))
          <6>1. ~Lifted(bb, t) /\ t \notin begun BY <5>3
          <6>2. ~Lifted(bb', t) BY <1>3, <1>5, <3>2, <6>1, LiftedLess
          <6>3. t \notin unknown BY <1>4, <1>8 DEF Unseen
          <6>4. t \notin heldTurns' BY <1>2, <6>1, <6>3 DEF TurnsInv
          <6> QED BY <3>2, <4>1, <4>4, <5>1, <6>2, <6>4 DEF AttentionOnItsWay
        <5>4. CASE EndTurn(t) /\ (t \in begun \/ Lifted(bb, t))
          <6>1. own' = own BY <4>6, <5>4 DEF EndTurn, Attention
          <6> QED BY <1>6, <1>8, <3>3, <4>6, <6>1
        <5> QED BY <2>4, <5>2, <5>3, <5>4
      <4> QED BY <1>2, <4>5, <4>6
    <3>6. (own' = own /\ server = "up") \/ own' = [own EXCEPT ![t] = time + 1]
      BY <1>2, <2>4 DEF EndTurn, Ask, Attention
    <3> QED BY <3>4, <3>5, <3>6
  <2> QED BY <2>1, <2>2, <2>3, <2>4 DEF BbStep
<1> QED BY <1>7, <1>8 DEF AttentionInv

LEMMA HandlerAttention ==
  ASSUME Base, TurnsInv, AttentionInv, Handler
  PROVE  AttentionInv'
<1>1. Ready /\ Types BY DEF Base, Ready
<1>2. /\ ~Quiet /\ server = "up" /\ UNCHANGED <<bb, own>>
      /\ \A t \in Threads : Ended(rows[t], rows'[t])
      /\ unknown \subseteq unknown'
  BY <1>1, HandlerKeeps
<1>3. ASSUME NEW t \in Threads, Unseen(t)' PROVE FALSE
  <2>1. HasMark(rows'[t]) BY <1>3 DEF Unseen, HasMark, Marked
  <2>2. rows'[t].mark = rows[t].mark /\ rows'[t].at = rows[t].at BY <1>2, <2>1, EndedMarks
  <2>3. Unseen(t) BY <1>2, <1>3, <2>2 DEF Unseen
  <2>4. /\ Event1.kind = "attention" /\ Event1.thread = t /\ Event1.attention = own[t] /\ own[t] > rows[t].held
        /\ bb[t].question \/ (~Lifted(bb, t) /\ t \notin heldTurns)
    BY <1>2, <2>3 DEF AttentionInv, AttentionOnItsWay
  <2>5. Attended BY <1>1, <2>4, CreatedRows, ActiveRows DEF Handler, Gone, Handle, Event1
  <2>6. t \notin unknown' BY <1>3 DEF Unseen
  <2>7. rows'[t] = Unstale(rows[t], own[t]) BY <1>1, <2>4, <2>5, <2>6, AttendedRows
  <2>8. SinceMark(rows[t], own[t]) /\ rows[t].mark \in {"parked", "settled"} BY <2>3, <2>4 DEF SinceMark, Unseen
  <2>9. rows'[t] = NoRow BY <2>7, <2>8 DEF Unstale
  <2> QED BY <1>3, <2>9, NoRowTyped DEF Unseen
<1> QED BY <1>3 DEF AttentionInv

LEMMA PersonAttention ==
  ASSUME Base, Prompt, AttentionInv, Person
  PROVE  AttentionInv'
<1>1. Ready /\ Types /\ NotAhead BY DEF Base, Ready
<1>2. /\ Quiet /\ server = "up" /\ UNCHANGED <<bb, own>>
      /\ \/ UNCHANGED <<rows, toast, moved, unknown>>
         \/ FinishPut \/ (\E t \in Threads : Ends(t)) \/ Undo
  BY <1>1, PersonKeeps
<1>3. ASSUME NEW t \in Threads, Unseen(t)' PROVE FALSE
  <2>1. ~Unseen(t) BY <1>2, SeenAtRest
  <2>2. rows'[t] = rows[t] => unknown' # unknown /\ ~(unknown \subseteq unknown')
    BY <1>2, <1>3, <2>1 DEF Unseen
  <2>3. own[t] > rows'[t].at BY <1>2, <1>3 DEF Unseen
  <2>4. CASE UNCHANGED <<rows, toast, moved, unknown>> BY <2>2, <2>4
  <2>5. CASE FinishPut
    <3>1. rows'[t] = rows[t] \/ rows'[t].at = time BY <1>1, <2>5, PutRows
    <3>2. unknown' = unknown BY <1>1, <2>5, PutRows DEF Offers
    <3>3. own[t] <= time /\ own[t] \in Int /\ time \in Int BY <1>1, Heard, NoRowTyped DEF NotAhead, Types
    <3> QED BY <2>2, <2>3, <3>1, <3>2, <3>3
  <2>6. CASE \E u \in Threads : Ends(u)
    <3>1. rows'[t] = rows[t] \/ rows'[t].mark \in {"none", "active"} BY <1>1, <2>6, EndRows
    <3>2. unknown' = unknown BY <1>1, <2>6, EndRows DEF Offers
    <3> QED BY <1>3, <2>2, <3>1, <3>2 DEF Unseen
  <2>7. CASE Undo
    <3>1. rows'[t] = rows[t] \/ \E c \in toast.changes : GivenBack(t, c) BY <1>1, <2>7, UndoRows
    <3>2. unknown \subseteq unknown' BY <1>1, <2>7, UndoRows
    <3>3. PICK c \in toast.changes : GivenBack(t, c) BY <2>2, <3>1, <3>2
    <3>4. t \in unknown' BY <1>3, <2>3, <3>3 DEF GivenBack, Unseen, HasMark, Marked
    <3> QED BY <1>3, <3>4 DEF Unseen
  <2> QED BY <1>2, <2>4, <2>5, <2>6, <2>7
<1> QED BY <1>3 DEF AttentionInv

LEMMA RestartAttention ==
  ASSUME Base, Prompt, AttentionInv, Restart
  PROVE  AttentionInv'
<1>1. Ready /\ Types BY DEF Base, Ready
<1>2. /\ Quiet /\ UNCHANGED <<bb, unknown>>
      /\ \/ Stop /\ server = "up" /\ UNCHANGED <<rows, own>>
         \/ Start /\ server = "down" /\ UNCHANGED <<rows, own>>
         \/ Reconcile /\ server = "starting"
  BY <1>1, RestartKeeps
<1>3. CASE Stop \/ Start
  <2>1. UNCHANGED <<rows, own>> BY <1>2, <1>3 DEF Stop, Start, Reconcile
  <2>2. server' \in {"down", "starting"} BY <1>3 DEF Stop, Start
  <2>3. ASSUME NEW t \in Threads, Unseen(t)' PROVE AttentionOnItsWay(t)'
    <3>1. Unseen(t) BY <1>2, <2>1, <2>3 DEF Unseen
    <3>2. bb[t].attention = own[t] /\ own[t] > rows[t].held BY <3>1 DEF AttentionInv, AttentionOnItsWay
    <3> QED BY <1>2, <2>1, <2>2, <3>2 DEF AttentionOnItsWay
  <2> QED BY <2>3 DEF AttentionInv
<1>4. CASE Reconcile
  <2>1. ASSUME NEW t \in Threads, Unseen(t)' PROVE FALSE
    <3>1. /\ Ended(rows[t], rows'[t])
          /\ \/ own'[t] = 0 /\ own[t] <= bb[t].attention
             \/ own'[t] = own[t] /\ (bb[t].listed => rows'[t] = Unstale(rows[t], bb[t].attention))
             \/ own'[t] = own[t] /\ own[t] > bb[t].attention
      BY <1>1, <1>4, ReconcileRows
    <3>2. HasMark(rows'[t]) BY <2>1 DEF Unseen, HasMark, Marked
    <3>3. rows'[t].mark = rows[t].mark /\ rows'[t].at = rows[t].at BY <3>1, <3>2, EndedMarks
    <3>4. own'[t] > rows[t].at BY <2>1, <3>3 DEF Unseen
    <3>5. /\ rows[t].at \in Int /\ rows[t].at >= 0 /\ own[t] \in Int
      BY <1>1, Heard, MarksAssumption DEF Row, Times
    <3>6. own'[t] = own[t] BY <3>1, <3>4, <3>5
    <3>7. Unseen(t) BY <1>2, <2>1, <3>3, <3>6 DEF Unseen
    <3>8. bb[t].attention = own[t] /\ own[t] > rows[t].held BY <3>7 DEF AttentionInv, AttentionOnItsWay
    <3>9. rows'[t] = Unstale(rows[t], own[t])
      <4>1. bb[t].listed BY <3>7 DEF Unseen
      <4>2. own'[t] # 0 BY <3>4, <3>5, <3>6
      <4>3. ~(own[t] > bb[t].attention) BY <3>5, <3>8
      <4> QED BY <3>1, <3>8, <4>1, <4>2, <4>3
    <3>10. SinceMark(rows[t], own[t]) /\ rows[t].mark \in {"parked", "settled"} BY <3>7, <3>8 DEF SinceMark, Unseen
    <3>11. rows'[t] = NoRow BY <3>9, <3>10 DEF Unstale
    <3> QED BY <2>1, <3>11, NoRowTyped DEF Unseen
  <2> QED BY <2>1 DEF AttentionInv
<1> QED BY <1>2, <1>3, <1>4

-----------------------------------------------------------------------------
(***************************************************************************)
(* The invariant.                                                          *)
(***************************************************************************)
LEMMA InitInv == Init => IInv
<1> SUFFICES ASSUME Init PROVE IInv OBVIOUS
<1> USE DEF Init
<1>1. 0 \in Times /\ None = -1 /\ NoRow \in Row /\ Unborn \in Listing /\ Born \subseteq Threads
  BY NoRowTyped, MarksAssumption DEF Times, None, Unborn, Listing
<1>2. bb \in [Threads -> Listing]
      /\ \A t \in Threads : /\ bb[t].attention = (IF t \in Born THEN 0 ELSE None) /\ (bb[t].listed <=> t \in Born)
                            /\ ~bb[t].question /\ bb[t].work = "none"
  <2> DEFINE Old == [Unborn EXCEPT !.listed = TRUE, !.attention = 0]
             start == [t \in Threads |-> IF t \in Born THEN Old ELSE Unborn]
  <2>1. Unborn \in Listing /\ 0 \in Times BY <1>1
  <2>2. Unborn.attention = None /\ ~Unborn.listed /\ ~Unborn.question /\ Unborn.work = "none" BY DEF Unborn
  <2>3. Old \in Listing /\ Old.attention = 0 /\ Old.listed /\ Old.question = Unborn.question /\ Old.work = Unborn.work
    BY <2>1 DEF Listing
  <2>4. bb = start OBVIOUS
  <2> HIDE DEF Old
  <2>5. start \in [Threads -> Listing] /\ \A t \in Threads : start[t] = IF t \in Born THEN Old ELSE Unborn
    BY <2>1, <2>3
  <2> HIDE DEF start, Init
  <2>6. bb \in [Threads -> Listing] BY <2>4, <2>5
  <2>7. \A t \in Threads : bb[t] = IF t \in Born THEN Old ELSE Unborn BY <2>4, <2>5
  <2>8. ASSUME NEW t \in Threads
        PROVE  /\ bb[t].attention = (IF t \in Born THEN 0 ELSE None) /\ (bb[t].listed <=> t \in Born)
               /\ ~bb[t].question /\ bb[t].work = "none"
    <3>1. CASE t \in Born
      <4>1. bb[t] = Old BY <2>7, <3>1
      <4> QED BY <2>2, <2>3, <3>1, <4>1
    <3>2. CASE t \notin Born
      <4>1. bb[t] = Unborn BY <2>7, <3>2
      <4> QED BY <2>2, <3>2, <4>1
    <3> QED BY <3>1, <3>2
  <2> QED BY <2>6, <2>8
<1>3. NoAction \in AnyAction /\ NoAction.kind = "none" /\ NoAction.step = 0
  <2>1. [t \in Threads |-> None] \in [Threads -> Times \cup {None}] OBVIOUS
  <2> QED BY <1>1, <2>1 DEF NoAction, AnyAction
<1>4. NoListing \in [Threads -> Listing] BY <1>1 DEF NoListing
<1>5. events \in Seq(Event) /\ Len(events) = 0 /\ Quiet BY EmptySeq DEF Quiet
<1>6. toast \in [kind : {"set", "ended"}, changes : SUBSET Change] /\ toast.changes = {} BY DEF NoToast
<1>7. Types BY <1>1, <1>2, <1>3, <1>4, <1>5, <1>6 DEF Types
<1>8. KeepsUp BY <1>3, <1>5 DEF KeepsUp, Idle
<1>9. NotAhead
  <2>1. \A t \in Threads : bb[t].attention <= time /\ own[t] = 0 /\ rows[t].held <= time
    <3> TAKE t \in Threads
    <3>1. rows[t] = NoRow /\ own[t] = 0 /\ time = 0 OBVIOUS
    <3>2. rows[t].held = -1 BY <1>1, <3>1 DEF NoRow
    <3>3. bb[t].attention \in {0, -1} BY <1>1, <1>2
    <3> QED BY <3>1, <3>2, <3>3
  <2>2. time = 0 /\ \A t \in Threads : own[t] <= time /\ ~(own[t] > 0) BY <2>1
  <2> QED BY <1>5, <1>6, <2>1, <2>2 DEF NotAhead
<1>10. Family
  <2>1. 0 # None BY <1>1
  <2> QED BY <1>2, <2>1, MarksAssumption, TreeAssumption DEF Family
<1>11. PutsMarks /\ WorkInv /\ TurnsInv BY <1>5, <1>6 DEF PutsMarks, WorkInv, TurnsInv
<1>12. AttentionInv BY DEF AttentionInv, Unseen, NoRow
<1> QED BY <1>7, <1>8, <1>9, <1>10, <1>11, <1>12 DEF IInv

LEMMA NextInv == Prompt /\ IInv /\ [Next]_vars => IInv'
<1> SUFFICES ASSUME Prompt, IInv, [Next]_vars PROVE IInv' OBVIOUS
<1>1. Base /\ WorkInv /\ TurnsInv /\ AttentionInv BY DEF IInv, Base, Ready
<1>2. ASSUME Base', WorkInv', TurnsInv', AttentionInv' PROVE IInv' BY <1>2 DEF IInv, Base, Ready
<1>3. CASE \E t \in Threads : BbStep(t)
  BY <1>1, <1>2, <1>3, BbReady, BbWork, BbTurns, BbAttention
<1>4. CASE Handler
  BY <1>1, <1>2, <1>4, HandlerReady, HandlerWork, HandlerTurns, HandlerAttention
<1>5. CASE Person
  BY <1>1, <1>2, <1>5, PersonReady, PersonWork, PersonTurns, PersonAttention
<1>6. CASE Restart
  BY <1>1, <1>2, <1>6, RestartReady, RestartWork, RestartTurns, RestartAttention
<1>7. CASE UNCHANGED vars
  <2>1. UNCHANGED <<bb, rows, heldTurns, events, action, toast, server, seen, time, begun, own, moved, unknown>>
    BY <1>7 DEF vars, bbVars, history
  <2>2. Types' /\ KeepsUp' /\ NotAhead' /\ Family' /\ PutsMarks'
    BY <2>1 DEF IInv, Types, KeepsUp, NotAhead, Family, PutsMarks, Quiet, Idle, Event1, HasMark
  <2>3. WorkInv' BY <2>1 DEF IInv, WorkInv, WorkOnItsWay, Quiet, Event1, Holds, HasMark, Lifted, ListedTree
  <2>4. TurnsInv' BY <2>1 DEF IInv, TurnsInv, Quiet, Event1, Lifted, ListedTree
  <2>5. AttentionInv' BY <2>1 DEF IInv, AttentionInv, Unseen, AttentionOnItsWay, Quiet, Event1, Lifted, ListedTree
  <2> QED BY <2>2, <2>3, <2>4, <2>5 DEF IInv
<1> QED BY <1>3, <1>4, <1>5, <1>6, <1>7, Steps

LEMMA Inductive == Prompt => (Spec => []IInv)
<1> SUFFICES ASSUME Prompt PROVE Spec => []IInv OBVIOUS
<1>1. Init => IInv BY InitInv
<1>2. IInv /\ [Next]_vars => IInv' BY NextInv
<1> QED BY <1>1, <1>2, PTL DEF Spec

\* While each event is handled before bb moves on, a thread whose parked or settled mark
\* is older than attention of its own comes back: thread-events.ts and reconcile.ts end
\* its mark, over every order of turns, questions, puts, undos and restarts.
THEOREM AttentionComesThrough == Prompt => (Spec => []AttentionReturns)
<1>1. IInv => AttentionReturns
  <2> SUFFICES ASSUME IInv, AtRest, NEW t \in Threads, rows[t].mark # "snoozed", Missed(t) PROVE FALSE
    BY DEF AttentionReturns
  <2>1. Unseen(t) BY DEF Missed, PutAway, HasMark, Marked, Unseen
  <2> QED BY <2>1, SeenAtRest DEF IInv, AtRest, Quiet
<1> QED BY <1>1, Inductive, PTL

\* While each event is handled before bb moves on, no marked thread stays put away once a
\* turn began or a thread was created below it with no question waiting there.
THEOREM WorkComesThrough == Prompt => (Spec => []WorkReturns)
<1>1. IInv => WorkReturns
  <2> SUFFICES ASSUME IInv, AtRest, NEW t \in Threads, PutAway(t), t \in moved PROVE FALSE
    BY DEF WorkReturns
  <2> QED BY DEF IInv, AtRest, WorkInv, WorkOnItsWay, Quiet, PutAway
<1> QED BY <1>1, Inductive, PTL

\* Only a turn asks, and only of a thread bb lists.
Turning ==
  \A t \in Threads : /\ bb[t].question => bb[t].work = "turn"
                     /\ bb[t].work = "turn" => bb[t].listed

\* A mark is of a thread bb has, and of a time that was.
Known ==
  /\ \A t \in Threads : HasMark(rows[t]) => rows[t].at <= time /\ bb[t].attention # None
  /\ \A c \in toast.changes : /\ HasMark(c.before) => c.before.at <= time /\ bb[c.thread].attention # None
                              /\ toast.kind = "set" => c.after.at <= time /\ c.after.held = None

\* What the event on its way says is so still, and the work it tells of is on record.
EventSound ==
  ~Quiet =>
    /\ Event1.kind \in {"active", "attention"} => Event1.attention = bb[Event1.thread].attention
    /\ Event1.kind \in {"attention", "gone"} => Event1.thread \notin begun
    /\ Event1.kind \in {"created", "active"} => \A a \in Above[Event1.thread] : Holds(a) \/ a \in moved

\* What a put is about to mark has no turn.
PutsIdle == ~Idle => \A t \in PutOn : bb[t].listed /\ bb[t].work = "none"

\* A marked thread's turn that began under a question is held, or is to be.
HeldInv ==
  \A t \in begun \ Hidden : HasMark(rows[t]) =>
    t \in heldTurns \cup unknown \/ (~Quiet /\ Event1.kind = "active" /\ Event1.thread = t /\ Holds(t))

\* The attention on its way to t will be taken for a question's.
Excused(t) ==
  /\ ~Quiet /\ Event1.kind = "attention" /\ Event1.thread = t
  /\ bb[t].listed /\ ~bb[t].question /\ (Lifted(bb, t) \/ t \in heldTurns)
Accounted(t, row) == own[t] > row.at \/ t \in unknown \/ Excused(t)
Goes(row) == row.mark \in {"parked", "settled"}

\* Attention that a mark has not seen is the thread's own, or about to be held.
StaleInv ==
  \A t \in Threads \ Hidden :
    Goes(rows[t]) /\ SinceMark(rows[t], bb[t].attention) => Accounted(t, rows[t])

\* The same of the marks that an Undo may give back.
UndoInv ==
  toast.kind = "set" => \A c \in toast.changes :
    c.thread \notin Hidden /\ rows[c.thread] = c.after /\ Goes(c.before) /\ SinceMark(c.before, bb[c.thread].attention)
      => c.thread \in unknown \/ (bb[c.thread].attention > c.after.at /\ Accounted(c.thread, c.before))

\* What the person ended is not marked again behind its toast.
EndedInv == toast.kind = "ended" => \A c \in toast.changes : ~HasMark(rows[c.thread])

\* A mark the person does not end goes for what is on record only.
Outlives(t) ==
  HasMark(rows[t]) /\ ~HasMark(rows'[t]) /\ toast' = toast /\ server = "up"
    => own[t] > rows[t].at \/ t \in (moved \cup unknown)'

OutInv == Turning /\ Known /\ EventSound /\ PutsIdle /\ HeldInv /\ StaleInv /\ UndoInv /\ EndedInv

-----------------------------------------------------------------------------
LEMMA Numbers == /\ None = -1 /\ Times \subseteq Int
                 /\ \A n \in Times : n >= 0 /\ n > None /\ n # None
                 /\ \A n \in Times \cup {None} : n \in Int
  BY MarksAssumption DEF None, Times

\* A row that holds some attention has seen all there was before it.
LEMMA HoldAttentionCovers ==
  ASSUME NEW row \in Row, NEW a \in Times \cup {None}, NEW b \in Times \cup {None}, b <= a
  PROVE  /\ ~SinceMark(HoldAttention(row, a), b)
         /\ HoldAttention(row, a) = row \/ HoldAttention(row, a).held # None
<1>1. row.at \in Times /\ row.held \in Times \cup {None} BY DEF Row
<1>3. row.at \in Int /\ row.held \in Int /\ a \in Int /\ b \in Int /\ row.at >= 0 BY <1>1, Numbers
<1>4. CASE SinceMark(row, a)
  <2>1. HoldAttention(row, a).at = row.at /\ HoldAttention(row, a).held = a BY <1>4 DEF HoldAttention, Row
  <2>2. a > None BY <1>4, <1>3, Numbers DEF SinceMark
  <2> QED BY <1>3, <2>1, <2>2, Numbers DEF SinceMark
<1>5. CASE ~SinceMark(row, a)
  <2>1. HoldAttention(row, a) = row BY <1>5 DEF HoldAttention
  <2> QED BY <1>5, <1>3, <2>1 DEF SinceMark
<1> QED BY <1>4, <1>5

\* What holding it does to a row.
LEMMA HeldRow ==
  ASSUME Types, NEW event \in Event, NEW held, NEW t \in Threads
  PROVE  /\ HoldRows(held, Told(event))[t].mark = rows[t].mark
         /\ t \notin held => HoldRows(held, Told(event))[t] = rows[t]
         /\ t \in held =>
              /\ HoldRows(held, Told(event))[t] = rows[t] \/ HoldRows(held, Told(event))[t].held # None
              /\ ~SinceMark(HoldRows(held, Told(event))[t], bb[t].attention)
              /\ event.thread = t => ~SinceMark(HoldRows(held, Told(event))[t], event.attention)
<1> DEFINE told == Told(event)[t].attention
           now == HoldRows(held, Told(event))[t]
<1>1. /\ rows[t] \in Row /\ bb[t].attention \in Times \cup {None} /\ event.attention \in Times /\ event.thread \in Threads
      /\ bb[t].attention \in Int /\ event.attention \in Int
  <2>1. rows[t] \in Row /\ bb[t].attention \in Times \cup {None} BY Heard
  <2>2. event.attention \in Times /\ event.thread \in Threads BY DEF Event
  <2> QED BY <2>1, <2>2, Numbers
<1>2. told \in Times \cup {None} /\ bb[t].attention <= told /\ (event.thread = t => event.attention <= told)
  <2>1. CASE t = event.thread
    <3>1. told = IF event.attention > bb[t].attention THEN event.attention ELSE bb[t].attention BY <2>1, LiftedTold
    <3> QED BY <1>1, <3>1
  <2>2. CASE t # event.thread
    <3>1. told = bb[t].attention BY <2>2, LiftedTold
    <3> QED BY <1>1, <2>2, <3>1
  <2> QED BY <2>1, <2>2
<1>3. now = IF t \in held THEN HoldAttention(rows[t], told) ELSE rows[t] BY DEF HoldRows
<1> HIDE DEF told
<1>4. HoldAttention(rows[t], told).mark = rows[t].mark BY <1>1, <1>2, HoldAttentionKeeps
<1>5. /\ ~SinceMark(HoldAttention(rows[t], told), bb[t].attention)
      /\ HoldAttention(rows[t], told) = rows[t] \/ HoldAttention(rows[t], told).held # None
  BY <1>1, <1>2, HoldAttentionCovers
<1>6. event.thread = t => ~SinceMark(HoldAttention(rows[t], told), event.attention)
  BY <1>1, <1>2, HoldAttentionCovers
<1> QED BY <1>3, <1>4, <1>5, <1>6

\* What a handler does to a row: it leaves it, ends it, or has it hold all attention there
\* is; attention a question accounts for is held; a mark ends for what is on record.
Handled(t) ==
  /\ \/ rows'[t] = rows[t] \/ ~HasMark(rows'[t])
     \/ rows'[t].held # None /\ ~SinceMark(rows'[t], bb[t].attention)
  /\ t \notin Hidden /\ Excused(t) /\ HasMark(rows[t]) =>
       t \in unknown' \/ ~SinceMark(rows'[t], bb[t].attention)
  /\ t \notin Hidden /\ HasMark(rows[t]) /\ ~HasMark(rows'[t]) =>
       \/ t \in unknown'
       \/ Event1.kind \in {"created", "active"} /\ t \in Above[Event1.thread] /\ ~Holds(t)
       \/ Goes(rows[t]) /\ SinceMark(rows[t], bb[t].attention) /\ ~Excused(t)

\* A row that was only held, or reopened from there.
LEMMA ReopenedRow ==
  ASSUME Types, NEW event \in Event, NEW held, NEW ids, NEW t \in Threads,
         NEW base, base[t] = HoldRows(held, Told(event))[t]
  PROVE  /\ \/ Reopen(base, ids, held)[t] = rows[t] \/ ~HasMark(Reopen(base, ids, held)[t])
            \/ /\ Reopen(base, ids, held)[t].held # None
               /\ ~SinceMark(Reopen(base, ids, held)[t], bb[t].attention)
         /\ HasMark(rows[t]) /\ ~HasMark(Reopen(base, ids, held)[t]) => t \in ids \ held
<1> DEFINE kept == HoldRows(held, Told(event))[t]
<1>1. /\ kept.mark = rows[t].mark
      /\ t \notin held => kept = rows[t]
      /\ t \in held => (kept = rows[t] \/ kept.held # None) /\ ~SinceMark(kept, bb[t].attention)
  BY HeldRow
<1>2. Reopen(base, ids, held)[t] = IF t \in ids \ held /\ HasMark(base[t]) THEN NoRow ELSE base[t] BY DEF Reopen
<1>3. ~HasMark(NoRow) BY NoRowTyped DEF HasMark, Marked
<1>4. HasMark(kept) <=> HasMark(rows[t]) BY <1>1 DEF HasMark
<1> HIDE DEF kept
<1>5. base[t] = kept BY DEF kept
<1> QED BY <1>1, <1>2, <1>3, <1>4, <1>5

LEMMA CreatedHandles ==
  ASSUME Ready, Created, NEW t \in Threads
  PROVE  Handled(t)
<1>1. ~Quiet /\ Event1.kind = "created" /\ Types BY CreatedRows DEF Ready
<1>2. PICK r \in BOOLEAN :
        /\ rows' = Reopen(HoldRows(HeldBy(Event1, Above[Event1.thread], {}, r), Told(Event1)), Above[Event1.thread],
                          HeldBy(Event1, Above[Event1.thread], {}, r))
        /\ Unknown(Above[Event1.thread], r)
  BY DEF Created, Event1
<1> DEFINE above == Above[Event1.thread]
           held == HeldBy(Event1, above, {}, r)
           kept == HoldRows(held, Told(Event1))
<1>3. Event1 \in Event BY <1>1, HandlerListing
<1>4. t \in held <=> r /\ t \in above /\ HasMark(rows[t]) /\ Lifted(bb, t) /\ bb[t].listed /\ t \notin Hidden /\ ~bb[t].question
  BY <1>1, <1>3, HeldMeans
<1>5. r \/ unknown' = unknown \cup above BY <1>2 DEF Unknown
<1>6. rows' = Reopen(kept, above, held) BY <1>2
<1> HIDE DEF held, kept, above
<1>8. kept[t] = HoldRows(held, Told(Event1))[t] BY DEF kept
<1>9. /\ Reopen(kept, above, held)[t] = rows[t] \/ ~HasMark(Reopen(kept, above, held)[t])
         \/ (Reopen(kept, above, held)[t].held # None /\ ~SinceMark(Reopen(kept, above, held)[t], bb[t].attention))
      /\ HasMark(rows[t]) /\ ~HasMark(Reopen(kept, above, held)[t]) => t \in above \ held
  BY <1>1, <1>3, <1>8, ReopenedRow
<1>7. /\ rows'[t] = rows[t] \/ ~HasMark(rows'[t]) \/ (rows'[t].held # None /\ ~SinceMark(rows'[t], bb[t].attention))
      /\ HasMark(rows[t]) /\ ~HasMark(rows'[t]) => t \in above \ held
  BY <1>6, <1>9
<1> QED BY <1>1, <1>4, <1>5, <1>7 DEF Handled, Excused, Holds, above

LEMMA ActiveHandles ==
  ASSUME Ready, EventSound, Active, NEW t \in Threads
  PROVE  /\ Handled(t)
         /\ t = Event1.thread /\ HasMark(rows[t]) /\ Holds(t) /\ t \notin Hidden => t \in heldTurns' \cup unknown'
<1>1. ~Quiet /\ Event1.kind = "active" /\ Types BY ActiveRows DEF Ready
<1> DEFINE e == Event1.thread
           above == Above[e]
           held(r) == HeldBy(Event1, above \cup {e}, {}, r)
           kept(r) == HoldRows(held(r), Told(Event1))
           own_(r) == IF kept(r)[e].mark = "active" THEN NoRow ELSE Unstale(kept(r)[e], Event1.attention)
           base(r) == [kept(r) EXCEPT ![e] = own_(r)]
<1>2. PICK r \in BOOLEAN :
        /\ heldTurns' = IF e \in held(r) THEN heldTurns \cup {e} ELSE heldTurns
        /\ rows' = Reopen(base(r), above, held(r))
        /\ Unknown(above \cup {e}, r)
  BY DEF Active, Event1
<1>3. Event1 \in Event /\ e \in Threads /\ e \notin above BY <1>1, HandlerListing, TreeAssumption
<1>4. t \in held(r) <=> /\ r /\ t \in above \cup {e} /\ HasMark(rows[t]) /\ Lifted(bb, t)
                        /\ bb[t].listed /\ t \notin Hidden /\ ~bb[t].question
  BY <1>1, <1>3, HeldMeans
<1>5. r \/ unknown' = unknown \cup (above \cup {e}) BY <1>2 DEF Unknown
<1>6. kept(r) = [u \in Threads |-> kept(r)[u]] BY DEF HoldRows
<1>7. CASE t # e
  <2>1. base(r)[t] = HoldRows(held(r), Told(Event1))[t] BY <1>6, <1>7
  <2>3. rows' = Reopen(base(r), above, held(r)) BY <1>2
  <2> HIDE DEF held, kept, base, above
  <2>4. /\ Reopen(base(r), above, held(r))[t] = rows[t] \/ ~HasMark(Reopen(base(r), above, held(r))[t])
           \/ /\ Reopen(base(r), above, held(r))[t].held # None
              /\ ~SinceMark(Reopen(base(r), above, held(r))[t], bb[t].attention)
        /\ HasMark(rows[t]) /\ ~HasMark(Reopen(base(r), above, held(r))[t]) => t \in above \ held(r)
    BY <1>1, <1>3, <2>1, ReopenedRow
  <2>2. /\ rows'[t] = rows[t] \/ ~HasMark(rows'[t]) \/ (rows'[t].held # None /\ ~SinceMark(rows'[t], bb[t].attention))
        /\ HasMark(rows[t]) /\ ~HasMark(rows'[t]) => t \in above \ held(r)
    BY <2>3, <2>4
  <2> QED BY <1>1, <1>4, <1>5, <1>7, <2>2 DEF Handled, Excused, Holds, above
<1>8. CASE t = e
  <2>1. base(r)[e] = own_(r) BY <1>3, <1>6
  <2>2. rows'[e] = own_(r)
    <3>1. Reopen(base(r), above, held(r))[e] = base(r)[e] BY <1>3 DEF Reopen
    <3> QED BY <1>2, <2>1, <3>1
  <2> HIDE DEF held
  <2> DEFINE now == HoldRows(held(r), Told(Event1))[e]
  <2>3. /\ now.mark = rows[e].mark
        /\ e \notin held(r) => now = rows[e]
        /\ e \in held(r) => /\ now = rows[e] \/ now.held # None
                            /\ ~SinceMark(now, bb[e].attention) /\ ~SinceMark(now, Event1.attention)
    BY <1>1, <1>3, HeldRow
  <2>4. rows'[e] = IF now.mark = "active" \/ (Goes(now) /\ SinceMark(now, Event1.attention)) THEN NoRow ELSE now
    BY <2>2 DEF Unstale, Goes
  <2> HIDE DEF now, kept
  <2>5. ~HasMark(NoRow) /\ (HasMark(now) <=> HasMark(rows[e])) /\ (now.mark = "active" => ~HasMark(now))
    BY <2>3, NoRowTyped DEF HasMark, Marked
  <2>6. Event1.attention = bb[e].attention BY <1>1 DEF EventSound
  <2>7. ~Excused(e) BY <1>1 DEF Excused
  <2>8. rows'[e] = rows[e] \/ ~HasMark(rows'[e]) \/ (rows'[e].held # None /\ ~SinceMark(rows'[e], bb[e].attention))
    BY <2>3, <2>4, <2>5
  <2>9. HasMark(rows[e]) /\ ~HasMark(rows'[e]) => Goes(rows[e]) /\ SinceMark(rows[e], bb[e].attention)
    BY <2>3, <2>4, <2>5, <2>6 DEF Goes
  <2>10. HasMark(rows[e]) /\ Holds(e) /\ e \notin Hidden => e \in heldTurns' \cup unknown'
    BY <1>2, <1>4, <1>5, <1>8 DEF Holds
  <2> QED BY <1>8, <2>7, <2>8, <2>9, <2>10 DEF Handled
<1> QED BY <1>7, <1>8

LEMMA AttendedHandles ==
  ASSUME Ready, EventSound, Attended, NEW t \in Threads
  PROVE  Handled(t)
<1>1. ~Quiet /\ Event1.kind = "attention" /\ Types BY AttendedRows DEF Ready
<1> DEFINE e == Event1.thread
           held(r) == HeldBy(Event1, {e}, TurnHeld(e), r)
           kept(r) == HoldRows(held(r), Told(Event1))
           skips(r) == ~r /\ HasMark(rows[e]) /\ TurnHeld(e) # {}
<1>2. PICK r \in BOOLEAN :
        /\ rows' = IF skips(r) THEN rows ELSE [kept(r) EXCEPT ![e] = Unstale(@, Event1.attention)]
        /\ Unknown({e}, r)
  BY DEF Attended, Event1
<1>3. Event1 \in Event /\ e \in Threads BY <1>1, HandlerListing
<1>4. r \/ unknown' = unknown \cup {e} BY <1>2 DEF Unknown
<1>5. t \in held(r) <=> /\ r /\ t = e /\ HasMark(rows[t]) /\ (Lifted(bb, t) \/ t \in TurnHeld(e))
                        /\ bb[t].listed /\ t \notin Hidden /\ ~bb[t].question
  BY <1>1, <1>3, HeldMeans
<1>6. CASE skips(r)
  <2>1. rows' = rows /\ unknown' = unknown \cup {e} BY <1>2, <1>4, <1>6
  <2> QED BY <2>1 DEF Handled, Excused
<1>7. CASE ~skips(r)
  <2>1. kept(r) = [u \in Threads |-> kept(r)[u]] BY DEF HoldRows
  <2>2. rows' = [kept(r) EXCEPT ![e] = Unstale(@, Event1.attention)] BY <1>2, <1>7
  <2> DEFINE now == kept(r)[t]
  <2>3. /\ now.mark = rows[t].mark
        /\ t \notin held(r) => now = rows[t]
        /\ t \in held(r) => /\ now = rows[t] \/ now.held # None
                            /\ ~SinceMark(now, bb[t].attention)
                            /\ e = t => ~SinceMark(now, Event1.attention)
    BY <1>1, <1>3, HeldRow
  <2>4. CASE t # e
    <3>1. rows'[t] = now BY <2>1, <2>2, <2>4
    <3>2. now = rows[t] BY <1>5, <2>3, <2>4
    <3> QED BY <2>4, <3>1, <3>2 DEF Handled, Excused
  <2>5. CASE t = e
    <3>1. rows'[t] = Unstale(now, Event1.attention) BY <1>3, <2>1, <2>2, <2>5
    <3> HIDE DEF now, held
    <3>2. rows'[t] = IF Goes(now) /\ SinceMark(now, Event1.attention) THEN NoRow ELSE now BY <3>1 DEF Unstale, Goes
    <3>3. Event1.attention = bb[t].attention BY <1>1, <2>5 DEF EventSound
    <3>4. ~HasMark(NoRow) /\ (HasMark(now) <=> HasMark(rows[t])) BY <2>3, NoRowTyped DEF HasMark, Marked
    <3>5. Excused(t) /\ HasMark(rows[t]) /\ t \notin Hidden /\ r => t \in held(r)
      BY <1>5, <2>5 DEF Excused, TurnHeld
    <3>6. t \in held(r) => rows'[t] = now BY <2>3, <2>5, <3>2
    <3>7. t \notin held(r) => rows'[t] = IF Goes(rows[t]) /\ SinceMark(rows[t], bb[t].attention) THEN NoRow ELSE rows[t]
      BY <2>3, <3>2, <3>3
    <3>8. r \/ t \in unknown' BY <1>4, <2>5
    <3>9. rows'[t] = rows[t] \/ ~HasMark(rows'[t]) \/ (rows'[t].held # None /\ ~SinceMark(rows'[t], bb[t].attention))
      BY <2>3, <3>4, <3>6, <3>7
    <3>10. t \notin Hidden /\ Excused(t) /\ HasMark(rows[t]) => t \in unknown' \/ ~SinceMark(rows'[t], bb[t].attention)
      BY <2>3, <3>5, <3>6, <3>8
    <3>11. t \notin Hidden /\ HasMark(rows[t]) /\ ~HasMark(rows'[t]) =>
             t \in unknown' \/ (Goes(rows[t]) /\ SinceMark(rows[t], bb[t].attention) /\ ~Excused(t))
      BY <3>4, <3>5, <3>6, <3>7, <3>8
    <3> QED BY <3>9, <3>10, <3>11 DEF Handled
  <2> QED BY <2>4, <2>5
<1> QED BY <1>6, <1>7

LEMMA HandlerHandles ==
  ASSUME Ready, EventSound, Handler, NEW t \in Threads
  PROVE  Handled(t)
<1>1. CASE Gone
  <2>1. rows' = rows /\ Event1.kind = "gone" BY <1>1 DEF Gone, Handle, Event1
  <2> QED BY <2>1 DEF Handled, Excused
<1> QED BY <1>1, CreatedHandles, ActiveHandles, AttendedHandles DEF Handler

\* The event of a step of bb.
LEMMA BbEvents ==
  ASSUME Base, Prompt, NEW t \in Threads, BbStep(t), events' # <<>>
  PROVE  /\ server = "up"
         /\ \/ StartTurn(t) /\ Head(events') = [kind |-> "active", thread |-> t, attention |-> bb[t].attention]
            \/ EndTurn(t) /\ Head(events') = [kind |-> "attention", thread |-> t, attention |-> time + 1]
            \/ Ask(t) /\ Head(events') = [kind |-> "attention", thread |-> t, attention |-> time + 1]
            \/ Create(t) /\ Head(events') = [kind |-> "created", thread |-> t, attention |-> time]
            \/ Archive(t) /\ Head(events') = [kind |-> "gone", thread |-> t, attention |-> bb[t].attention]
<1>1. Ready /\ Types /\ Quiet BY BbWaits DEF Base, Ready
<1>2. server = "up" BY BbEvent
<1>3. bb[t].listed => bb[t].attention \in Times BY <1>1, Heard DEF Base, Ready, Family
<1>4. time \in Times /\ time' \in Times BY <1>1, BbTells DEF Types
<1>5. server # "down" BY <1>2
<1>6. CASE StartTurn(t)
  <2>1. Announce("active", t, bb[t].attention) /\ bb[t].attention \in Times BY <1>3, <1>6 DEF StartTurn
  <2> QED BY <1>1, <1>2, <1>5, <1>6, <2>1, Announces
<1>7. CASE EndTurn(t) \/ Ask(t)
  <2>1. Announce("attention", t, time + 1) /\ time' = time + 1 BY <1>7 DEF EndTurn, Ask, Attention
  <2>2. time + 1 \in Times BY <1>4, <2>1
  <2> QED BY <1>1, <1>2, <1>5, <1>7, <2>1, <2>2, Announces
<1>8. CASE AnswerQuestion(t) BY <1>1, <1>8 DEF AnswerQuestion, Quiet
<1>9. CASE Create(t)
  <2>1. Announce("created", t, time) BY <1>9 DEF Create
  <2> QED BY <1>1, <1>2, <1>4, <1>5, <1>9, <2>1, Announces
<1>10. CASE Archive(t)
  <2>1. Announce("gone", t, bb[t].attention) /\ bb[t].attention \in Times BY <1>3, <1>10 DEF Archive
  <2> QED BY <1>1, <1>2, <1>5, <1>10, <2>1, Announces
<1> QED BY <1>6, <1>7, <1>8, <1>9, <1>10 DEF BbStep

\* What a step of bb does to its thread.
LEMMA BbThread ==
  ASSUME Base, Turning, NEW t \in Threads
  PROVE  /\ bb \in [Threads -> Listing]
         /\ StartTurn(t) => /\ bb'[t].listed /\ bb[t].listed /\ bb'[t].work = "turn" /\ ~bb[t].question /\ ~bb'[t].question
                            /\ bb'[t].attention = bb[t].attention
         /\ EndTurn(t) => /\ bb'[t].listed /\ bb[t].listed /\ bb'[t].work = "none" /\ ~bb'[t].question
                          /\ bb'[t].attention = time + 1
         /\ Ask(t) => /\ bb'[t].listed /\ bb[t].listed /\ bb'[t].work = "turn" /\ bb'[t].question
                      /\ bb'[t].attention = time + 1
         /\ AnswerQuestion(t) => /\ bb'[t].listed = bb[t].listed /\ bb'[t].work = bb[t].work /\ ~bb'[t].question
                                 /\ bb'[t].attention = bb[t].attention
         /\ Create(t) => /\ bb'[t].listed /\ bb'[t].work = "none" /\ ~bb[t].question /\ ~bb'[t].question
                         /\ bb[t].attention = None /\ bb'[t].attention = time
         /\ Archive(t) => /\ ~bb'[t].listed /\ bb'[t].work = "none" /\ ~bb'[t].question
                          /\ bb'[t].attention = bb[t].attention
<1>1. bb \in [Threads -> Listing] /\ bb[t] \in Listing /\ Family BY DEF Base, Ready, Types
<1>2. bb[t].work \in {"none", "turn"} /\ bb[t].question \in BOOLEAN /\ bb[t].listed \in BOOLEAN BY <1>1 DEF Listing
<1>3. (bb[t].question => bb[t].work = "turn") /\ (bb[t].work = "turn" => bb[t].listed) BY DEF Turning
<1>4. bb[t].attention = None => ~bb[t].question /\ bb[t].work = "none" BY <1>1 DEF Family
<1>5. ASSUME StartTurn(t)
      PROVE  /\ bb'[t].listed /\ bb[t].listed /\ bb'[t].work = "turn" /\ ~bb[t].question /\ ~bb'[t].question
             /\ bb'[t].attention = bb[t].attention
  BY <1>1, <1>2, <1>3, <1>5 DEF StartTurn, Listing
<1>6. ASSUME EndTurn(t)
      PROVE  bb'[t].listed /\ bb[t].listed /\ bb'[t].work = "none" /\ ~bb'[t].question /\ bb'[t].attention = time + 1
  <2>1. bb'[t] = [bb[t] EXCEPT !.work = "none", !.question = FALSE, !.attention = time + 1] BY <1>1, <1>6 DEF EndTurn
  <2> QED BY <1>1, <1>3, <1>6, <2>1 DEF EndTurn, Listing
<1>7. ASSUME Ask(t)
      PROVE  bb'[t].listed /\ bb[t].listed /\ bb'[t].work = "turn" /\ bb'[t].question /\ bb'[t].attention = time + 1
  <2>1. bb'[t] = [bb[t] EXCEPT !.question = TRUE, !.attention = time + 1] BY <1>1, <1>7 DEF Ask
  <2> QED BY <1>1, <1>3, <1>7, <2>1 DEF Ask, Listing
<1>8. ASSUME AnswerQuestion(t)
      PROVE  /\ bb'[t].listed = bb[t].listed /\ bb'[t].work = bb[t].work /\ ~bb'[t].question
             /\ bb'[t].attention = bb[t].attention
  BY <1>1, <1>8 DEF AnswerQuestion, Listing
<1>9. ASSUME Create(t)
      PROVE  /\ bb'[t].listed /\ bb'[t].work = "none" /\ ~bb[t].question /\ ~bb'[t].question
             /\ bb[t].attention = None /\ bb'[t].attention = time
  <2>1. bb'[t] = [bb[t] EXCEPT !.listed = TRUE, !.attention = time] /\ bb[t].attention = None BY <1>1, <1>9 DEF Create
  <2> QED BY <1>1, <1>4, <2>1 DEF Listing
<1>10. ASSUME Archive(t)
       PROVE  ~bb'[t].listed /\ bb'[t].work = "none" /\ ~bb'[t].question /\ bb'[t].attention = bb[t].attention
  BY <1>1, <1>10 DEF Archive, Listing
<1> QED BY <1>1, <1>5, <1>6, <1>7, <1>8, <1>9, <1>10

LEMMA BbTurning ==
  ASSUME Base, Prompt, Turning, NEW t \in Threads, BbStep(t)
  PROVE  Turning'
<1>1. \A u \in Threads \ {t} : bb'[u] = bb[u] BY BbTells DEF Base
<1>2. (bb'[t].question => bb'[t].work = "turn") /\ (bb'[t].work = "turn" => bb'[t].listed)
  BY BbThread DEF BbStep, Turning
<1> QED BY <1>1, <1>2 DEF Turning

\* A question that holds a mark goes on holding it, when a turn starts or a thread is created.
LEMMA HoldsGoOn ==
  ASSUME Base, Prompt, Turning, NEW t \in Threads, StartTurn(t) \/ Create(t), NEW u \in Threads \ {t}, Holds(u)
  PROVE  Holds(u)'
<1>1. BbStep(t) BY DEF BbStep
<1>2. bb' \in [Threads -> Listing] /\ \A v \in Threads \ {t} : bb'[v] = bb[v] BY <1>1, BbTells DEF Base
<1>3. bb'[t].listed /\ ~bb[t].question /\ bb \in [Threads -> Listing] BY BbThread
<1>4. Lifted(bb', u) BY <1>2, <1>3, LiftedLess DEF Holds
<1> QED BY <1>2, <1>4 DEF Holds

LEMMA BbEventSound ==
  ASSUME Base, Prompt, Turning, NEW t \in Threads, BbStep(t)
  PROVE  EventSound'
<1> SUFFICES ASSUME events' # <<>>
             PROVE  LET event == Head(events') IN
                    /\ event.kind \in {"active", "attention"} => event.attention = bb'[event.thread].attention
                    /\ event.kind \in {"attention", "gone"} => event.thread \notin begun'
                    /\ event.kind \in {"created", "active"} => \A a \in Above[event.thread] : Holds(a)' \/ a \in moved'
  BY DEF EventSound, Quiet, Event1
<1> DEFINE event == Head(events')
<1>1. /\ server = "up"
      /\ \/ StartTurn(t) /\ event = [kind |-> "active", thread |-> t, attention |-> bb[t].attention]
         \/ EndTurn(t) /\ event = [kind |-> "attention", thread |-> t, attention |-> time + 1]
         \/ Ask(t) /\ event = [kind |-> "attention", thread |-> t, attention |-> time + 1]
         \/ Create(t) /\ event = [kind |-> "created", thread |-> t, attention |-> time]
         \/ Archive(t) /\ event = [kind |-> "gone", thread |-> t, attention |-> bb[t].attention]
  BY BbEvents
<1> HIDE DEF event
<1>2. event.thread = t BY <1>1
<1>3. event.kind \in {"active", "attention"} => event.attention = bb'[t].attention BY <1>1, BbThread
<1>4. event.kind \in {"attention", "gone"} => t \notin begun'
  <2>1. event.kind \in {"attention", "gone"} => EndTurn(t) \/ Ask(t) \/ Archive(t) BY <1>1
  <2>2. EndTurn(t) \/ Ask(t) \/ Archive(t) => begun' = begun \ {t} BY DEF EndTurn, Ask, Archive
  <2> QED BY <2>1, <2>2
<1>5. ASSUME event.kind \in {"created", "active"}, NEW a \in Above[t] PROVE Holds(a)' \/ a \in moved'
  <2>1. StartTurn(t) \/ Create(t) BY <1>1, <1>5
  <2>2. a \in Threads \ {t} BY TreeAssumption
  <2>3. moved' = moved \cup Woken(t) BY <2>1 DEF StartTurn, Create
  <2>4. a \in Woken(t) \/ Holds(a) BY <1>1, <1>5 DEF Woken, Holds
  <2> QED BY <2>1, <2>2, <2>3, <2>4, HoldsGoOn
<1> QED BY <1>2, <1>3, <1>4, <1>5 DEF event

LEMMA BbHeld ==
  ASSUME Base, Prompt, Turning, HeldInv, NEW t \in Threads, BbStep(t)
  PROVE  HeldInv'
<1>1. Ready /\ Types /\ begun \in SUBSET Threads BY DEF Base, Ready, Types
<1>2. Quiet /\ server \in {"up", "down"} /\ rows' = rows /\ heldTurns' = heldTurns BY <1>1, BbWaits
<1>3. unknown' = unknown BY DEF BbStep, StartTurn, EndTurn, Ask, AnswerQuestion, Create, Archive, history
<1>4. begun' \subseteq begun \/ (StartTurn(t) /\ begun' = begun \cup {t} /\ Lifted(bb, t) /\ server # "down")
  BY DEF BbStep, StartTurn, EndTurn, Ask, AnswerQuestion, Create, Archive, history
<1>5. ASSUME NEW u \in begun', u \notin Hidden, HasMark(rows'[u]), u \notin heldTurns' \cup unknown'
      PROVE  events' # <<>> /\ Head(events').kind = "active" /\ Head(events').thread = u /\ Holds(u)'
  <2>1. u \notin begun BY <1>2, <1>3, <1>5 DEF HeldInv
  <2>2. StartTurn(t) /\ u = t /\ Lifted(bb, t) /\ server = "up" BY <1>2, <1>4, <1>5, <2>1
  <2>3. bb[t].attention \in Times
    <3>1. bb[t].listed BY <2>2 DEF StartTurn
    <3> QED BY <1>1, <3>1, Heard DEF Base, Ready, Family
  <2>4. events' # <<>> /\ Head(events') = [kind |-> "active", thread |-> t, attention |-> bb[t].attention]
    <3>1. Announce("active", t, bb[t].attention) BY <2>2 DEF StartTurn
    <3> QED BY <1>1, <1>2, <2>2, <2>3, <3>1, Announces
  <2>5. bb' \in [Threads -> Listing] /\ \A v \in Threads \ {t} : bb'[v] = bb[v] BY <1>1, BbTells
  <2>6. bb \in [Threads -> Listing] /\ bb'[t].listed /\ ~bb'[t].question /\ ~bb[t].question BY <2>2, BbThread
  <2>7. Lifted(bb', t) BY <2>2, <2>5, <2>6, LiftedLess
  <2> QED BY <2>2, <2>4, <2>6, <2>7 DEF Holds
<1> QED BY <1>5 DEF HeldInv, Quiet, Event1

\* Attention that a step of bb brings is the thread's own, or a question's.
LEMMA BbAttends ==
  ASSUME Base, Prompt, Turning, HeldInv, NEW t \in Threads, BbStep(t)
  PROVE  \/ bb'[t].attention = bb[t].attention /\ own'[t] = own[t]
         \/ bb[t].attention = None /\ bb'[t].attention = time
         \/ /\ bb'[t].attention = time + 1
            /\ own'[t] = time + 1 \/ (t \notin Hidden /\ HasMark(rows[t]) => t \in unknown' \/ Excused(t)')
<1>1. Ready /\ Types /\ own \in [Threads -> Times] BY DEF Base, Ready, Types
<1>2. Quiet /\ server \in {"up", "down"} /\ rows' = rows /\ heldTurns' = heldTurns BY <1>1, BbWaits
<1>3. unknown' = unknown BY DEF BbStep, StartTurn, EndTurn, Ask, AnswerQuestion, Create, Archive, history
<1>4. CASE StartTurn(t) \/ AnswerQuestion(t) \/ Archive(t)
  <2>1. own' = own BY <1>4 DEF StartTurn, AnswerQuestion, Archive, history
  <2> QED BY <1>4, <2>1, BbThread
<1>5. CASE Create(t) BY <1>5, BbThread
<1>6. CASE EndTurn(t) \/ Ask(t)
  <2>1. bb'[t].attention = time + 1 BY <1>6, BbThread
  <2>2. CASE own' = [own EXCEPT ![t] = time + 1] BY <1>1, <2>1, <2>2
  <2>3. CASE EndTurn(t) /\ (t \in begun \/ Lifted(bb, t)) /\ server = "up"
    <3>1. SUFFICES ASSUME t \notin Hidden, HasMark(rows[t]), t \notin unknown' PROVE Excused(t)' BY <2>1
    <3>2. events' # <<>> /\ Head(events') = [kind |-> "attention", thread |-> t, attention |-> time'] BY <2>3, BbEvent
    <3>3. bb' \in [Threads -> Listing] /\ \A v \in Threads \ {t} : bb'[v] = bb[v] BY <1>1, BbTells
    <3>4. bb \in [Threads -> Listing] /\ bb'[t].listed /\ ~bb'[t].question BY <2>3, BbThread
    <3>5. Lifted(bb, t) => Lifted(bb', t) BY <3>3, <3>4, LiftedLess
    <3>6. t \in begun => t \in heldTurns BY <1>2, <1>3, <3>1 DEF HeldInv
    <3> QED BY <1>2, <2>3, <3>2, <3>4, <3>5, <3>6 DEF Excused, Quiet, Event1
  <2> QED BY <1>2, <1>6, <2>2, <2>3 DEF EndTurn, Ask, Attention
<1> QED BY <1>4, <1>5, <1>6 DEF BbStep

LEMMA BbKnown ==
  ASSUME Base, Prompt, Turning, HeldInv, Known, NEW t \in Threads, BbStep(t)
  PROVE  Known'
<1>1. Ready /\ Types BY DEF Base, Ready
<1>2. rows' = rows /\ toast' = toast BY <1>1, BbWaits
<1>3. /\ time \in Times /\ time' \in Times /\ time <= time'
      /\ \A u \in Threads \ {t} : bb'[u] = bb[u]
  BY <1>1, BbTells DEF Types
<1>4. \A u \in Threads : bb[u].attention # None => bb'[u].attention # None
  <2>1. time # None /\ time + 1 # None BY <1>3, Numbers
  <2> QED BY <1>3, <2>1, BbAttends
<1>5. /\ \A u \in Threads : rows[u].at \in Int
      /\ \A c \in toast.changes : c.before.at \in Int /\ c.after.at \in Int /\ c.thread \in Threads
      /\ time \in Int /\ time' \in Int
  <2>1. rows \in [Threads -> Row] /\ toast.changes \subseteq Change BY <1>1 DEF Types
  <2> QED BY <1>3, <2>1, Numbers DEF Row, Change
<1>6. \A u \in Threads : HasMark(rows'[u]) => rows'[u].at <= time' /\ bb'[u].attention # None
  BY <1>2, <1>3, <1>4, <1>5 DEF Known
<1>7. \A c \in toast'.changes : /\ HasMark(c.before) => c.before.at <= time' /\ bb'[c.thread].attention # None
                                /\ toast'.kind = "set" => c.after.at <= time' /\ c.after.held = None
  BY <1>2, <1>3, <1>4, <1>5 DEF Known
<1> QED BY <1>6, <1>7 DEF Known

LEMMA BbStale ==
  ASSUME Base, Prompt, Turning, HeldInv, Known, StaleInv, NEW t \in Threads, BbStep(t)
  PROVE  StaleInv'
<1>1. Ready /\ Types BY DEF Base, Ready
<1>2. Quiet /\ rows' = rows BY <1>1, BbWaits
<1>3. unknown' = unknown BY DEF BbStep, StartTurn, EndTurn, Ask, AnswerQuestion, Create, Archive, history
<1>4. \A u \in Threads \ {t} : bb'[u] = bb[u] /\ own'[u] = own[u] BY <1>1, BbTells
<1>5. ASSUME NEW u \in Threads \ Hidden, Goes(rows'[u]), SinceMark(rows'[u], bb'[u].attention)
      PROVE  Accounted(u, rows[u])'
  <2>1. HasMark(rows[u]) BY <1>2, <1>5 DEF Goes, HasMark, Marked
  <2>2. bb[u].attention # None /\ rows[u].at <= time BY <2>1 DEF Known
  <2>3. CASE bb'[u].attention = bb[u].attention /\ own'[u] = own[u]
    <3>1. Accounted(u, rows[u]) BY <1>2, <1>5, <2>3 DEF StaleInv
    <3> QED BY <1>2, <1>3, <2>3, <3>1 DEF Accounted, Excused
  <2>4. CASE u = t /\ ~(bb'[t].attention = bb[t].attention /\ own'[t] = own[t])
    <3>1. own'[t] = time + 1 \/ t \in unknown' \/ Excused(t)' BY <1>5, <2>1, <2>2, <2>4, BbAttends
    <3>2. rows'[t].at \in Int /\ time \in Int BY <1>1, <1>2, Heard, Numbers DEF Types, Row
    <3> QED BY <1>2, <2>2, <2>4, <3>1, <3>2 DEF Accounted
  <2> QED BY <1>4, <2>3, <2>4
<1> QED BY <1>5 DEF StaleInv, Accounted, Excused

LEMMA BbUndo ==
  ASSUME Base, Prompt, Turning, HeldInv, Known, UndoInv, NEW t \in Threads, BbStep(t)
  PROVE  UndoInv'
<1>1. Ready /\ Types /\ toast.changes \subseteq Change /\ PutsMarks BY DEF Base, Ready, Types
<1>2. Quiet /\ rows' = rows /\ toast' = toast BY <1>1, BbWaits
<1>3. unknown' = unknown BY DEF BbStep, StartTurn, EndTurn, Ask, AnswerQuestion, Create, Archive, history
<1>4. \A u \in Threads \ {t} : bb'[u] = bb[u] /\ own'[u] = own[u] BY <1>1, BbTells
<1>5. ASSUME toast.kind = "set", NEW c \in toast.changes, NEW u \in Threads, u = c.thread, u \notin Hidden, rows[u] = c.after,
             Goes(c.before), SinceMark(c.before, bb'[u].attention), u \notin unknown'
      PROVE  bb'[u].attention > c.after.at /\ (own'[u] > c.before.at \/ Excused(u)')
  <2>1. HasMark(c.before) /\ HasMark(rows[u]) BY <1>1, <1>5 DEF Goes, HasMark, Marked, PutsMarks
  <2>2. bb[u].attention # None /\ c.before.at <= time /\ c.after.at <= time BY <1>5, <2>1 DEF Known
  <2>3. CASE bb'[u].attention = bb[u].attention /\ own'[u] = own[u]
    <3>1. u \in unknown \/ (bb[u].attention > c.after.at /\ Accounted(u, c.before)) BY <1>5, <2>3 DEF UndoInv
    <3> QED BY <1>2, <1>3, <1>5, <2>3, <3>1 DEF Accounted, Excused
  <2>4. CASE u = t /\ ~(bb'[t].attention = bb[t].attention /\ own'[t] = own[t])
    <3>1. bb'[t].attention = time + 1 /\ (own'[t] = time + 1 \/ Excused(t)') BY <1>5, <2>1, <2>2, <2>4, BbAttends
    <3>2. c.before.at \in Int /\ c.after.at \in Int /\ time \in Int BY <1>1, Numbers DEF Types, Row, Change
    <3> QED BY <2>2, <2>4, <3>1, <3>2
  <2> QED BY <1>4, <2>3, <2>4
<1>6. \A c \in toast.changes : c.thread \in Threads BY <1>1 DEF Change
<1> QED BY <1>2, <1>5, <1>6 DEF UndoInv, Accounted

LEMMA BbOut ==
  ASSUME Base, Prompt, OutInv, NEW t \in Threads, BbStep(t)
  PROVE  OutInv' /\ \A u \in Threads : Outlives(u)
<1>1. Idle /\ UNCHANGED <<rows, toast, action>> BY BbWaits DEF Base
<1>2. PutsIdle' BY <1>1 DEF PutsIdle, Idle
<1>3. EndedInv' BY <1>1 DEF OutInv, EndedInv, HasMark
<1>4. \A u \in Threads : Outlives(u) BY <1>1 DEF Outlives
<1> QED BY <1>2, <1>3, <1>4, BbTurning, BbKnown, BbEventSound, BbHeld, BbStale, BbUndo DEF OutInv

LEMMA HandlerKnown ==
  ASSUME Base, Known, Handler
  PROVE  Known' /\ \A t \in Threads : HasMark(rows'[t]) => HasMark(rows[t]) /\ rows'[t].mark = rows[t].mark /\ rows'[t].at = rows[t].at
<1>1. /\ UNCHANGED <<bb, time, toast>> /\ \A t \in Threads : Ended(rows[t], rows'[t]) BY HandlerKeeps DEF Base
<1>2. \A t \in Threads : HasMark(rows'[t]) => HasMark(rows[t]) /\ rows'[t].mark = rows[t].mark /\ rows'[t].at = rows[t].at
  BY <1>1, EndedMarks
<1>3. \A t \in Threads : HasMark(rows'[t]) => rows'[t].at <= time' /\ bb'[t].attention # None BY <1>1, <1>2 DEF Known
<1>4. \A c \in toast'.changes : /\ HasMark(c.before) => c.before.at <= time' /\ bb'[c.thread].attention # None
                                /\ toast'.kind = "set" => c.after.at <= time' /\ c.after.held = None
  BY <1>1 DEF Known
<1> QED BY <1>2, <1>3, <1>4 DEF Known

LEMMA HandlerHeld ==
  ASSUME Base, Known, EventSound, HeldInv, Handler
  PROVE  HeldInv'
<1>1. /\ Ready /\ ~Quiet /\ events' = <<>> /\ begun' = begun /\ bb' = bb
      /\ unknown \subseteq unknown' /\ begun \in SUBSET Threads
  BY HandlerKeeps DEF Base, Ready, Types
<1>2. ASSUME NEW t \in begun, t \notin Hidden, HasMark(rows'[t]) PROVE t \in heldTurns' \cup unknown'
  <2>1. t \in Threads /\ HasMark(rows[t]) BY <1>1, <1>2, HandlerKnown
  <2>2. t \in heldTurns \cup unknown \/ (Event1.kind = "active" /\ Event1.thread = t /\ Holds(t))
    BY <1>2, <2>1 DEF HeldInv
  <2>3. CASE Created
    <3>1. Event1.kind = "created" /\ heldTurns' = heldTurns BY <1>1, <2>3, CreatedRows DEF Created
    <3> QED BY <1>1, <2>2, <3>1
  <2>4. CASE Active
    <3>1. heldTurns \subseteq heldTurns' BY <1>1, <2>4, ActiveRows
    <3>2. t = Event1.thread /\ Holds(t) => t \in heldTurns' \cup unknown' BY <1>1, <1>2, <2>1, <2>4, ActiveHandles
    <3> QED BY <1>1, <2>2, <3>1, <3>2
  <2>5. CASE Attended \/ Gone
    <3>1. Event1.kind \in {"attention", "gone"} /\ heldTurns \ {Event1.thread} \subseteq heldTurns'
      <4>1. CASE Attended BY <1>1, <4>1, AttendedRows
      <4>2. CASE Gone BY <4>2 DEF Gone, Handle, Event1
      <4> QED BY <2>5, <4>1, <4>2
    <3>2. t # Event1.thread BY <1>1, <1>2, <3>1 DEF EventSound
    <3> QED BY <1>1, <2>2, <3>1, <3>2
  <2> QED BY <2>3, <2>4, <2>5 DEF Handler
<1> QED BY <1>1, <1>2 DEF HeldInv

LEMMA HandlerStale ==
  ASSUME Base, Known, EventSound, StaleInv, Handler
  PROVE  StaleInv'
<1>1. UNCHANGED <<bb, own>> /\ unknown \subseteq unknown' BY HandlerKeeps DEF Base
<1>2. ASSUME NEW t \in Threads \ Hidden, Goes(rows'[t]), SinceMark(rows'[t], bb[t].attention)
      PROVE  own[t] > rows'[t].at \/ t \in unknown'
  <2>1. Handled(t) BY HandlerHandles DEF Base
  <2>2. HasMark(rows'[t]) BY <1>2 DEF Goes, HasMark, Marked
  <2>3. rows'[t] = rows[t] /\ HasMark(rows[t]) BY <1>2, <2>1, <2>2, HandlerKnown DEF Handled
  <2>4. Accounted(t, rows[t]) BY <1>2, <2>3 DEF StaleInv
  <2>5. Excused(t) => t \in unknown' BY <1>2, <2>1, <2>3 DEF Handled
  <2> QED BY <1>1, <2>3, <2>4, <2>5 DEF Accounted
<1> QED BY <1>1, <1>2 DEF StaleInv, Accounted

LEMMA HandlerUndo ==
  ASSUME Base, Known, EventSound, UndoInv, Handler
  PROVE  UndoInv'
<1>1. UNCHANGED <<bb, own, toast>> /\ unknown \subseteq unknown' BY HandlerKeeps DEF Base
<1>2. /\ toast.changes \subseteq Change /\ PutsMarks /\ Types BY DEF Base, Ready, Types
<1>3. ASSUME toast.kind = "set", NEW c \in toast.changes, NEW t \in Threads, t = c.thread, t \notin Hidden, rows'[t] = c.after,
             Goes(c.before), SinceMark(c.before, bb[t].attention), t \notin unknown'
      PROVE  bb[t].attention > c.after.at /\ own[t] > c.before.at
  <2>1. Handled(t) BY HandlerHandles DEF Base
  <2>2. HasMark(rows'[t]) /\ rows'[t].held = None BY <1>2, <1>3 DEF PutsMarks, Known
  <2>3. rows'[t] = rows[t] /\ HasMark(rows[t]) BY <2>1, <2>2, HandlerKnown DEF Handled
  <2>4. bb[t].attention > c.after.at /\ Accounted(t, c.before) BY <1>1, <1>3, <2>3 DEF UndoInv
  <2>5. SinceMark(rows'[t], bb[t].attention)
    <3>1. bb[t].attention \in Int /\ c.after.at \in Times BY <1>2, Heard, Numbers DEF Change, Row
    <3>2. c.after.at \in Int /\ c.after.at > None BY <3>1, Numbers
    <3>3. bb[t].attention > None BY <2>4, <3>1, <3>2, Numbers
    <3> QED BY <1>3, <2>2, <2>4, <3>3 DEF SinceMark
  <2>6. ~Excused(t) BY <1>3, <2>1, <2>3, <2>5 DEF Handled
  <2> QED BY <1>1, <1>3, <2>4, <2>6 DEF Accounted
<1>4. \A c \in toast.changes : c.thread \in Threads BY <1>2 DEF Change
<1> QED BY <1>1, <1>3, <1>4 DEF UndoInv, Accounted

LEMMA HandlerOut ==
  ASSUME Base, OutInv, Handler
  PROVE  OutInv' /\ \A t \in Threads \ Hidden : Outlives(t)
<1>1. /\ ~Quiet /\ events' = <<>> /\ Idle /\ UNCHANGED <<bb, action, toast, own, moved>> /\ unknown \subseteq unknown'
  BY HandlerKeeps DEF Base
<1>2. Turning' BY <1>1 DEF OutInv, Turning
<1>3. EventSound' BY <1>1 DEF EventSound, Quiet
<1>4. PutsIdle' BY <1>1 DEF PutsIdle, Idle
<1>5. EndedInv'
  <2>1. toast.changes \subseteq Change BY DEF Base, Ready, Types
  <2>2. \A c \in toast.changes : c.thread \in Threads BY <2>1 DEF Change
  <2> QED BY <1>1, <2>2, HandlerKnown DEF OutInv, EndedInv
<1>6. ASSUME NEW t \in Threads \ Hidden, HasMark(rows[t]), ~HasMark(rows'[t])
      PROVE  own[t] > rows[t].at \/ t \in moved' \cup unknown'
  <2>1. Handled(t) BY HandlerHandles DEF Base, OutInv
  <2>2. \/ t \in unknown'
        \/ Event1.kind \in {"created", "active"} /\ t \in Above[Event1.thread] /\ ~Holds(t)
        \/ Goes(rows[t]) /\ SinceMark(rows[t], bb[t].attention) /\ ~Excused(t)
    BY <1>6, <2>1 DEF Handled
  <2>3. Event1.kind \in {"created", "active"} /\ t \in Above[Event1.thread] /\ ~Holds(t) => t \in moved
    BY <1>1 DEF OutInv, EventSound
  <2>4. Goes(rows[t]) /\ SinceMark(rows[t], bb[t].attention) /\ ~Excused(t) => own[t] > rows[t].at \/ t \in unknown
    BY DEF OutInv, StaleInv, Accounted
  <2> QED BY <1>1, <2>2, <2>3, <2>4
<1>7. \A t \in Threads \ Hidden : Outlives(t) BY <1>6 DEF Outlives
<1> QED BY <1>2, <1>3, <1>4, <1>5, <1>7, HandlerKnown, HandlerHeld, HandlerStale, HandlerUndo DEF OutInv

-----------------------------------------------------------------------------
LEMMA PersonIdle ==
  ASSUME Base, Prompt, PutsIdle, Person
  PROVE  PutsIdle'
<1>1. Ready /\ Types /\ bb' = bb BY PersonKeeps DEF Base, Ready
<1>2. CASE BeginsPut
  <2>1. PICK t \in Putters, kind \in Markings : BeginPut(kind, t) BY <1>2 DEF BeginsPut
  <2>2. /\ action' = [kind |-> kind, thread |-> t, step |-> 1, listed |-> Attentions, at |-> time]
        /\ ~Refused(kind, t)
    BY <2>1 DEF BeginPut
  <2>3. action'.kind = kind /\ action'.thread = t /\ action'.step = 1 BY <2>2
  <2>4. kind # "settled" => bb[t].listed /\ bb[t].work = "none" BY <2>2 DEF Refused, IsBusy
  <2>5. \A u \in PutOn' : bb[u].listed /\ bb[u].work = "none" BY <2>3, <2>4 DEF PutOn
  <2> QED BY <1>1, <2>5 DEF PutsIdle
<1>3. CASE ListAgain
  <2> DEFINE tree == ListedTree(bb, action.thread)
             fits == ~Refused("settled", action.thread) /\ Same(tree) /\ \A u \in tree : ~IsBusy(bb[u])
  <2>1. /\ action.kind = "settled"
        /\ action' = IF fits THEN [action EXCEPT !.step = 2, !.listed = [u \in Threads |-> IF u \in tree THEN bb[u].attention ELSE None]]
                     ELSE NoAction
    BY <1>3 DEF ListAgain
  <2>2. CASE fits
    <3>1. action \in AnyAction BY <1>1 DEF Types
    <3>2. /\ action'.kind = "settled"
          /\ action'.listed = [u \in Threads |-> IF u \in tree THEN bb[u].attention ELSE None]
      BY <2>1, <2>2, <3>1 DEF AnyAction
    <3>3. \A u \in PutOn' : u \in tree
      <4> HIDE DEF tree
      <4> QED BY <3>2 DEF PutOn
    <3>4. \A u \in tree : bb[u].listed /\ bb[u].work = "none" BY <2>2 DEF ListedTree, IsBusy
    <3> QED BY <1>1, <3>3, <3>4 DEF PutsIdle
  <2>3. CASE ~fits BY <2>1, <2>3 DEF PutsIdle, Idle, NoAction
  <2> QED BY <2>2, <2>3
<1>4. CASE FinishPut BY <1>4 DEF FinishPut, PutsIdle, Idle, NoAction
<1>5. CASE EndsOne \/ Undo
  <2>1. Idle /\ action' = action BY <1>5 DEF EndsOne, Ends, Resume, Wake, Unsettle, Undo, Acts, PersonActs, Free
  <2> QED BY <2>1 DEF PutsIdle, Idle
<1> QED BY <1>2, <1>3, <1>4, <1>5 DEF Person

\* A put marks what has no turn, and puts away attention that no one has to see.
LEMMA PutOut ==
  ASSUME Base, TurnsInv, AttentionInv, OutInv, FinishPut, UNCHANGED <<bb, time, heldTurns, events, server, begun, own>>
  PROVE  /\ Known' /\ HeldInv' /\ StaleInv' /\ UndoInv' /\ EndedInv'
         /\ \A t \in Threads : Outlives(t)
<1>1. /\ Ready /\ Types /\ Family /\ Quiet /\ server = "up" /\ ~Idle
      /\ \A t \in Threads :
           \/ rows'[t] = rows[t]
           \/ t \in PutOn /\ HasMark(rows'[t]) /\ rows'[t].at = time /\ rows'[t].held = None
      /\ toast'.kind = "set" /\ unknown' = unknown
      /\ \A c \in toast'.changes : /\ c.thread \in Threads /\ c.before = rows[c.thread] /\ c.thread \in PutOn
                                   /\ HasMark(c.after) /\ c.after.at = time /\ c.after.held = None
  BY PutRows DEF Base, Ready, Offers
<1>2. \A t \in Threads : t \in PutOn => bb[t].listed /\ bb[t].attention # None /\ t \notin begun
  <2>1. \A t \in PutOn : bb[t].listed /\ bb[t].work = "none" BY <1>1 DEF OutInv, PutsIdle
  <2> QED BY <1>1, <2>1 DEF Family, TurnsInv
<1>3. time \in Int /\ \A t \in Threads : bb[t].attention \in Int /\ bb[t].attention <= time
  BY <1>1, Heard, Numbers DEF Ready, NotAhead, Types
<1>4. Known'
  <2>1. \A t \in Threads : HasMark(rows'[t]) => rows'[t].at <= time /\ bb[t].attention # None
    BY <1>1, <1>2, <1>3 DEF OutInv, Known
  <2>2. \A c \in toast'.changes : /\ HasMark(c.before) => c.before.at <= time /\ bb[c.thread].attention # None
                                  /\ c.after.at <= time /\ c.after.held = None
    BY <1>1, <1>3 DEF OutInv, Known
  <2> QED BY <2>1, <2>2 DEF Known
<1>5. HeldInv'
  <2>1. begun \in SUBSET Threads BY <1>1 DEF Types
  <2>2. ASSUME NEW t \in begun, t \notin Hidden, HasMark(rows'[t]) PROVE t \in heldTurns \cup unknown
    <3>1. rows'[t] = rows[t] BY <1>1, <1>2, <2>1
    <3> QED BY <1>1, <2>2, <3>1 DEF OutInv, HeldInv
  <2> QED BY <1>1, <2>2 DEF HeldInv
<1>6. \A t \in Threads \ Hidden : Goes(rows[t]) /\ SinceMark(rows[t], bb[t].attention) => own[t] > rows[t].at \/ t \in unknown
  BY <1>1 DEF OutInv, StaleInv, Accounted, Excused
<1>7. StaleInv'
  <2>1. ASSUME NEW t \in Threads \ Hidden, Goes(rows'[t]), SinceMark(rows'[t], bb[t].attention)
        PROVE  own[t] > rows'[t].at \/ t \in unknown
    <3>1. rows'[t] = rows[t] BY <1>1, <1>3, <2>1 DEF SinceMark
    <3> QED BY <1>6, <2>1, <3>1
  <2> QED BY <1>1, <2>1 DEF StaleInv, Accounted
<1>8. UndoInv'
  <2>1. ASSUME NEW c \in toast'.changes, c.thread \notin Hidden, Goes(c.before), SinceMark(c.before, bb[c.thread].attention)
        PROVE  c.thread \in unknown
    <3>1. PICK t \in Threads : t = c.thread BY <1>1
    <3>2. c.before = rows[t] /\ bb[t].listed BY <1>1, <1>2, <3>1
    <3>3. own[t] > rows[t].at \/ t \in unknown BY <1>6, <2>1, <3>1, <3>2
    <3>4. ~Unseen(t) BY <1>1, SeenAtRest
    <3> QED BY <2>1, <3>1, <3>2, <3>3, <3>4 DEF Unseen, Goes
  <2> QED BY <1>1, <2>1 DEF UndoInv
<1>9. EndedInv' BY <1>1 DEF EndedInv
<1>10. \A t \in Threads : Outlives(t) BY <1>1 DEF Outlives
<1> QED BY <1>4, <1>5, <1>7, <1>8, <1>9, <1>10

LEMMA EndsOut ==
  ASSUME Base, OutInv, NEW u \in Threads, Ends(u), Quiet, UNCHANGED <<bb, time, heldTurns, events, server, begun, own>>
  PROVE  /\ Known' /\ HeldInv' /\ StaleInv' /\ UndoInv' /\ EndedInv'
         /\ \A t \in Threads : Outlives(t)
<1>1. /\ Ready /\ Types
      /\ \A t \in Threads : rows'[t] = rows[t] \/ rows'[t].mark \in {"none", "active"}
      /\ toast'.kind = "ended" /\ unknown' = unknown
      /\ \A c \in toast'.changes : c.thread \in Threads /\ c.before = rows[c.thread]
      /\ \A t \in Threads : rows'[t] # rows[t] => \E c \in toast'.changes : c.thread = t
      /\ \A c \in toast'.changes : rows'[c.thread].mark \in {"none", "active"}
  BY EndRows DEF Base, Ready, Offers
<1>2. \A t \in Threads : HasMark(rows'[t]) => rows'[t] = rows[t] BY <1>1 DEF HasMark, Marked
<1>3. Known'
  <2>1. \A t \in Threads : HasMark(rows'[t]) => rows'[t].at <= time /\ bb[t].attention # None
    BY <1>2 DEF OutInv, Known
  <2>2. \A c \in toast'.changes : HasMark(c.before) => c.before.at <= time /\ bb[c.thread].attention # None
    BY <1>1 DEF OutInv, Known
  <2> QED BY <1>1, <2>1, <2>2 DEF Known
<1>4. HeldInv'
  <2>1. begun \in SUBSET Threads BY <1>1 DEF Types
  <2>2. \A t \in begun \ Hidden : HasMark(rows'[t]) => t \in heldTurns \cup unknown BY <1>2, <2>1 DEF OutInv, HeldInv
  <2> QED BY <1>1, <2>2 DEF HeldInv
<1>5. StaleInv'
  <2>1. ASSUME NEW t \in Threads \ Hidden, Goes(rows'[t]), SinceMark(rows'[t], bb[t].attention)
        PROVE  own[t] > rows'[t].at \/ t \in unknown
    <3>1. rows'[t] = rows[t] BY <1>2, <2>1 DEF Goes, HasMark, Marked
    <3> QED BY <2>1, <3>1 DEF OutInv, StaleInv, Accounted, Excused
  <2> QED BY <1>1, <2>1 DEF StaleInv, Accounted
<1>6. UndoInv' BY <1>1 DEF UndoInv
<1>7. EndedInv' BY <1>1 DEF EndedInv, HasMark, Marked
<1>8. ASSUME NEW t \in Threads, HasMark(rows[t]), ~HasMark(rows'[t]), toast' = toast PROVE FALSE
  <2>1. rows'[t] # rows[t] BY <1>8 DEF HasMark
  <2>2. PICK c \in toast'.changes : c.thread = t BY <1>1, <2>1
  <2> QED BY <1>1, <1>8, <2>2 DEF OutInv, EndedInv
<1>9. \A t \in Threads : Outlives(t) BY <1>8 DEF Outlives
<1> QED BY <1>3, <1>4, <1>5, <1>6, <1>7, <1>9

LEMMA UndoOut ==
  ASSUME Base, OutInv, Undo, Undoable \subseteq {"set"}, Quiet,
         UNCHANGED <<bb, time, heldTurns, events, server, begun, own>>
  PROVE  /\ Known' /\ HeldInv' /\ StaleInv' /\ UndoInv' /\ EndedInv'
         /\ \A t \in Threads : Outlives(t)
<1>1. /\ Ready /\ Types /\ PutsMarks
      /\ \A t \in Threads : rows'[t] = rows[t] \/ \E c \in toast.changes : GivenBack(t, c)
      /\ unknown \subseteq unknown'
  BY UndoRows DEF Base, Ready
<1>2. toast.kind = "set" /\ toast.changes # {} /\ toast' = NoToast BY DEF Undo
<1>3. toast'.changes = {} /\ toast' # toast /\ toast'.kind = "set" BY <1>2 DEF NoToast
<1>4. ASSUME NEW t \in Threads, rows'[t] # rows[t]
      PROVE  \E c \in toast.changes : c.thread = t /\ rows[t] = c.after /\ rows'[t] = c.before /\ HasMark(rows[t])
  BY <1>1, <1>2, <1>4 DEF GivenBack, PutsMarks
<1>5. Known'
  <2>1. \A t \in Threads : HasMark(rows'[t]) => rows'[t].at <= time /\ bb[t].attention # None
    BY <1>4 DEF OutInv, Known
  <2> QED BY <1>3, <2>1 DEF Known
<1>6. HeldInv'
  <2>1. begun \in SUBSET Threads BY <1>1 DEF Types
  <2>2. ASSUME NEW t \in begun, t \notin Hidden, HasMark(rows'[t]) PROVE t \in heldTurns \cup unknown'
    <3>1. HasMark(rows[t]) BY <1>4, <2>1, <2>2
    <3> QED BY <1>1, <2>2, <3>1 DEF OutInv, HeldInv
  <2> QED BY <2>2 DEF HeldInv
<1>7. StaleInv'
  <2>1. ASSUME NEW t \in Threads \ Hidden, Goes(rows'[t]), SinceMark(rows'[t], bb[t].attention)
        PROVE  own[t] > rows'[t].at \/ t \in unknown'
    <3>1. CASE rows'[t] = rows[t] BY <1>1, <2>1, <3>1 DEF OutInv, StaleInv, Accounted, Excused
    <3>2. CASE rows'[t] # rows[t]
      <4>1. PICK c \in toast.changes : c.thread = t /\ rows[t] = c.after /\ rows'[t] = c.before BY <1>4, <3>2
      <4>2. t \in unknown \/ Accounted(t, c.before) BY <1>2, <2>1, <4>1 DEF OutInv, UndoInv
      <4> QED BY <1>1, <4>1, <4>2 DEF Accounted, Excused
    <3> QED BY <3>1, <3>2
  <2> QED BY <2>1 DEF StaleInv, Accounted
<1>8. UndoInv' /\ EndedInv' BY <1>3 DEF UndoInv, EndedInv
<1>9. \A t \in Threads : Outlives(t) BY <1>3 DEF Outlives
<1> QED BY <1>5, <1>6, <1>7, <1>8, <1>9

LEMMA PersonOut ==
  ASSUME Base, Prompt, TurnsInv, AttentionInv, OutInv, Person, Undoable \subseteq {"set"}
  PROVE  OutInv' /\ \A t \in Threads : Outlives(t)
<1>1. /\ Quiet /\ UNCHANGED <<bb, time, heldTurns, events, server, begun, own>>
      /\ \/ UNCHANGED <<rows, toast, moved, unknown>>
         \/ FinishPut \/ (\E t \in Threads : Ends(t)) \/ Undo
  BY PersonKeeps DEF Base
<1>2. Turning' BY <1>1 DEF OutInv, Turning
<1>3. EventSound' BY <1>1 DEF EventSound, Quiet
<1>4. PutsIdle' BY PersonIdle DEF OutInv
<1>5. CASE UNCHANGED <<rows, toast, moved, unknown>>
  <2>1. Known' BY <1>1, <1>5 DEF OutInv, Known, HasMark
  <2>2. HeldInv' BY <1>1, <1>5 DEF OutInv, HeldInv, HasMark, Quiet
  <2>3. StaleInv'
    <3>1. \A t \in Threads \ Hidden : Goes(rows[t]) /\ SinceMark(rows[t], bb[t].attention) => own[t] > rows[t].at \/ t \in unknown
      BY <1>1 DEF OutInv, StaleInv, Accounted, Excused
    <3> QED BY <1>1, <1>5, <3>1 DEF StaleInv, Accounted, Goes, SinceMark
  <2>4. UndoInv'
    <3>1. toast.kind = "set" => \A c \in toast.changes :
            c.thread \notin Hidden /\ rows[c.thread] = c.after /\ Goes(c.before) /\ SinceMark(c.before, bb[c.thread].attention)
              => c.thread \in unknown \/ (bb[c.thread].attention > c.after.at /\ own[c.thread] > c.before.at)
      BY <1>1 DEF OutInv, UndoInv, Accounted, Excused
    <3> QED BY <1>1, <1>5, <3>1 DEF UndoInv, Accounted
  <2>5. EndedInv' BY <1>5 DEF OutInv, EndedInv, HasMark
  <2>6. \A t \in Threads : Outlives(t) BY <1>5 DEF Outlives
  <2> QED BY <1>2, <1>3, <1>4, <2>1, <2>2, <2>3, <2>4, <2>5, <2>6 DEF OutInv
<1>6. CASE FinishPut BY <1>1, <1>2, <1>3, <1>4, <1>6, PutOut DEF OutInv
<1>7. CASE \E t \in Threads : Ends(t) BY <1>1, <1>2, <1>3, <1>4, <1>7, EndsOut DEF OutInv
<1>8. CASE Undo BY <1>1, <1>2, <1>3, <1>4, <1>8, UndoOut DEF OutInv
<1> QED BY <1>1, <1>5, <1>6, <1>7, <1>8

\* What a start does to a row: it leaves or ends it, or has it hold all attention there is.
LEMMA ReconcileDoes ==
  ASSUME Ready, Reconcile, NEW t \in Threads
  PROVE  \/ own'[t] = own[t] /\ (rows'[t] = rows[t] \/ ~HasMark(rows'[t]))
         \/ /\ rows'[t] = rows[t] \/ rows'[t].held # None
            /\ ~SinceMark(rows'[t], bb[t].attention)
<1> DEFINE held == Held(seen, Threads, {})
           kept == HoldRows(held, seen)
<1>1. Types /\ seen = bb BY DEF Ready, KeepsUp, Reconcile
<1>2. /\ rows' = [u \in Threads |-> IF seen[u].listed THEN Unstale(kept[u], seen[u].attention) ELSE kept[u]]
      /\ own' = [u \in Threads |-> IF u \in held /\ own[u] <= seen[u].attention THEN 0 ELSE own[u]]
  BY DEF Reconcile
<1>3. rows'[t] = IF bb[t].listed THEN Unstale(kept[t], bb[t].attention) ELSE kept[t] BY <1>1, <1>2
<1>4. t \notin held => own'[t] = own[t] BY <1>2
<1>5. kept[t] = IF t \in held THEN HoldAttention(rows[t], bb[t].attention) ELSE rows[t] BY <1>1 DEF HoldRows
<1> HIDE DEF held, kept
<1>6. CASE t \notin held
  <2>1. rows'[t] = rows[t] \/ rows'[t] = NoRow BY <1>3, <1>5, <1>6 DEF Unstale
  <2> QED BY <1>4, <1>6, <2>1, NoRowTyped DEF HasMark, Marked
<1>7. CASE t \in held
  <2>1. /\ rows[t] \in Row /\ bb[t].attention \in Times \cup {None} BY <1>1, Heard
  <2>2. \A a \in Times \cup {None} : a <= a BY Numbers
  <2>3. ~SinceMark(kept[t], bb[t].attention) /\ (kept[t] = rows[t] \/ kept[t].held # None)
    BY <1>5, <1>7, <2>1, <2>2, HoldAttentionCovers
  <2>4. rows'[t] = kept[t] BY <1>3, <2>3 DEF Unstale
  <2> QED BY <2>3, <2>4
<1> QED BY <1>6, <1>7

LEMMA ReconcileOut ==
  ASSUME Base, OutInv, Reconcile, Quiet, UNCHANGED <<bb, time, toast, moved, unknown, heldTurns, begun>>
  PROVE  Known' /\ HeldInv' /\ StaleInv' /\ UndoInv' /\ EndedInv'
<1>1. /\ Ready /\ Types /\ PutsMarks /\ toast.changes \subseteq Change /\ begun \in SUBSET Threads
  BY DEF Base, Ready, Types
<1>2. \A t \in Threads : HasMark(rows'[t]) => HasMark(rows[t]) /\ rows'[t].mark = rows[t].mark /\ rows'[t].at = rows[t].at
  BY <1>1, ReconcileRows, EndedMarks
<1>3. \A c \in toast.changes : c.thread \in Threads BY <1>1 DEF Change
<1>4. Known'
  <2>1. \A t \in Threads : HasMark(rows'[t]) => rows'[t].at <= time /\ bb[t].attention # None
    BY <1>2 DEF OutInv, Known
  <2> QED BY <2>1 DEF OutInv, Known
<1>5. HeldInv'
  <2>1. \A t \in begun \ Hidden : HasMark(rows'[t]) => t \in heldTurns \cup unknown
    BY <1>1, <1>2 DEF OutInv, HeldInv
  <2> QED BY <2>1 DEF HeldInv
<1>6. StaleInv'
  <2>1. ASSUME NEW t \in Threads \ Hidden, Goes(rows'[t]), SinceMark(rows'[t], bb[t].attention)
        PROVE  own'[t] > rows'[t].at \/ t \in unknown
    <3>1. HasMark(rows'[t]) BY <2>1 DEF Goes, HasMark, Marked
    <3>2. own'[t] = own[t] /\ rows'[t] = rows[t] BY <1>1, <2>1, <3>1, ReconcileDoes
    <3> QED BY <2>1, <3>2 DEF OutInv, StaleInv, Accounted, Excused
  <2> QED BY <2>1 DEF StaleInv, Accounted
<1>7. UndoInv'
  <2>1. ASSUME toast.kind = "set", NEW c \in toast.changes, NEW t \in Threads, t = c.thread, t \notin Hidden, rows'[t] = c.after,
               Goes(c.before), SinceMark(c.before, bb[t].attention), t \notin unknown
        PROVE  bb[t].attention > c.after.at /\ own'[t] > c.before.at
    <3>1. HasMark(rows'[t]) /\ rows'[t].held = None BY <1>1, <2>1 DEF PutsMarks, OutInv, Known
    <3>2. rows'[t] = rows[t] BY <1>1, <3>1, ReconcileDoes
    <3>3. bb[t].attention > c.after.at /\ own[t] > c.before.at
      BY <2>1, <3>2 DEF OutInv, UndoInv, Accounted, Excused
    <3>4. SinceMark(rows'[t], bb[t].attention)
      <4>1. bb[t].attention \in Int /\ c.after.at \in Times BY <1>1, Heard, Numbers DEF Change, Row
      <4>2. c.after.at \in Int /\ c.after.at > None BY <4>1, Numbers
      <4>3. bb[t].attention > None BY <3>3, <4>1, <4>2, Numbers
      <4> QED BY <2>1, <3>1, <3>3, <4>3 DEF SinceMark
    <3>5. own'[t] = own[t] BY <1>1, <3>4, ReconcileDoes
    <3> QED BY <3>3, <3>5
  <2> QED BY <1>3, <2>1 DEF UndoInv, Accounted
<1>8. EndedInv' BY <1>2, <1>3 DEF OutInv, EndedInv
<1> QED BY <1>4, <1>5, <1>6, <1>7, <1>8

LEMMA RestartOut ==
  ASSUME Base, Prompt, OutInv, Restart
  PROVE  OutInv' /\ \A t \in Threads : Outlives(t)
<1>1. /\ Idle /\ Quiet /\ events' = <<>>
      /\ UNCHANGED <<bb, time, toast, moved, unknown>>
      /\ \/ Stop /\ server = "up" /\ UNCHANGED <<rows, own>>
         \/ Start /\ server = "down" /\ UNCHANGED <<rows, own, heldTurns, begun, action>>
         \/ Reconcile /\ server = "starting" /\ UNCHANGED <<heldTurns, begun, action>>
  BY RestartKeeps DEF Base
<1>2. Turning' BY <1>1 DEF OutInv, Turning
<1>3. EventSound' BY <1>1 DEF EventSound, Quiet
<1>4. PutsIdle'
  <2>1. action' = action \/ action' = NoAction BY <1>1 DEF Stop
  <2> QED BY <1>1, <2>1 DEF PutsIdle, Idle, NoAction
<1>5. CASE Stop \/ Start
  <2>1. UNCHANGED <<rows, own>> BY <1>1, <1>5 DEF Stop, Start, Reconcile
  <2>2. begun' = {} \/ (begun' = begun /\ heldTurns' = heldTurns) BY <1>1, <1>5 DEF Stop
  <2>3. Known' BY <1>1, <2>1 DEF OutInv, Known, HasMark
  <2>4. HeldInv' BY <1>1, <2>1, <2>2 DEF OutInv, HeldInv, HasMark, Quiet
  <2>5. StaleInv'
    <3>1. \A t \in Threads \ Hidden : Goes(rows[t]) /\ SinceMark(rows[t], bb[t].attention) => own[t] > rows[t].at \/ t \in unknown
      BY <1>1 DEF OutInv, StaleInv, Accounted, Excused
    <3> QED BY <1>1, <2>1, <3>1 DEF StaleInv, Accounted, Goes, SinceMark
  <2>6. UndoInv'
    <3>1. toast.kind = "set" => \A c \in toast.changes :
            c.thread \notin Hidden /\ rows[c.thread] = c.after /\ Goes(c.before) /\ SinceMark(c.before, bb[c.thread].attention)
              => c.thread \in unknown \/ (bb[c.thread].attention > c.after.at /\ own[c.thread] > c.before.at)
      BY <1>1 DEF OutInv, UndoInv, Accounted, Excused
    <3> QED BY <1>1, <2>1, <3>1 DEF UndoInv, Accounted
  <2>7. EndedInv' BY <1>1, <2>1 DEF OutInv, EndedInv, HasMark
  <2>8. \A t \in Threads : Outlives(t) BY <2>1 DEF Outlives
  <2> QED BY <1>2, <1>3, <1>4, <2>3, <2>4, <2>5, <2>6, <2>7, <2>8 DEF OutInv
<1>6. CASE Reconcile /\ server = "starting" /\ UNCHANGED <<heldTurns, begun, action>>
  <2>1. \A t \in Threads : Outlives(t) BY <1>6 DEF Outlives
  <2> QED BY <1>1, <1>2, <1>3, <1>4, <1>6, <2>1, ReconcileOut DEF OutInv
<1> QED BY <1>1, <1>5, <1>6

LEMMA InitOut == Init => OutInv
<1> SUFFICES ASSUME Init PROVE OutInv OBVIOUS
<1>1. /\ events = <<>> /\ Idle /\ begun = {} /\ toast.kind = "set" /\ toast.changes = {}
      /\ \A t \in Threads : rows[t] = NoRow
  BY DEF Init, Idle, NoAction, NoToast
<1>2. \A t \in Threads : ~HasMark(rows[t]) /\ ~Goes(rows[t]) BY <1>1, NoRowTyped DEF HasMark, Marked, Goes
<1>3. Turning
  <2>1. \A t \in Threads : ~bb[t].question /\ bb[t].work = "none" 
    <3> DEFINE Old == [Unborn EXCEPT !.listed = TRUE, !.attention = 0]
    <3>1. bb = [t \in Threads |-> IF t \in Born THEN Old ELSE Unborn] BY DEF Init
    <3>2. ~Unborn.question /\ Unborn.work = "none" BY DEF Unborn
    <3>3. Unborn \in Listing BY NoRowTyped DEF Times, None, Unborn, Listing
    <3>4. Old.question = Unborn.question /\ Old.work = Unborn.work BY <3>3 DEF Listing
    <3> HIDE DEF Old
    <3> QED BY <3>1, <3>2, <3>4
  <2> QED BY <2>1 DEF Turning
<1> QED BY <1>1, <1>2, <1>3 DEF OutInv, Known, EventSound, PutsIdle, HeldInv, StaleInv, UndoInv, EndedInv, Quiet

LEMMA NextOut ==
  ASSUME Prompt, Undoable \subseteq {"set"}, IInv, OutInv, [Next]_vars
  PROVE  OutInv' /\ \A t \in Threads \ Hidden : Outlives(t)
<1>1. Base /\ TurnsInv /\ AttentionInv BY DEF IInv, Base, Ready
<1>2. CASE \E t \in Threads : BbStep(t) BY <1>1, <1>2, BbOut
<1>3. CASE Handler BY <1>1, <1>3, HandlerOut
<1>4. CASE Person BY <1>1, <1>4, PersonOut
<1>5. CASE Restart BY <1>1, <1>5, RestartOut
<1>6. CASE UNCHANGED vars
  <2>1. UNCHANGED <<bb, rows, heldTurns, events, action, toast, server, seen, time, begun, own, moved, unknown>>
    BY <1>6 DEF vars, bbVars, history
  <2>2. Turning' /\ Known' /\ PutsIdle' /\ EndedInv'
    BY <2>1 DEF OutInv, Turning, Known, PutsIdle, EndedInv, HasMark, Idle, PutOn
  <2>3. EventSound'
    <3>1. (Quiet' <=> Quiet) /\ Event1' = Event1 BY <2>1 DEF Quiet, Event1
    <3>2. ASSUME NEW a \in Threads PROVE Holds(a)' <=> Holds(a) BY <2>1 DEF Holds, Lifted, ListedTree
    <3>3. CASE Quiet BY <3>1, <3>3 DEF EventSound
    <3>4. CASE ~Quiet
      <4>1. Event1.thread \in Threads /\ Above[Event1.thread] \subseteq Threads
        BY <1>1, <3>4, TheEvent, TreeAssumption DEF Base, Ready
      <4> QED BY <2>1, <3>1, <3>2, <3>4, <4>1 DEF OutInv, EventSound
    <3> QED BY <3>3, <3>4
  <2>4. HeldInv' BY <2>1 DEF OutInv, HeldInv, Quiet, Event1, Holds, Lifted, ListedTree, HasMark
  <2>5. StaleInv' BY <2>1 DEF OutInv, StaleInv, Goes, SinceMark, Accounted, Excused, Quiet, Event1, Lifted, ListedTree
  <2>6. UndoInv' BY <2>1 DEF OutInv, UndoInv, Goes, SinceMark, Accounted, Excused, Quiet, Event1, Lifted, ListedTree
  <2>7. \A t \in Threads \ Hidden : Outlives(t) BY <2>1 DEF Outlives
  <2> QED BY <2>2, <2>3, <2>4, <2>5, <2>6, <2>7 DEF OutInv
<1> QED BY <1>2, <1>3, <1>4, <1>5, <1>6, Steps

\* While each event is handled before bb moves on, and Undo gives back puts only, the mark
\* of a thread that bb shows is ended by attention of its own, by work below that no
\* question accounts for, or by the person: what a question below starts leaves it.
THEOREM OutlivesQuestions ==
  ASSUME Prompt, Undoable \subseteq {"set"}
  PROVE  Spec => [][\A t \in Threads \ Hidden : Outlives(t)]_vars
<1>1. Init => IInv /\ OutInv BY InitInv, InitOut
<1>2. IInv /\ OutInv /\ [Next]_vars => (IInv /\ OutInv)' /\ \A t \in Threads \ Hidden : Outlives(t)
  BY NextInv, NextOut
<1>3. IInv /\ OutInv /\ [Next]_vars => [\A t \in Threads \ Hidden : Outlives(t)]_vars BY <1>2
<1>4. IInv /\ OutInv /\ [Next]_vars => (IInv /\ OutInv)' BY <1>2
<1> QED BY <1>1, <1>3, <1>4, PTL DEF Spec

\* The same of every mark, where bb hides no thread.
THEOREM MarksOutlive ==
  ASSUME Prompt, Undoable \subseteq {"set"}, Hidden = {}
  PROVE  Spec => MarkOutlivesQuestion
<1>1. (\A t \in Threads \ Hidden : Outlives(t)) <=>
        \A t \in Threads : (HasMark(rows[t]) /\ ~HasMark(rows'[t]) /\ toast' = toast /\ server = "up")
                             => own[t] > rows[t].at \/ t \in (moved \cup unknown)'
  BY DEF Outlives
<1>2. Spec => [][\A t \in Threads \ Hidden : Outlives(t)]_vars BY OutlivesQuestions
<1> QED BY <1>1, <1>2, PTL DEF MarkOutlivesQuestion
=============================================================================
