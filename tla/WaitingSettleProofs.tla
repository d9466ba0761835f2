------------------------ MODULE WaitingSettleProofs ------------------------
(***************************************************************************)
(* What WaitingSettle promises for any threads, tree and grace, and any    *)
(* number of settles and faults.                                           *)
(***************************************************************************)
EXTENDS WaitingSettle, TLAPS

-----------------------------------------------------------------------------
(***************************************************************************)
(* Types.                                                                  *)
(***************************************************************************)
Moments == Nat \cup {None}
ThreadStates == [work : {"none", "turn", "background"}, queue : {"none", "waiting", "failed"},
                 question : BOOLEAN, pinned : Moments, listed : BOOLEAN]
RowStates == [mark : {"none", "snoozed", "woke", "settled"}, since : Moments]
Events == [thread : Threads, turn : {"none", "user", "failed"}, at : Moments]
Checks == [phase : {"idle", "started", "listed", "decided", "writing"}, since : [Roots -> Moments],
           seen : [Threads -> ThreadStates], events : SUBSET Events, ending : SUBSET Roots, landing : SUBSET Roots]
Settlings == [root : {settling.root}, tree : SUBSET Threads, waits : BOOLEAN, unpinned : SUBSET Threads]

Types ==
  /\ bb \in [Threads -> ThreadStates]
  /\ said \in [Threads -> Moments]
  /\ failed \in [Threads -> Moments]
  /\ rows \in [Threads -> RowStates]
  /\ idleFor \in [Roots -> 0..Grace \cup {None}]
  /\ queuedAt \in [Roots -> SUBSET Threads]
  /\ batch \in SUBSET Events
  /\ check \in Checks
  /\ lock \in {"free", "settle", "check"}
  /\ settling \in Settlings
  /\ lock = "settle" => settling.root \in Roots
  /\ clock \in Nat
  /\ age \in [Roots -> 0..Grace]
  /\ kept \in [Roots -> 0..Grace]
  /\ reason \in [Roots -> BOOLEAN]
  /\ sent \in [Roots -> SUBSET Threads]
  /\ noticed \in [Roots -> SUBSET Threads]

\* Nothing bears a time to come.
UpToNow ==
  /\ \A t \in Threads : bb[t].pinned <= clock /\ said[t] <= clock /\ failed[t] <= clock /\ rows[t].since <= clock
  /\ \A e \in batch \cup check.events : e.at <= clock
  /\ \A r \in Roots : check.since[r] <= clock
  /\ \A t \in Threads : check.seen[t].pinned <= clock

Noted(r) == check.since[r] # None

-----------------------------------------------------------------------------
(***************************************************************************)
(* The grace.  While a tree counts as idle, the time since a check saw it  *)
(* busy or its settle was chosen, with what an earlier settle left, is no  *)
(* less than the idle time; a check that has listed a busy tree is yet to  *)
(* take the idle time back.                                                *)
(***************************************************************************)
SeenBusy(r) == \E t \in ListedTree(check.seen, r) : IsBusy(check.seen[t])
GraceInv ==
  /\ \A r \in Roots : idleFor[r] # None =>
       age[r] + kept[r] >= idleFor[r] \/ (check.phase = "listed" /\ SeenBusy(r))
  /\ check.phase \in {"started", "listed"} => \A r \in Roots : Noted(r) \/ idleFor[r] = None
  /\ check.phase \in {"decided", "writing"} => \A r \in check.landing : idleFor[r] = Grace

-----------------------------------------------------------------------------
(***************************************************************************)
(* The messages.  Of the threads the person sent a message to since the    *)
(* settle was chosen, each has a turn of theirs since or the message in    *)
(* its queue, which the check reads before it lands.                       *)
(***************************************************************************)
Told(t, listing, since) == said[t] >= since \/ HasQueuedMessage(listing[t])
MessageInv ==
  /\ \A r \in Roots : IsWaiting(r) => \A t \in sent[r] : Told(t, bb, rows[r].since)
  /\ check.phase = "started" => \A r \in Roots : Noted(r) => \A t \in noticed[r] : Told(t, bb, check.since[r])
  /\ check.phase = "listed" => \A r \in Roots : Noted(r) => \A t \in noticed[r] : Told(t, check.seen, check.since[r])
  /\ check.phase = "listed" => \A t \in Threads : bb[t].listed => check.seen[t].listed
  /\ check.phase \in {"decided", "writing"} =>
       \A r \in check.landing : noticed[r] \cap ListedTree(bb, r) \subseteq queuedAt[r]

-----------------------------------------------------------------------------
(***************************************************************************)
(* The reasons.  While nothing that ends a settle happened, nothing in bb  *)
(* or on its way to a check speaks for the end of it.                      *)
(***************************************************************************)
Speaks(e, since) == e.turn \in {"user", "failed"} /\ (e.at >= since \/ (e.turn = "failed" /\ e.at = None))

Unanswerable(listing, r, since) ==
  /\ \A t \in ListedTree(listing, r) : ~PinnedAfter(listing[t], since)
  /\ \A t \in ListedTree(listing, r) \ Hidden : ~listing[t].question
  /\ \A t \in ListedTree(listing, r) : listing[t].queue # "failed"

Undisturbed(r) ==
  LET since == rows[r].since
  IN  /\ bb[r].listed
      /\ Unanswerable(bb, r, since)
      /\ ~PinnedAfter(bb[r], since)
      /\ \A t \in ListedTree(bb, r) : bb[t].queue = "waiting" => t \in queuedAt[r]
      /\ \A t \in ListedTree(bb, r) \ queuedAt[r] : said[t] < since
      /\ \A t \in ListedTree(bb, r) : failed[t] < since
      /\ \A e \in batch : e.thread \in ListedTree(bb, r) => ~Speaks(e, since)

Overlooked(r) ==
  /\ \A e \in check.events : e.thread \in ListedTree(bb, r) => ~Speaks(e, check.since[r])
  /\ check.phase = "listed" =>
       /\ check.seen[r].listed
       /\ ListedTree(check.seen, r) \subseteq ListedTree(bb, r)
       /\ Unanswerable(check.seen, r, check.since[r])

Awaited(r) == IsWaiting(r) /\ ~reason[r]
ReasonInv ==
  /\ \A e \in batch : e.turn = "user" => e.at # None
  /\ \A r \in Roots : Awaited(r) => Undisturbed(r)
  /\ check.phase \in {"started", "listed"} => \A r \in Roots : Noted(r) /\ Still(r) /\ Awaited(r) => Overlooked(r)
  /\ check.phase \in {"decided", "writing"} =>
       \A r \in check.ending : Noted(r) /\ (Still(r) => reason[r])
  /\ check.phase = "writing" => lock = "check" /\ \A r \in check.ending : Still(r)

\* Where no thread is snoozed at first, none is later.
Awake == \A t \in Threads : rows[t].mark \in {"none", "settled"}

-----------------------------------------------------------------------------
(***************************************************************************)
(* Type correctness.                                                       *)
(***************************************************************************)
USE WhoAssumption

LEMMA InitTypes == Init => Types
<1> SUFFICES ASSUME Init PROVE Types
  OBVIOUS
<1> USE DEF Init, Moments, None
<1>1. bb \in [Threads -> ThreadStates]
  BY DEF Unlisted, ThreadStates
<1>2. rows \in [Threads -> RowStates]
  BY DEF NoRow, RowStates
<1>3. said \in [Threads -> Moments] /\ failed \in [Threads -> Moments]
  OBVIOUS
<1>4. check \in Checks
  BY DEF NoCheck, Checks, Unlisted, ThreadStates
<1>5. /\ idleFor \in [Roots -> 0..Grace \cup {None}]
      /\ age \in [Roots -> 0..Grace] /\ kept \in [Roots -> 0..Grace]
  BY GraceAssumption
<1>6. settling \in Settlings
  BY DEF NoSettle, Settlings
<1>7. /\ queuedAt \in [Roots -> SUBSET Threads] /\ sent \in [Roots -> SUBSET Threads]
      /\ noticed \in [Roots -> SUBSET Threads] /\ reason \in [Roots -> BOOLEAN]
  OBVIOUS
<1>8. QED
  BY <1>1, <1>2, <1>3, <1>4, <1>5, <1>6, <1>7 DEF Types

\* What bb and the person do, and what it leaves alone.
BbStep(t) ==
  \/ StartTurn(t) \/ EndTurn(t) \/ FailTurn(t) \/ WorkInBackground(t)
  \/ Say(t) \/ Queue(t) \/ SendQueued(t) \/ FailQueued(t)
  \/ Ask(t) \/ AnswerQuestion(t) \/ Pin(t) \/ Unpin(t) \/ Archive(t)

LEMMA WhatBbLeaves ==
  ASSUME NEW t \in Threads, BbStep(t)
  PROVE  /\ UNCHANGED <<rows, idleFor, queuedAt, check, lock, settling, clock, age, kept, noticed>>
         /\ said' \in {said, [said EXCEPT ![t] = clock]}
         /\ failed' \in {failed, [failed EXCEPT ![t] = clock]}
         /\ UNCHANGED reason \/ Ends(t)
         /\ \/ UNCHANGED sent
            \/ sent' = [r \in Roots |-> IF r \in WaitingOn(t) THEN sent[r] \cup {t} ELSE sent[r]]
         /\ UNCHANGED batch \/ \E turn \in {"none", "user", "failed"} : Announce(t, turn)
<1> USE DEF BbStep, StartTurn, EndTurn, FailTurn, WorkInBackground, Say, Queue, SendQueued, FailQueued,
            Ask, AnswerQuestion, Pin, Unpin, Archive, Messages, history, pluginVars
<1>1. UNCHANGED <<rows, idleFor, queuedAt, check, lock, settling, clock, age, kept, noticed>>
  BY DEF Ends
<1>2. said' \in {said, [said EXCEPT ![t] = clock]} /\ failed' \in {failed, [failed EXCEPT ![t] = clock]}
  OBVIOUS
<1>3. UNCHANGED reason \/ Ends(t)
  OBVIOUS
<1>4. \/ UNCHANGED sent
      \/ sent' = [r \in Roots |-> IF r \in WaitingOn(t) THEN sent[r] \cup {t} ELSE sent[r]]
  OBVIOUS
<1>5. UNCHANGED batch \/ \E turn \in {"none", "user", "failed"} : Announce(t, turn)
  OBVIOUS
<1>6. QED
  BY <1>1, <1>2, <1>3, <1>4, <1>5

\* An event is stamped with a time it had or one it is given.
LEMMA AnnouncedEvents ==
  ASSUME Types, NEW t \in Threads, NEW turn \in {"none", "user", "failed"}, Announce(t, turn)
  PROVE  \E at \in {None, 0, clock} : batch' = batch \cup {[thread |-> t, turn |-> turn, at |-> at]}
BY DEF Announce

LEMMA HandledEvents ==
  ASSUME Types, NEW time \in Nat
  PROVE  /\ Handled(time) \in SUBSET Events
         /\ \A e \in Handled(time) :
              \/ e \in batch /\ e.at # None
              \/ \E d \in batch : d.at = None /\ e.thread = d.thread /\ e.turn = d.turn
                                  /\ e.at = IF d.turn = "failed" THEN time ELSE 0
<1>1. batch \in SUBSET Events
  BY DEF Types
<1>2. ASSUME NEW d \in Events, NEW at \in Moments
      PROVE  LET e == [d EXCEPT !.at = at]
             IN  e \in Events /\ e.at = at /\ e.thread = d.thread /\ e.turn = d.turn
  BY DEF Events
<1>3. time \in Moments /\ 0 \in Moments
  BY DEF Moments
<1>4. ASSUME NEW d \in batch
      PROVE  LET e == IF d.at = None THEN [d EXCEPT !.at = IF d.turn = "failed" THEN time ELSE 0] ELSE d
             IN  /\ e \in Events
                 /\ \/ e \in batch /\ e.at # None
                    \/ d.at = None /\ e.thread = d.thread /\ e.turn = d.turn
                       /\ e.at = IF d.turn = "failed" THEN time ELSE 0
  BY <1>1, <1>2, <1>3
<1>5. QED
  BY <1>4 DEF Handled

LEMMA TypesOfBb == ASSUME Types, NEW t \in Threads, BbStep(t) PROVE Types'
<1>1. /\ bb \in [Threads -> ThreadStates] /\ said \in [Threads -> Moments] /\ failed \in [Threads -> Moments]
      /\ clock \in Moments /\ 0 \in Moments /\ None \in Moments
  BY DEF Types, Moments
<1>2. bb' \in [Threads -> ThreadStates]
  <2>1. CASE StartTurn(t)
    BY <1>1, <2>1 DEF StartTurn, ThreadStates
  <2>2. CASE EndTurn(t)
    BY <1>1, <2>2 DEF EndTurn, ThreadStates
  <2>3. CASE FailTurn(t)
    <3>1. bb \in [Threads -> ThreadStates] /\ bb' = [bb EXCEPT ![t].work = "none", ![t].question = FALSE]
      BY <1>1, <2>3 DEF FailTurn
    <3>2. QED
      BY <3>1 DEF ThreadStates
  <2>4. CASE WorkInBackground(t)
    BY <1>1, <2>4 DEF WorkInBackground, ThreadStates
  <2>5. CASE Say(t)
    BY <1>1, <2>5 DEF Say, ThreadStates
  <2>6. CASE Queue(t)
    BY <1>1, <2>6 DEF Queue, ThreadStates
  <2>7. CASE SendQueued(t)
    BY <1>1, <2>7 DEF SendQueued, ThreadStates
  <2>8. CASE FailQueued(t)
    BY <1>1, <2>8 DEF FailQueued, ThreadStates
  <2>9. CASE Ask(t)
    BY <1>1, <2>9 DEF Ask, ThreadStates
  <2>10. CASE AnswerQuestion(t)
    BY <1>1, <2>10 DEF AnswerQuestion, ThreadStates
  <2>11. CASE Pin(t)
    BY <1>1, <2>11 DEF Pin, ThreadStates
  <2>12. CASE Unpin(t)
    BY <1>1, <2>12 DEF Unpin, ThreadStates
  <2>13. CASE Archive(t)
    BY <1>1, <2>13 DEF Archive, ThreadStates
  <2>14. QED
    BY <2>1, <2>2, <2>3, <2>4, <2>5, <2>6, <2>7, <2>8, <2>9, <2>10, <2>11, <2>12, <2>13 DEF BbStep
<1>3. said' \in [Threads -> Moments] /\ failed' \in [Threads -> Moments]
  BY <1>1, WhatBbLeaves
<1>4. batch' \in SUBSET Events
  <2>1. \A turn \in {"none", "user", "failed"}, at \in Moments : [thread |-> t, turn |-> turn, at |-> at] \in Events
    BY DEF Events
  <2>2. batch \in SUBSET Events
    BY DEF Types
  <2>3. QED
    BY <1>1, <2>1, <2>2, WhatBbLeaves, AnnouncedEvents
<1>5. reason' \in [Roots -> BOOLEAN]
  <2>1. reason \in [Roots -> BOOLEAN]
    BY DEF Types
  <2>2. QED
    BY <2>1, WhatBbLeaves DEF Ends
<1>6. sent' \in [Roots -> SUBSET Threads]
  <2>1. sent \in [Roots -> SUBSET Threads]
    BY DEF Types
  <2>2. QED
    BY <2>1, WhatBbLeaves
<1>7. UNCHANGED <<rows, idleFor, queuedAt, check, lock, settling, clock, age, kept, noticed>>
  BY WhatBbLeaves
<1>8. settling' \in Settlings'
  BY <1>7 DEF Types, Settlings
<1>9. QED
  BY <1>2, <1>3, <1>4, <1>5, <1>6, <1>7, <1>8 DEF Types

\* What changes a row and nothing else.
RowStep(t) == (t \in Roots /\ CancelSettle(t)) \/ SnoozeEnds(t) \/ DismissWoke(t) \/ ClearPinned(t) \/ Unsettle(t)

LEMMA TypesOfRows == ASSUME Types, NEW t \in Threads, RowStep(t) PROVE Types'
<1>1. rows \in [Threads -> RowStates] /\ reason \in [Roots -> BOOLEAN]
  BY DEF Types
<1>2. NoRow \in RowStates /\ None \in Moments
  BY DEF NoRow, RowStates, Moments
<1>3. rows' \in [Threads -> RowStates]
  <2>1. CASE CancelSettle(t)
    BY <1>1, <1>2, <2>1 DEF CancelSettle, RowStates
  <2>2. CASE SnoozeEnds(t)
    BY <1>1, <2>2 DEF SnoozeEnds, RowStates
  <2>3. CASE DismissWoke(t) \/ ClearPinned(t) \/ Unsettle(t)
    BY <1>1, <1>2, <2>3 DEF DismissWoke, ClearPinned, Unsettle
  <2>4. QED
    BY <2>1, <2>2, <2>3 DEF RowStep
<1>4. reason' \in [Roots -> BOOLEAN]
  <2>1. \/ UNCHANGED reason \/ Ends(t)
        \/ reason' = [r \in Roots |-> reason[r] \/ r \in WaitingOn(t) \/ (IsWaiting(r) /\ r \in Below(t))]
    BY DEF RowStep, CancelSettle, SnoozeEnds, DismissWoke, ClearPinned, Unsettle, history
  <2>2. QED
    BY <1>1, <2>1 DEF Ends
<1>5. UNCHANGED <<bbVars, idleFor, queuedAt, check, lock, settling, batch, clock, age, kept, sent, noticed>>
  BY DEF RowStep, CancelSettle, SnoozeEnds, DismissWoke, ClearPinned, Unsettle, RowsAction, history
<1>6. settling' \in Settlings'
  BY <1>5 DEF Types, Settlings
<1>7. QED
  BY <1>3, <1>4, <1>5, <1>6 DEF Types, bbVars

LEMMA TypesOfTick == ASSUME Types, Tick PROVE Types'
<1>1. idleFor' \in [Roots -> 0..Grace \cup {None}]
  BY GraceAssumption DEF Types, Tick, None
<1>2. age' \in [Roots -> 0..Grace]
  BY GraceAssumption DEF Types, Tick
<1>3. settling' \in Settlings'
  BY DEF Types, Tick, Settlings
<1>4. QED
  BY <1>1, <1>2, <1>3 DEF Types, Tick, bbVars

LEMMA TypesOfReadTree == ASSUME Types, NEW r \in Roots, ReadTree(r) PROVE Types'
<1>1. bb \in [Threads -> ThreadStates] /\ None \in Moments
  BY DEF Types, Moments
<1>2. bb' \in [Threads -> ThreadStates]
  BY <1>1 DEF ReadTree, ThreadStates
<1>3. settling' \in Settlings' /\ settling'.root \in Roots
  BY DEF ReadTree, Settlings, ListedTree, TreeOf, Below, Pinned
<1>4. QED
  BY <1>2, <1>3 DEF Types, ReadTree, history

\* The threads some of which a settle pins or unpins.
LEMMA Repinned ==
  ASSUME bb \in [Threads -> ThreadStates], NEW pins, NEW at \in Moments,
         bb' = [t \in Threads |-> IF t \in pins THEN [bb[t] EXCEPT !.pinned = at] ELSE bb[t]]
  PROVE  bb' \in [Threads -> ThreadStates]
BY DEF ThreadStates

LEMMA TypesOfChoose == ASSUME Types, Choose PROVE Types'
<1>1. /\ bb \in [Threads -> ThreadStates] /\ rows \in [Threads -> RowStates]
      /\ clock \in Nat /\ clock + 1 \in Nat /\ None \in Moments /\ Nat \subseteq Moments
  BY DEF Types, Moments
<1>2. bb' \in [Threads -> ThreadStates]
  <2>1. bb' = bb \/ RestorePins
    BY DEF Choose
  <2>2. ASSUME RestorePins PROVE bb' \in [Threads -> ThreadStates]
    <3> DEFINE pins == {t \in Threads : t \in settling.unpinned /\ bb[t].listed /\ bb[t].pinned = None}
    <3>1. bb' = [t \in Threads |-> IF t \in pins THEN [bb[t] EXCEPT !.pinned = clock] ELSE bb[t]]
      BY <2>2 DEF RestorePins
    <3>2. QED
      BY <1>1, <3>1, Repinned
  <2>3. QED
    BY <1>1, <2>1, <2>2
<1>3. rows' \in [Threads -> RowStates]
  <2>1. \/ rows' = rows
        \/ rows' = [rows EXCEPT ![settling.root].since = clock + 1]
        \/ rows' = [t \in Threads |-> IF t \in settling.tree THEN [mark |-> "settled", since |-> None] ELSE rows[t]]
    BY DEF Choose
  <2>2. QED
    BY <1>1, <2>1 DEF RowStates
<1>4. clock' \in Nat /\ batch' = Handled(clock')
  BY <1>1 DEF Choose
<1>5. batch' \in SUBSET Events
  BY <1>4, HandledEvents DEF Events
<1>6. queuedAt' \in [Roots -> SUBSET Threads]
  <2>0. queuedAt \in [Roots -> SUBSET Threads]
    BY DEF Types
  <2>1. queuedAt' = queuedAt \/ queuedAt' = [queuedAt EXCEPT ![settling.root] = {t \in settling.tree : HasQueuedMessage(bb[t])}]
    BY DEF Choose
  <2>2. {t \in settling.tree : HasQueuedMessage(bb[t])} \in SUBSET Threads
    BY DEF Types, Settlings
  <2>3. QED
    BY <2>0, <2>1, <2>2
<1>7. age' \in [Roots -> 0..Grace] /\ kept' \in [Roots -> 0..Grace]
  <2>1. age' = age \/ age' = [age EXCEPT ![settling.root] = 0]
    BY DEF Choose, history
  <2>2. \/ kept' = kept
        \/ kept' = [kept EXCEPT ![settling.root] = IF idleFor[settling.root] = None THEN 0 ELSE idleFor[settling.root]]
    BY DEF Choose, history
  <2>3. lock = "settle"
    BY DEF Choose
  <2>4. QED
    BY <2>1, <2>2, <2>3, GraceAssumption DEF Types
<1>8. reason' \in [Roots -> BOOLEAN]
  <2>1. PutBack \in [Roots -> BOOLEAN]
    BY DEF Types, PutBack
  <2>2. \/ reason' \in {reason, PutBack}
        \/ \E b \in BOOLEAN : reason' = [PutBack EXCEPT ![settling.root] = b]
    BY DEF Choose, history
  <2>3. QED
    BY <2>1, <2>2 DEF Types
<1>9. sent' \in [Roots -> SUBSET Threads] /\ noticed' \in [Roots -> SUBSET Threads]
  <2>1. /\ sent' = sent \/ sent' = [sent EXCEPT ![settling.root] = {}]
        /\ noticed' = noticed \/ noticed' = [noticed EXCEPT ![settling.root] = {}]
    BY DEF Choose, history
  <2>2. QED
    BY <2>1 DEF Types
<1>10. settling' \in Settlings'
  BY DEF Choose, NoSettle, Settlings
<1>11. UNCHANGED <<said, failed, idleFor, check>> /\ lock' = "free"
  BY DEF Choose
<1>12. QED
  BY <1>2, <1>3, <1>4, <1>5, <1>6, <1>7, <1>8, <1>9, <1>10, <1>11 DEF Types

LEMMA NoCheckTyped == NoCheck \in Checks
BY DEF NoCheck, Unlisted, Checks, ThreadStates, Moments

LEMMA TypesOfStartCheck == ASSUME Types, StartCheck PROVE Types'
<1>1. check' \in Checks
  <2>1. check \in Checks /\ batch \in SUBSET Events /\ rows \in [Threads -> RowStates]
    BY DEF Types
  <2>2. [r \in Roots |-> rows[r].since] \in [Roots -> Moments]
    BY <2>1 DEF RowStates
  <2>3. QED
    BY <2>1, <2>2 DEF StartCheck, Checks
<1>2. idleFor' \in [Roots -> 0..Grace \cup {None}] /\ queuedAt' \in [Roots -> SUBSET Threads]
  BY DEF Types, StartCheck
<1>3. batch' \in SUBSET Events /\ noticed' \in [Roots -> SUBSET Threads]
  BY DEF Types, StartCheck
<1>4. settling' \in Settlings'
  BY DEF Types, StartCheck, Settlings
<1>5. QED
  BY <1>1, <1>2, <1>3, <1>4 DEF Types, StartCheck, bbVars

LEMMA TypesOfList == ASSUME Types, List PROVE Types'
<1>1. check' \in Checks
  <2>1. check \in Checks /\ bb \in [Threads -> ThreadStates]
    BY DEF Types
  <2>2. QED
    BY <2>1 DEF List, Checks
<1>2. age' \in [Roots -> 0..Grace] /\ kept' \in [Roots -> 0..Grace]
  BY GraceAssumption DEF Types, List
<1>3. settling' \in Settlings'
  BY DEF Types, List, Settlings
<1>4. QED
  BY <1>1, <1>2, <1>3 DEF Types, List, bbVars

LEMMA DecisionsAre ==
  ASSUME NEW r, NEW readable
  PROVE  Decision(r, readable) \in {"end", "wait", "land", "leave"}
<1>1. \A listing, root, since, user, failures : Verdict(listing, root, since, user, failures) \in {"end", "wait", "land"}
  BY DEF Verdict
<1>2. QED
  BY <1>1 DEF Decision

\* The settles it noted are judged by what bb could say.
LEMMA DecideIs ==
  ASSUME Decide
  PROVE  \E readable \in BOOLEAN :
           LET noted   == {r \in Roots : check.since[r] # None}
               verdict == [r \in noted |-> Decision(r, readable)]
               ending  == {r \in noted : verdict[r] = "end"}
               landing == {r \in noted : verdict[r] = "land" /\ GraceOver(r)}
           IN  /\ idleFor' = [r \in Roots |-> IF r \in noted THEN IdleAfter(r, verdict[r]) ELSE idleFor[r]]
               /\ check' = IF ending \cup landing = {} THEN NoCheck
                           ELSE [NoCheck EXCEPT !.phase = "decided", !.since = check.since,
                                                !.ending = ending, !.landing = landing]
<1> DEFINE noted == {n \in Roots : check.since[n] # None}
           After(seen, verdict) ==
             LET ending  == {r \in seen : verdict[r] = "end"}
                 landing == {r \in seen : verdict[r] = "land" /\ GraceOver(r)}
             IN  /\ idleFor' = [r \in Roots |-> IF r \in seen THEN IdleAfter(r, verdict[r]) ELSE idleFor[r]]
                 /\ check' = IF ending \cup landing = {} THEN NoCheck
                             ELSE [NoCheck EXCEPT !.phase = "decided", !.since = check.since,
                                                  !.ending = ending, !.landing = landing]
<1>1. PICK readable \in BOOLEAN : \E verdict \in {[r \in noted |-> Decision(r, readable)]} :
        After(DOMAIN verdict, verdict)
  BY DEF Decide
<1>2. PICK verdict : verdict = [r \in noted |-> Decision(r, readable)] /\ After(DOMAIN verdict, verdict)
  BY <1>1
<1>3. After(noted, verdict)
  <2>1. DOMAIN verdict = noted
    BY <1>2
  <2> HIDE DEF noted, After
  <2>2. QED
    BY <1>2, <2>1
<1>4. After(noted, [r \in noted |-> Decision(r, readable)])
  <2> HIDE DEF After
  <2>1. QED
    BY <1>2, <1>3
<1>5. QED
  BY <1>4, Zenon

LEMMA TypesOfDecide == ASSUME Types, Decide PROVE Types'
<1>1. /\ check' \in Checks
      /\ idleFor' \in [Roots -> 0..Grace \cup {None}]
  <2>1. PICK readable \in BOOLEAN :
          LET noted   == {r \in Roots : check.since[r] # None}
              verdict == [r \in noted |-> Decision(r, readable)]
              ending  == {r \in noted : verdict[r] = "end"}
              landing == {r \in noted : verdict[r] = "land" /\ GraceOver(r)}
          IN  /\ idleFor' = [r \in Roots |-> IF r \in noted THEN IdleAfter(r, verdict[r]) ELSE idleFor[r]]
              /\ check' = IF ending \cup landing = {} THEN NoCheck
                          ELSE [NoCheck EXCEPT !.phase = "decided", !.since = check.since,
                                               !.ending = ending, !.landing = landing]
    BY DecideIs
  <2>2. \A ending \in SUBSET Roots, landing \in SUBSET Roots :
          [NoCheck EXCEPT !.phase = "decided", !.since = check.since, !.ending = ending, !.landing = landing] \in Checks
    <3>1. check.since \in [Roots -> Moments]
      BY DEF Types, Checks
    <3>2. QED
      BY <3>1, NoCheckTyped DEF Checks
  <2>3. check' \in Checks
    BY <2>1, <2>2, NoCheckTyped
  <2>4. ASSUME NEW r \in Roots, NEW verdict \in {"end", "wait", "land", "leave"}
        PROVE  IdleAfter(r, verdict) \in 0..Grace \cup {None}
    BY GraceAssumption DEF Types, IdleAfter
  <2>5. QED
    BY <2>1, <2>3, <2>4, DecisionsAre DEF Types
<1>2. settling' \in Settlings'
  BY DEF Types, Decide, Settlings
<1>3. QED
  BY <1>1, <1>2 DEF Types, Decide, bbVars, history

LEMMA TypesOfEnterChange == ASSUME Types, EnterChange PROVE Types'
<1>1. check' \in Checks
  <2>1. check \in Checks /\ bb \in [Threads -> ThreadStates]
    BY DEF Types
  <2>2. QED
    BY <2>1 DEF EnterChange, Checks
<1>2. settling' \in Settlings'
  BY DEF Types, EnterChange, Settlings
<1>3. QED
  BY <1>1, <1>2 DEF Types, EnterChange, bbVars, history

LEMMA TypesOfWriteSettles == ASSUME Types, WriteSettles PROVE Types'
<1>1. bb \in [Threads -> ThreadStates] /\ rows \in [Threads -> RowStates] /\ None \in Moments
  BY DEF Types, Moments
<1>2. bb' \in [Threads -> ThreadStates]
  <2>1. PICK refused : bb' = [t \in Threads |-> IF t \in Landed \ refused /\ check.seen[t].pinned # None
                                                THEN [bb[t] EXCEPT !.pinned = None] ELSE bb[t]]
    BY DEF WriteSettles
  <2> DEFINE pins == {t \in Threads : t \in Landed \ refused /\ check.seen[t].pinned # None}
  <2>2. bb' = [t \in Threads |-> IF t \in pins THEN [bb[t] EXCEPT !.pinned = None] ELSE bb[t]]
    BY <2>1
  <2>3. QED
    BY <1>1, <2>2, Repinned
<1>3. rows' \in [Threads -> RowStates]
  BY <1>1 DEF WriteSettles, RowStates
<1>4. idleFor' \in [Roots -> 0..Grace \cup {None}]
  BY DEF Types, WriteSettles
<1>5. check' \in Checks /\ batch' \in SUBSET Events
  BY NoCheckTyped, HandledEvents DEF Types, WriteSettles
<1>6. settling' \in Settlings'
  BY DEF Types, WriteSettles, Settlings
<1>7. QED
  BY <1>2, <1>3, <1>4, <1>5, <1>6 DEF Types, WriteSettles, history

LEMMA TypesOfEnds == ASSUME Types, CheckFails \/ Restart PROVE Types'
<1>1. check' \in Checks
  <2>1. check' = NoCheck
    BY DEF CheckFails, Restart
  <2>2. QED
    BY <2>1, NoCheckTyped DEF Checks
<1>0. batch' \in SUBSET Events
  <2>1. batch' \in {batch, Handled(clock), {}}
    BY DEF CheckFails, Restart
  <2>2. batch \in SUBSET Events /\ clock \in Nat
    BY DEF Types
  <2>3. QED
    BY <2>1, <2>2, HandledEvents
<1>2. settling' \in Settlings'
  <2>1. CASE settling' = settling
    BY <2>1 DEF Types, Settlings
  <2>2. CASE settling' = NoSettle
    BY <2>2 DEF NoSettle, Settlings
  <2>3. QED
    BY <2>1, <2>2 DEF CheckFails, Restart
<1>3. idleFor' \in [Roots -> 0..Grace \cup {None}] /\ queuedAt' \in [Roots -> SUBSET Threads]
  BY DEF Types, CheckFails, Restart
<1>4. reason' \in [Roots -> BOOLEAN]
  <2>1. \/ reason' = reason
        \/ reason' = [r \in Roots |-> reason[r] \/ (IsWaiting(r) /\ queuedAt[r] # {})]
    BY DEF CheckFails, Restart, history
  <2>2. QED
    BY <2>1 DEF Types
<1>5. lock' \in {"free", "settle", "check"} /\ (lock' = "settle" => settling'.root \in Roots)
  BY DEF Types, CheckFails, Restart
<1>6. QED
  BY <1>0, <1>1, <1>2, <1>3, <1>4, <1>5 DEF Types, CheckFails, Restart, bbVars, history

LEMMA NextSteps ==
  ASSUME Next
  PROVE  \/ \E t \in Threads : BbStep(t) \/ RowStep(t)
         \/ \E r \in Roots : ReadTree(r)
         \/ Tick \/ Choose \/ StartCheck \/ List \/ Decide \/ EnterChange \/ WriteSettles \/ CheckFails \/ Restart
BY DEF Next, Others, BbStep, RowStep

LEMMA TypesKept == ASSUME Types, [Next]_vars PROVE Types'
<1>1. CASE UNCHANGED vars
  BY <1>1 DEF Types, Settlings, vars, bbVars, pluginVars, history
<1>2. CASE Next
  BY <1>2, NextSteps, TypesOfBb, TypesOfRows, TypesOfReadTree, TypesOfTick, TypesOfChoose, TypesOfStartCheck,
     TypesOfList, TypesOfDecide, TypesOfEnterChange, TypesOfWriteSettles, TypesOfEnds
<1>3. QED
  BY <1>1, <1>2

-----------------------------------------------------------------------------
(***************************************************************************)
(* The grace.                                                              *)
(***************************************************************************)
LEMMA GraceKept == ASSUME Types, GraceInv, Next PROVE GraceInv'
<1>1. /\ idleFor \in [Roots -> 0..Grace \cup {None}] /\ None \notin 0..Grace
      /\ age \in [Roots -> 0..Grace] /\ kept \in [Roots -> 0..Grace] /\ Grace \in Nat \ {0}
  BY GraceAssumption DEF Types, None
<1>2. check \in Checks
  BY DEF Types
<1>3. CASE UNCHANGED <<idleFor, age, kept, check>>
  BY <1>3 DEF GraceInv, SeenBusy, Noted
<1>4. CASE Tick
  <2>1. check.phase # "listed" /\ UNCHANGED <<check, kept>>
    BY <1>4 DEF Tick
  <2>2. ASSUME NEW r \in Roots
        PROVE  /\ idleFor'[r] = IF idleFor[r] \in 0..(Grace - 1) THEN idleFor[r] + 1 ELSE idleFor[r]
               /\ age'[r] = IF age[r] < Grace THEN age[r] + 1 ELSE age[r]
    BY <1>4 DEF Tick
  <2>3. ASSUME NEW r \in Roots, idleFor'[r] # None PROVE age'[r] + kept'[r] >= idleFor'[r]
    <3>1. idleFor[r] # None
      BY <1>1, <2>2, <2>3
    <3>2. age[r] + kept[r] >= idleFor[r] /\ kept'[r] = kept[r]
      BY <2>1, <3>1 DEF GraceInv
    <3>3. idleFor[r] \in 0..Grace /\ age[r] \in 0..Grace /\ kept[r] \in 0..Grace
      BY <1>1, <3>1
    <3>4. QED
      BY <1>1, <2>2, <3>2, <3>3
  <2>4. ASSUME NEW r \in Roots PROVE idleFor[r] \in {None, Grace} => idleFor'[r] = idleFor[r]
    <3>1. Grace \notin 0..(Grace - 1) /\ None \notin 0..(Grace - 1)
      BY GraceAssumption DEF None
    <3>2. QED
      BY <2>2, <3>1
  <2>5. check' = check /\ check.landing \subseteq Roots
    BY <1>2, <2>1 DEF Checks
  <2>6. (check.phase \in {"started", "listed"} => \A r \in Roots : Noted(r) \/ idleFor[r] = None)'
    BY <2>4, <2>5 DEF GraceInv, Noted
  <2>7. (check.phase \in {"decided", "writing"} => \A r \in check.landing : idleFor[r] = Grace)'
    BY <2>4, <2>5 DEF GraceInv
  <2>8. QED
    BY <2>3, <2>6, <2>7 DEF GraceInv
<1>5. CASE Choose
  <2>1. UNCHANGED <<idleFor, check>>
    BY <1>5 DEF Choose
  <2>2. ASSUME NEW r \in Roots
        PROVE  \/ age'[r] = age[r] /\ kept'[r] = kept[r]
               \/ age'[r] = 0 /\ kept'[r] = IF idleFor[r] = None THEN 0 ELSE idleFor[r]
    BY <1>1, <1>5 DEF Choose, history
  <2>3. QED
    BY <1>1, <2>1, <2>2 DEF GraceInv, SeenBusy, Noted
<1>6. CASE StartCheck
  <2>1. check.phase = "idle" /\ UNCHANGED <<age, kept>>
    BY <1>6 DEF StartCheck, Asked, Due
  <2>2. \A r \in Roots : idleFor'[r] = IF IsWaiting(r) THEN idleFor[r] ELSE None
    BY <1>6 DEF StartCheck
  <2>3. \/ check' = check
        \/ check'.phase = "started" /\ \A r \in Roots : check'.since[r] = rows[r].since
    BY <1>2, <1>6 DEF StartCheck, Checks
  <2>4. QED
    BY <2>1, <2>2, <2>3 DEF GraceInv, Noted, IsWaiting
<1>7. CASE List
  <2>1. UNCHANGED idleFor /\ check.phase = "started" /\ check'.phase = "listed"
        /\ check'.since = check.since /\ check'.seen = bb
    BY <1>2, <1>7 DEF List, Checks
  <2>2. ASSUME NEW r \in Roots, ~SeenBusy(r)' PROVE age'[r] = age[r] /\ kept'[r] = kept[r]
    BY <1>7, <2>1, <2>2 DEF List, SeenBusy
  <2>3. QED
    BY <2>1, <2>2 DEF GraceInv, Noted
<1>8. CASE Decide
  <2>1. check.phase = "listed" /\ UNCHANGED <<age, kept>>
    BY <1>8 DEF Decide, history
  <2>2. PICK readable \in BOOLEAN :
          LET noted   == {r \in Roots : check.since[r] # None}
              verdict == [r \in noted |-> Decision(r, readable)]
              ending  == {r \in noted : verdict[r] = "end"}
              landing == {r \in noted : verdict[r] = "land" /\ GraceOver(r)}
          IN  /\ idleFor' = [r \in Roots |-> IF r \in noted THEN IdleAfter(r, verdict[r]) ELSE idleFor[r]]
              /\ check' = IF ending \cup landing = {} THEN NoCheck
                          ELSE [NoCheck EXCEPT !.phase = "decided", !.since = check.since,
                                               !.ending = ending, !.landing = landing]
    BY <1>8, DecideIs
  <2>3. /\ check'.phase \in {"idle", "decided"}
        /\ check'.phase = "decided" =>
             \A r \in check'.landing : r \in Roots /\ Noted(r) /\ Decision(r, readable) = "land" /\ GraceOver(r)
    BY <2>2 DEF NoCheck, Noted
  <2>4. ASSUME NEW r \in Roots, Decision(r, readable) \in {"land", "leave"} PROVE ~SeenBusy(r)
    BY <2>4 DEF Decision, Verdict, SeenBusy
  <2>5. ASSUME NEW r \in Roots, idleFor'[r] # None PROVE age'[r] + kept'[r] >= idleFor'[r]
    <3>1. Noted(r) /\ idleFor'[r] = IdleAfter(r, Decision(r, readable))
      BY <2>1, <2>2, <2>5 DEF GraceInv, Noted
    <3>2. Decision(r, readable) \in {"land", "leave"} /\ idleFor'[r] \in {0, idleFor[r]}
      BY <2>5, <3>1, DecisionsAre DEF IdleAfter
    <3>3. QED
      BY <1>1, <2>1, <2>4, <2>5, <3>2 DEF GraceInv
  <2>6. ASSUME NEW r \in Roots, Noted(r), Decision(r, readable) = "land", GraceOver(r) PROVE idleFor'[r] = Grace
    BY <1>1, <2>2, <2>6 DEF IdleAfter, GraceOver, Noted
  <2>7. QED
    BY <2>3, <2>5, <2>6 DEF GraceInv
<1>9. CASE EnterChange
  <2>1. UNCHANGED <<idleFor, age, kept>> /\ check.phase = "decided" /\ check'.phase = "writing"
        /\ check'.landing \subseteq check.landing
    BY <1>2, <1>9 DEF EnterChange, Checks, history
  <2>2. QED
    BY <2>1 DEF GraceInv
<1>10. CASE WriteSettles \/ CheckFails \/ Restart
  <2>1. check'.phase = "idle" /\ (check.phase # "listed" \/ \A r \in Roots : idleFor'[r] = None)
    BY <1>10 DEF WriteSettles, CheckFails, Restart, NoCheck
  <2>2. check'.phase = "idle" /\ UNCHANGED <<age, kept>> /\ \A r \in Roots : idleFor'[r] \in {None, idleFor[r]}
    BY <1>1, <1>10 DEF WriteSettles, CheckFails, Restart, NoCheck, history
  <2>3. QED
    BY <2>1, <2>2 DEF GraceInv
<1>11. QED
  <2>1. ASSUME NEW t \in Threads, BbStep(t) \/ RowStep(t) PROVE UNCHANGED <<idleFor, age, kept, check>>
    BY <2>1, WhatBbLeaves DEF RowStep, CancelSettle, SnoozeEnds, DismissWoke, ClearPinned, Unsettle, RowsAction, history
  <2>2. ASSUME NEW r \in Roots, ReadTree(r) PROVE UNCHANGED <<idleFor, age, kept, check>>
    BY <2>2 DEF ReadTree, history
  <2>3. QED
    BY <1>3, <1>4, <1>5, <1>6, <1>7, <1>8, <1>9, <1>10, <2>1, <2>2, NextSteps

\* A settle lands no sooner than the grace after it was chosen and after the last check that
\* saw its tree busy, but for what an earlier settle of the thread left of it.
THEOREM WaitsTheGrace == Spec => LandsAfterGrace
<1>1. Init => Types /\ GraceInv
  <2>1. Init => GraceInv
    BY DEF Init, GraceInv, NoCheck
  <2>2. QED
    BY <2>1, InitTypes
<1>2. Types /\ GraceInv /\ [Next]_vars => (Types /\ GraceInv)'
  <2>1. Types /\ GraceInv /\ UNCHANGED vars => GraceInv'
    BY DEF GraceInv, SeenBusy, Noted, vars, pluginVars, history
  <2>2. QED
    BY <2>1, TypesKept, GraceKept
<1>3. Types /\ GraceInv => (\A r \in Roots : LandsNow(r) => age[r] + kept[r] >= Grace)
  BY GraceAssumption DEF LandsNow, Lands, GraceInv, Types, None
<1>4. QED
  BY <1>1, <1>2, <1>3, PTL DEF Spec, LandsAfterGrace

-----------------------------------------------------------------------------
(***************************************************************************)
(* What one step of bb or the person tells of the thread it is about: what *)
(* it adds that speaks for the end of a settle it gives as a reason, but   *)
(* for a queued message that starts its turn.                              *)
(***************************************************************************)
LEMMA WhatBbChanges ==
  ASSUME Types, NEW t \in Threads, BbStep(t)
  PROVE  /\ \A u \in Threads \ {t} : bb'[u] = bb[u] /\ said'[u] = said[u] /\ failed'[u] = failed[u]
         /\ bb'[t].pinned \in {bb[t].pinned, None} \/ (bb'[t].pinned = clock /\ Ends(t))
         /\ bb'[t].listed => bb[t].listed
         /\ bb[t].listed => bb'[t].listed \/ Ends(t)
         /\ bb'[t].question => bb[t].question \/ t \in Hidden \/ Ends(t)
         /\ bb'[t].queue = bb[t].queue \/ (bb'[t].queue = "none" /\ said'[t] = clock) \/ (bb'[t].queue # "none" /\ Ends(t))
         /\ said'[t] = said[t] \/ (said'[t] = clock /\ (bb[t].queue = "waiting" \/ Ends(t)))
         /\ failed'[t] = failed[t] \/ (failed'[t] = clock /\ Ends(t))
         /\ \/ UNCHANGED sent
            \/ /\ sent' = [r \in Roots |-> IF r \in WaitingOn(t) THEN sent[r] \cup {t} ELSE sent[r]]
               /\ said'[t] = clock \/ bb'[t].queue = "waiting"
         /\ \/ UNCHANGED batch
            \/ \E turn \in {"none", "user", "failed"} : Announce(t, turn) /\ (turn = "none" \/ Ends(t))
<1>1. bb \in [Threads -> ThreadStates]
  BY DEF Types
<1>2. said \in [Threads -> Moments] /\ failed \in [Threads -> Moments]
  BY DEF Types
<1>3. bb[t] \in ThreadStates
  BY <1>1
<1>4. CASE StartTurn(t)
  BY <1>1, <1>2, <1>3, <1>4 DEF StartTurn, ThreadStates, Messages, history
<1>5. CASE EndTurn(t)
  BY <1>1, <1>2, <1>3, <1>5 DEF EndTurn, ThreadStates, Messages, history
<1>6. CASE FailTurn(t)
  BY <1>1, <1>2, <1>3, <1>6 DEF FailTurn, ThreadStates, Messages, history
<1>7. CASE WorkInBackground(t)
  BY <1>1, <1>2, <1>3, <1>7 DEF WorkInBackground, ThreadStates, Messages, history
<1>8. CASE Say(t)
  BY <1>1, <1>2, <1>3, <1>8 DEF Say, ThreadStates, Messages, history
<1>9. CASE Queue(t)
  BY <1>1, <1>2, <1>3, <1>9 DEF Queue, ThreadStates, Messages, history
<1>10. CASE SendQueued(t)
  BY <1>1, <1>2, <1>3, <1>10 DEF SendQueued, ThreadStates, Messages, history
<1>11. CASE FailQueued(t)
  BY <1>1, <1>2, <1>3, <1>11 DEF FailQueued, ThreadStates, Messages, history
<1>12. CASE Ask(t)
  BY <1>1, <1>2, <1>3, <1>12 DEF Ask, ThreadStates, Messages, history
<1>13. CASE AnswerQuestion(t)
  BY <1>1, <1>2, <1>3, <1>13 DEF AnswerQuestion, ThreadStates, Messages, history
<1>14. CASE Pin(t)
  BY <1>1, <1>2, <1>3, <1>14 DEF Pin, ThreadStates, Messages, history
<1>15. CASE Unpin(t)
  BY <1>1, <1>2, <1>3, <1>15 DEF Unpin, ThreadStates, Messages, history
<1>16. CASE Archive(t)
  BY <1>1, <1>2, <1>3, <1>16 DEF Archive, ThreadStates, Messages, history
<1>17. QED
  BY <1>4, <1>5, <1>6, <1>7, <1>8, <1>9, <1>10, <1>11, <1>12, <1>13, <1>14, <1>15, <1>16 DEF BbStep

-----------------------------------------------------------------------------
(***************************************************************************)
(* Times: none is later than the clock.                                    *)
(***************************************************************************)
LEMMA EarlierEvents ==
  ASSUME Types, UpToNow, NEW time \in Nat, clock <= time
  PROVE  \A e \in Handled(time) : e.at <= time
<1>1. batch \in SUBSET Events /\ clock \in Nat /\ \A e \in batch : e.at <= clock
  BY DEF Types, UpToNow
<1>2. \A e \in Events : e.at \in Int
  BY DEF Events, Moments, None
<1>3. QED
  BY <1>1, <1>2, HandledEvents

LEMMA NoCheckUpToNow ==
  ASSUME NEW c \in Checks, c.events = {}, \A r \in Roots : c.since[r] <= clock', c.seen = NoCheck.seen, clock' \in Nat
  PROVE  /\ \A e \in c.events : e.at <= clock'
         /\ \A r \in Roots : c.since[r] <= clock'
         /\ \A t \in Threads : c.seen[t].pinned <= clock'
BY DEF NoCheck, Unlisted, None

LEMMA UpToNowKept == ASSUME Types, UpToNow, Next PROVE UpToNow'
<1>1. clock \in Nat /\ None <= clock /\ Types'
  BY TypesKept DEF Types, None
<1>2. check \in Checks /\ rows \in [Threads -> RowStates] /\ bb \in [Threads -> ThreadStates]
  BY DEF Types
<1>3. ASSUME NEW t \in Threads, BbStep(t) PROVE UpToNow'
  <2>1. UNCHANGED <<rows, check, clock>>
    BY <1>3, WhatBbLeaves
  <2>2. \A u \in Threads : bb'[u].pinned <= clock /\ said'[u] <= clock /\ failed'[u] <= clock
    BY <1>1, <1>3, WhatBbChanges DEF UpToNow
  <2>3. \A e \in batch' : e.at <= clock
    <3>1. UNCHANGED batch \/ \E at \in {None, 0, clock}, turn \in {"none", "user", "failed"} :
                               batch' = batch \cup {[thread |-> t, turn |-> turn, at |-> at]}
      BY <1>3, WhatBbLeaves, AnnouncedEvents
    <3>2. QED
      BY <1>1, <3>1 DEF UpToNow
  <2>4. QED
    BY <2>1, <2>2, <2>3 DEF UpToNow
<1>4. ASSUME NEW t \in Threads, RowStep(t) PROVE UpToNow'
  <2>1. UNCHANGED <<bbVars, check, clock, batch>>
    BY <1>4 DEF RowStep, CancelSettle, SnoozeEnds, DismissWoke, ClearPinned, Unsettle, RowsAction, history
  <2>2. \A u \in Threads : rows'[u].since \in {None, rows[u].since}
    BY <1>2, <1>4 DEF RowStep, CancelSettle, SnoozeEnds, DismissWoke, ClearPinned, Unsettle, NoRow, RowStates
  <2>3. QED
    BY <1>1, <2>1, <2>2 DEF UpToNow, bbVars
<1>5. ASSUME NEW r \in Roots, ReadTree(r) PROVE UpToNow'
  <2>1. UNCHANGED <<said, failed, rows, check, clock, batch>>
    BY <1>5 DEF ReadTree
  <2>2. \A u \in Threads : bb'[u].pinned \in {None, bb[u].pinned}
    BY <1>2, <1>5 DEF ReadTree, ThreadStates
  <2>3. QED
    BY <1>1, <2>1, <2>2 DEF UpToNow
<1>6. CASE Choose
  <2>1. UNCHANGED <<said, failed, check>> /\ clock' \in {clock, clock + 1} /\ batch' = Handled(clock')
    BY <1>6 DEF Choose
  <2>2. \A u \in Threads : bb'[u].pinned \in {clock, bb[u].pinned}
    <3>1. bb' = bb \/ RestorePins
      BY <1>6 DEF Choose
    <3>2. QED
      BY <1>2, <3>1 DEF RestorePins, ThreadStates
  <2>3. \A u \in Threads : rows'[u].since \in {None, clock', rows[u].since}
    <3>1. \/ rows' = rows
          \/ rows' = [rows EXCEPT ![settling.root].since = clock']
          \/ rows' = [t \in Threads |-> IF t \in settling.tree THEN [mark |-> "settled", since |-> None] ELSE rows[t]]
      BY <1>6 DEF Choose
    <3>2. QED
      BY <1>2, <3>1 DEF RowStates
  <2>4. clock' \in Nat /\ clock <= clock' /\ \A e \in batch' : e.at <= clock'
    BY <1>1, <2>1, EarlierEvents
  <2>5. \A time \in Int : time <= clock => time <= clock'
    BY <1>1, <2>1
  <2>6. \A u \in Threads : bb'[u].pinned <= clock' /\ said'[u] <= clock' /\ failed'[u] <= clock' /\ rows'[u].since <= clock'
    <3> SUFFICES ASSUME NEW u \in Threads
                 PROVE  bb'[u].pinned <= clock' /\ said'[u] <= clock' /\ failed'[u] <= clock' /\ rows'[u].since <= clock'
      OBVIOUS
    <3>1. bb[u].pinned \in Int /\ said[u] \in Int /\ failed[u] \in Int /\ rows[u].since \in Int
      BY DEF Types, ThreadStates, RowStates, Moments, None
    <3>2. bb[u].pinned <= clock' /\ said[u] <= clock' /\ failed[u] <= clock' /\ rows[u].since <= clock'
      BY <2>5, <3>1 DEF UpToNow
    <3>3. clock <= clock' /\ None <= clock' /\ clock' <= clock'
      BY <1>1, <2>4 DEF None
    <3>4. bb'[u].pinned <= clock'
      BY <2>2, <3>2, <3>3
    <3>5. rows'[u].since <= clock'
      BY <2>3, <3>2, <3>3
    <3>6. QED
      BY <2>1, <3>2, <3>4, <3>5
  <2>7. /\ \A e \in check'.events : e.at <= clock'
        /\ \A r \in Roots : check'.since[r] <= clock'
        /\ \A t \in Threads : check'.seen[t].pinned <= clock'
    <3>1. /\ \A e \in check.events : e.at \in Int
          /\ \A r \in Roots : check.since[r] \in Int
          /\ \A t \in Threads : check.seen[t].pinned \in Int
      BY <1>2 DEF Checks, Events, ThreadStates, Moments, None
    <3>2. QED
      BY <2>1, <2>5, <3>1 DEF UpToNow
  <2>8. QED
    BY <2>4, <2>6, <2>7 DEF UpToNow
<1>7. CASE StartCheck
  <2>1. UNCHANGED <<bbVars, rows, clock>> /\ batch' \subseteq batch
    BY <1>7 DEF StartCheck
  <2>2. \/ check' = check
        \/ check'.seen = check.seen /\ check'.events \subseteq batch /\ \A r \in Roots : check'.since[r] = rows[r].since
    BY <1>2, <1>7 DEF StartCheck, Checks
  <2>3. QED
    BY <2>1, <2>2 DEF UpToNow, bbVars
<1>8. CASE List \/ EnterChange
  <2>1. UNCHANGED <<bbVars, rows, clock, batch>>
    BY <1>8 DEF List, EnterChange
  <2>2. check'.seen = bb /\ check'.since = check.since /\ check'.events = check.events
    BY <1>2, <1>8 DEF List, EnterChange, Checks
  <2>3. QED
    BY <2>1, <2>2 DEF UpToNow, bbVars
<1>9. CASE Decide
  <2>1. UNCHANGED <<bbVars, rows, clock, batch>>
    BY <1>9 DEF Decide
  <2>2. check'.seen = NoCheck.seen /\ check'.events = {} /\ check'.since \in {NoCheck.since, check.since}
    BY <1>9 DEF Decide, NoCheck
  <2>3. \A r \in Roots : check'.since[r] <= clock'
    BY <1>1, <2>1, <2>2 DEF UpToNow, NoCheck
  <2>4. QED
    BY <1>1, <2>1, <2>2, <2>3, NoCheckUpToNow DEF UpToNow, bbVars, Types
<1>10. CASE WriteSettles \/ CheckFails \/ Restart
  <2>1. UNCHANGED <<said, failed, clock>> /\ check' = NoCheck /\ batch' \in {batch, {}, Handled(clock)}
    BY <1>10 DEF WriteSettles, CheckFails, Restart, bbVars
  <2>2. \A u \in Threads : bb'[u].pinned \in {None, bb[u].pinned}
    BY <1>2, <1>10 DEF WriteSettles, CheckFails, Restart, bbVars, ThreadStates
  <2>3. \A u \in Threads : rows'[u].since \in {None, rows[u].since}
    BY <1>2, <1>10 DEF WriteSettles, CheckFails, Restart, RowStates
  <2>4. \A e \in batch' : e.at <= clock
    BY <1>1, <2>1, EarlierEvents DEF UpToNow
  <2>5. \A r \in Roots : check'.since[r] <= clock'
    BY <1>1, <2>1 DEF NoCheck
  <2>6. check'.events = {}
    BY <2>1 DEF NoCheck
  <2>7. QED
    BY <1>1, <2>1, <2>2, <2>3, <2>4, <2>5, <2>6, NoCheckUpToNow, NoCheckTyped DEF UpToNow
<1>11. CASE Tick
  BY <1>11 DEF Tick, UpToNow, bbVars
<1>12. QED
  BY <1>3, <1>4, <1>5, <1>6, <1>7, <1>8, <1>9, <1>10, <1>11, NextSteps

LEMMA InitUpToNow == Init => UpToNow
<1> SUFFICES ASSUME Init PROVE UpToNow
  OBVIOUS
<1>1. clock = 0 /\ None <= 0
  BY DEF Init, None
<1>2. \A t \in Threads : bb[t].pinned = None /\ said[t] = None /\ failed[t] = None /\ rows[t].since = None
  BY DEF Init, Unlisted, NoRow
<1>3. batch = {} /\ check.events = {} /\ \A r \in Roots : check.since[r] = None
  BY DEF Init, NoCheck
<1>4. \A t \in Threads : check.seen[t].pinned = None
  BY DEF Init, NoCheck, Unlisted
<1>5. QED
  BY <1>1, <1>2, <1>3, <1>4 DEF UpToNow

LEMMA UpToNowSame == ASSUME UpToNow, UNCHANGED vars PROVE UpToNow'
BY DEF UpToNow, vars, bbVars, pluginVars

-----------------------------------------------------------------------------
(***************************************************************************)
(* The messages.                                                           *)
(***************************************************************************)
\* What the changes of rows and of pins leave of bb.
LEMMA OnlyPins ==
  ASSUME Types, ~(\E t \in Threads : BbStep(t)), Next
  PROVE  /\ UNCHANGED <<said, failed, sent>> \/ Choose
         /\ UNCHANGED <<said, failed>>
         /\ \A u \in Threads : bb'[u].queue = bb[u].queue /\ bb'[u].listed = bb[u].listed
                               /\ bb'[u].question = bb[u].question /\ bb'[u].work = bb[u].work
<1>1. bb \in [Threads -> ThreadStates]
  BY DEF Types
<1>2. CASE bb' = bb
  BY <1>1, <1>2, NextSteps DEF RowStep, CancelSettle, SnoozeEnds, DismissWoke, ClearPinned, Unsettle, RowsAction,
     ReadTree, Tick, Choose, StartCheck, List, Decide, EnterChange, WriteSettles, CheckFails, Restart, bbVars, history
<1>3. ASSUME NEW r \in Roots, ReadTree(r)
      PROVE  \A u \in Threads : bb'[u].queue = bb[u].queue /\ bb'[u].listed = bb[u].listed
                                /\ bb'[u].question = bb[u].question /\ bb'[u].work = bb[u].work
  BY <1>1, <1>3 DEF ReadTree, ThreadStates
<1>4. ASSUME RestorePins
      PROVE  \A u \in Threads : bb'[u].queue = bb[u].queue /\ bb'[u].listed = bb[u].listed
                                /\ bb'[u].question = bb[u].question /\ bb'[u].work = bb[u].work
  BY <1>1, <1>4 DEF RestorePins, ThreadStates
<1>5. ASSUME WriteSettles
      PROVE  \A u \in Threads : bb'[u].queue = bb[u].queue /\ bb'[u].listed = bb[u].listed
                                /\ bb'[u].question = bb[u].question /\ bb'[u].work = bb[u].work
  BY <1>1, <1>5 DEF WriteSettles, ThreadStates
<1>6. CASE bb' # bb
  <2>1. (\E r \in Roots : ReadTree(r)) \/ (Choose /\ RestorePins) \/ WriteSettles
    BY <1>6, NextSteps DEF RowStep, CancelSettle, SnoozeEnds, DismissWoke, ClearPinned, Unsettle, RowsAction,
       Tick, Choose, StartCheck, List, Decide, EnterChange, CheckFails, Restart, bbVars
  <2>2. UNCHANGED <<said, failed, sent>> \/ Choose
    BY <2>1 DEF ReadTree, WriteSettles, history
  <2>3. UNCHANGED <<said, failed>>
    BY <2>1 DEF ReadTree, Choose, WriteSettles
  <2>4. QED
    BY <1>3, <1>4, <1>5, <2>1, <2>2, <2>3
<1>7. QED
  BY <1>2, <1>6

LEMMA TreesHaveThreads ==
  ASSUME NEW r \in Roots
  PROVE  r \in TreeOf(r) /\ TreeOf(r) \subseteq Threads /\ \A listing : ListedTree(listing, r) \subseteq TreeOf(r)
BY DEF ListedTree, TreeOf, Below

LEMMA ListedTreeShrinks ==
  ASSUME NEW older, NEW newer, NEW r \in Roots, \A u \in TreeOf(r) : newer[u].listed => older[u].listed
  PROVE  ListedTree(newer, r) \subseteq ListedTree(older, r)
BY DEF ListedTree, TreeOf, Below


\* A settle that may land after its whole tree was read has no message in it that is not spared.
LEMMA LandsRead ==
  ASSUME NEW r \in Roots, NEW readable, Decision(r, readable) = "land", NEW t \in ListedTree(check.seen, r),
         Told(t, check.seen, check.since[r])
  PROVE  t \in queuedAt[r]
<1> DEFINE events   == {e \in check.events : e.thread \in ListedTree(check.seen, r)}
           user     == {e.thread : e \in {d \in events : d.turn = "user" /\ d.at >= check.since[r]}}
           failures == {e.thread : e \in {d \in events : d.turn = "failed" /\ d.at >= check.since[r]}}
<1>1. Verdict(check.seen, r, check.since[r], user \cup UserTurns(r, ListedTree(check.seen, r), check.since[r]),
              failures \cup FailedTurns(ListedTree(check.seen, r), check.since[r])) = "land"
  BY DEF Decision
<1> HIDE DEF user, failures
<1>2. UserTurns(r, ListedTree(check.seen, r), check.since[r]) = {} /\ ~IsBusy(check.seen[t])
  BY <1>1 DEF Verdict
<1>3. ~HasQueuedMessage(check.seen[t])
  BY <1>2 DEF IsBusy
<1>4. QED
  BY <1>2, <1>3 DEF UserTurns, Told

LEMMA MessagesKeptByBb ==
  ASSUME Types, UpToNow, MessageInv, NEW t \in Threads, BbStep(t)
  PROVE  MessageInv'
<1>1. /\ UNCHANGED <<rows, queuedAt, check, clock, noticed>>
  BY WhatBbLeaves
<1>2. bb' \in [Threads -> ThreadStates] /\ clock \in Nat
  BY TypesOfBb DEF Types
<1>3. \A u \in Threads : said[u] \in Int /\ said[u] <= clock
  BY DEF Types, UpToNow, Moments, None
<1>4. \A u \in Threads : said'[u] \in {said[u], clock}
  BY WhatBbChanges
<1>5. ASSUME NEW u \in Threads, NEW since \in Int, since <= clock, Told(u, bb, since) PROVE Told(u, bb, since)'
  <2>1. CASE said[u] >= since
    BY <1>2, <1>3, <1>4, <1>5, <2>1 DEF Told
  <2>2. CASE HasQueuedMessage(bb[u])
    <3>1. bb'[u].queue \in {"none", "waiting", "failed"}
      BY <1>2 DEF ThreadStates
    <3>2. bb'[u].queue = bb[u].queue \/ (bb'[u].queue = "none" /\ said'[u] = clock) \/ bb'[u].queue # "none"
      BY WhatBbChanges
    <3>3. QED
      BY <1>2, <1>5, <2>2, <3>1, <3>2 DEF Told, HasQueuedMessage
  <2>3. QED
    BY <1>5, <2>1, <2>2 DEF Told
<1>6. \A r \in Roots : /\ rows[r].since \in Int /\ rows[r].since <= clock
                       /\ check.since[r] \in Int /\ check.since[r] <= clock
                       /\ sent[r] \subseteq Threads /\ noticed[r] \subseteq Threads
  BY DEF Types, UpToNow, RowStates, Checks, Moments, None
<1>7. ASSUME NEW r \in Roots, IsWaiting(r)', NEW u \in sent'[r] PROVE Told(u, bb, rows[r].since)'
  <2>1. IsWaiting(r) /\ sent'[r] \subseteq sent[r] \cup {t}
    BY <1>1, <1>7, WhatBbChanges DEF IsWaiting
  <2>2. CASE u \in sent[r]
    BY <1>1, <1>5, <1>6, <2>1, <2>2 DEF MessageInv
  <2>3. CASE u \notin sent[r]
    <3>1. u = t /\ (said'[t] = clock \/ bb'[t].queue = "waiting")
      BY <1>7, <2>1, <2>3, WhatBbChanges
    <3>2. QED
      BY <1>1, <1>2, <1>6, <3>1 DEF Told, HasQueuedMessage
  <2>4. QED
    BY <2>2, <2>3
<1>8. ASSUME check'.phase = "started", NEW r \in Roots, Noted(r)', NEW u \in noticed'[r]
      PROVE  Told(u, bb, check.since[r])'
  BY <1>1, <1>5, <1>6, <1>8 DEF MessageInv, Noted
<1>9. ASSUME check'.phase = "listed", NEW r \in Roots, Noted(r)', NEW u \in noticed'[r]
      PROVE  Told(u, check.seen, check.since[r])'
  <2>1. Told(u, check.seen, check.since[r]) /\ u \in Threads
    BY <1>1, <1>6, <1>9 DEF MessageInv, Noted
  <2>2. QED
    BY <1>1, <1>3, <1>4, <1>6, <2>1 DEF Told
<1>10. ASSUME check'.phase = "listed", NEW u \in Threads, bb'[u].listed PROVE check'.seen[u].listed
  BY <1>1, <1>10, WhatBbChanges DEF MessageInv
<1>11. ASSUME check'.phase \in {"decided", "writing"}, NEW r \in check'.landing
       PROVE  noticed'[r] \cap ListedTree(bb', r) \subseteq queuedAt'[r]
  <2>1. r \in Roots /\ \A u \in Threads : bb'[u].listed => bb[u].listed
    BY <1>1, <1>11, WhatBbChanges DEF Types, Checks
  <2>2. QED
    BY <1>1, <1>11, <2>1, TreesHaveThreads, ListedTreeShrinks DEF MessageInv
<1>12. QED
  BY <1>7, <1>8, <1>9, <1>10, <1>11 DEF MessageInv

LEMMA MessagesKept == ASSUME Types, UpToNow, MessageInv, Next PROVE MessageInv'
<1>1. CASE \E t \in Threads : BbStep(t)
  BY <1>1, MessagesKeptByBb
<1> SUFFICES ASSUME ~(\E t \in Threads : BbStep(t)) PROVE MessageInv'
  BY <1>1
<1>2. /\ UNCHANGED <<said, failed>>
      /\ \A u \in Threads : bb'[u].queue = bb[u].queue /\ bb'[u].listed = bb[u].listed
  BY OnlyPins
<1>3. \A r \in Roots : sent[r] \subseteq Threads /\ noticed[r] \subseteq Threads
  BY DEF Types
<1>4. check \in Checks /\ rows \in [Threads -> RowStates]
  BY DEF Types
<1>5. \A u \in Threads : \A since : Told(u, bb, since) => Told(u, bb, since)'
  BY <1>2 DEF Told, HasQueuedMessage
<1>6. \A r \in Roots : ListedTree(bb', r) \subseteq ListedTree(bb, r)
  BY <1>2, TreesHaveThreads, ListedTreeShrinks
\* The messages told of, where a settle is not new.
<1>7. ASSUME \A r \in Roots : rows'[r].since \in {None, rows[r].since} \/ sent'[r] = {},
             \A r \in Roots : sent'[r] \in {sent[r], {}}
      PROVE  (\A r \in Roots : IsWaiting(r) => \A t \in sent[r] : Told(t, bb, rows[r].since))'
  BY <1>3, <1>5, <1>7 DEF MessageInv, IsWaiting
\* The check, where it goes on.
<1>8. ASSUME check' = check, \A r \in Roots : (noticed'[r] = noticed[r] /\ queuedAt'[r] = queuedAt[r]) \/ noticed'[r] = {},
             \A r \in Roots : rows'[r].since \in {None, rows[r].since} \/ sent'[r] = {},
             \A r \in Roots : sent'[r] \in {sent[r], {}}
      PROVE  MessageInv'
  <2>1. (check.phase = "started" => \A r \in Roots : Noted(r) => \A t \in noticed[r] : Told(t, bb, check.since[r]))'
    BY <1>3, <1>5, <1>8 DEF MessageInv, Noted
  <2>2. (check.phase = "listed" =>
          \A r \in Roots : Noted(r) => \A t \in noticed[r] : Told(t, check.seen, check.since[r]))'
    BY <1>2, <1>3, <1>8 DEF MessageInv, Noted, Told
  <2>3. check'.phase = "listed" => \A t \in Threads : bb'[t].listed => check'.seen[t].listed
    BY <1>2, <1>8 DEF MessageInv
  <2>4. check'.phase \in {"decided", "writing"} =>
          \A r \in check'.landing : noticed'[r] \cap ListedTree(bb', r) \subseteq queuedAt'[r]
    BY <1>4, <1>6, <1>8 DEF MessageInv, Checks
  <2>5. QED
    BY <1>7, <1>8, <2>1, <2>2, <2>3, <2>4 DEF MessageInv
<1>9. CASE (\E t \in Threads : RowStep(t)) \/ (\E r \in Roots : ReadTree(r)) \/ Tick
  <2>1. UNCHANGED <<check, noticed, queuedAt, sent>>
    BY <1>9 DEF RowStep, CancelSettle, SnoozeEnds, DismissWoke, ClearPinned, Unsettle, RowsAction, ReadTree, Tick, history
  <2>2. \A r \in Roots : rows'[r].since \in {None, rows[r].since}
    BY <1>4, <1>9 DEF RowStep, CancelSettle, SnoozeEnds, DismissWoke, ClearPinned, Unsettle, RowsAction, ReadTree, Tick,
                      NoRow, RowStates
  <2>3. QED
    BY <1>8, <2>1, <2>2
<1>10. CASE Choose
  <2>1. check' = check
    BY <1>10 DEF Choose
  <2>2. \/ UNCHANGED <<rows, queuedAt, sent, noticed>>
        \/ /\ rows' = [rows EXCEPT ![settling.root].since = clock + 1]
           /\ sent' = [sent EXCEPT ![settling.root] = {}] /\ noticed' = [noticed EXCEPT ![settling.root] = {}]
           /\ \E q : queuedAt' = [queuedAt EXCEPT ![settling.root] = q]
        \/ /\ rows' = [t \in Threads |-> IF t \in settling.tree THEN [mark |-> "settled", since |-> None] ELSE rows[t]]
           /\ UNCHANGED <<queuedAt, sent, noticed>>
    BY <1>10 DEF Choose, history
  <2>3. /\ queuedAt \in [Roots -> SUBSET Threads] /\ sent \in [Roots -> SUBSET Threads]
        /\ noticed \in [Roots -> SUBSET Threads]
    BY DEF Types
  <2>4. \A r \in Roots : rows'[r].since \in {None, rows[r].since} \/ sent'[r] = {}
    BY <1>4, <2>2, <2>3 DEF RowStates
  <2>5. \A r \in Roots : /\ sent'[r] \in {sent[r], {}}
                         /\ (noticed'[r] = noticed[r] /\ queuedAt'[r] = queuedAt[r]) \/ noticed'[r] = {}
    BY <2>2, <2>3
  <2>6. QED
    BY <1>8, <2>1, <2>4, <2>5
<1>11. CASE StartCheck
  <2>1. check.phase = "idle" /\ UNCHANGED <<bb, said, rows, sent>> /\ noticed' = sent
    BY <1>11 DEF StartCheck, Asked, Due, bbVars
  <2>2. \/ check' = check
        \/ check'.phase = "started" /\ \A r \in Roots : check'.since[r] = rows[r].since
    BY <1>4, <1>11 DEF StartCheck, Checks
  <2>3. (\A r \in Roots : IsWaiting(r) => \A t \in sent[r] : Told(t, bb, rows[r].since))'
    BY <1>7, <2>1
  <2>4. \A r \in Roots : \A since : rows[r].since # None /\ since = rows[r].since => \A t \in sent[r] : Told(t, bb, since)'
    BY <2>1, <2>3 DEF IsWaiting
  <2>5. QED
    BY <2>1, <2>2, <2>3, <2>4 DEF MessageInv, Noted
<1>12. CASE List
  <2>1. UNCHANGED <<bb, said, rows, sent, noticed>> /\ check.phase = "started"
    BY <1>12 DEF List, bbVars
  <2>2. check'.phase = "listed" /\ check'.seen = bb /\ check'.since = check.since
    BY <1>4, <1>12 DEF List, Checks
  <2>3. (\A r \in Roots : IsWaiting(r) => \A t \in sent[r] : Told(t, bb, rows[r].since))'
    BY <1>7, <2>1
  <2>4. (\A r \in Roots : Noted(r) => \A t \in noticed[r] : Told(t, check.seen, check.since[r]))'
    BY <2>1, <2>2 DEF MessageInv, Noted, Told
  <2>5. QED
    BY <2>1, <2>2, <2>3, <2>4 DEF MessageInv
<1>13. CASE Decide
  <2>1. UNCHANGED <<bb, said, rows, sent, noticed, queuedAt>> /\ check.phase = "listed"
    BY <1>13 DEF Decide, bbVars, history
  <2>2. PICK readable \in BOOLEAN :
          LET noted   == {r \in Roots : check.since[r] # None}
              verdict == [r \in noted |-> Decision(r, readable)]
              ending  == {r \in noted : verdict[r] = "end"}
              landing == {r \in noted : verdict[r] = "land" /\ GraceOver(r)}
          IN  check' = IF ending \cup landing = {} THEN NoCheck
                       ELSE [NoCheck EXCEPT !.phase = "decided", !.since = check.since,
                                            !.ending = ending, !.landing = landing]
    BY <1>13, DecideIs
  <2>3. /\ check'.phase \in {"idle", "decided"}
        /\ check'.phase = "decided" => \A r \in check'.landing : r \in Roots /\ Noted(r) /\ Decision(r, readable) = "land"
    BY <2>2 DEF NoCheck, Noted
  <2>4. (\A r \in Roots : IsWaiting(r) => \A t \in sent[r] : Told(t, bb, rows[r].since))'
    BY <1>7, <2>1
  <2>5. ASSUME NEW r \in Roots, Noted(r), Decision(r, readable) = "land", NEW t \in noticed[r], t \in ListedTree(bb, r)
        PROVE  t \in queuedAt[r]
    <3>1. Told(t, check.seen, check.since[r])
      BY <2>1, <2>5 DEF MessageInv
    <3>2. t \in ListedTree(check.seen, r)
      BY <2>1, <2>5, TreesHaveThreads, ListedTreeShrinks DEF MessageInv
    <3>3. QED
      BY <2>5, <3>1, <3>2, LandsRead
  <2>6. QED
    BY <2>1, <2>3, <2>4, <2>5 DEF MessageInv
<1>14. CASE EnterChange
  <2>1. UNCHANGED <<bb, said, rows, sent, noticed, queuedAt>> /\ check.phase = "decided"
    BY <1>14 DEF EnterChange, bbVars, history
  <2>2. check'.phase = "writing" /\ check'.landing \subseteq check.landing
    BY <1>4, <1>14 DEF EnterChange, Checks
  <2>3. (\A r \in Roots : IsWaiting(r) => \A t \in sent[r] : Told(t, bb, rows[r].since))'
    BY <1>7, <2>1
  <2>4. QED
    BY <2>1, <2>2, <2>3 DEF MessageInv
<1>15. CASE WriteSettles \/ CheckFails \/ Restart
  <2>1. check' = NoCheck /\ UNCHANGED <<sent, noticed>>
    BY <1>15 DEF WriteSettles, CheckFails, Restart, history
  <2>2. \A r \in Roots : rows'[r].since \in {None, rows[r].since}
    BY <1>4, <1>15 DEF WriteSettles, CheckFails, Restart, RowStates
  <2>3. (\A r \in Roots : IsWaiting(r) => \A t \in sent[r] : Told(t, bb, rows[r].since))'
    BY <1>7, <2>1, <2>2
  <2>4. QED
    BY <2>1, <2>3 DEF MessageInv, NoCheck
<1>16. QED
  BY <1>9, <1>10, <1>11, <1>12, <1>13, <1>14, <1>15, NextSteps

\* A settle does not land over a message the person sent to its tree before the check that
\* lands it began, but for the threads with one queued when it was chosen.
THEOREM LandsOverNoMessage == Spec => LandsUnmessaged
<1>1. Init => Types /\ UpToNow /\ MessageInv
  <2>1. Init => MessageInv
    BY DEF Init, MessageInv, IsWaiting, NoRow, NoCheck
  <2>2. QED
    BY <2>1, InitTypes, InitUpToNow
<1>2. Types /\ UpToNow /\ MessageInv /\ [Next]_vars => (Types /\ UpToNow /\ MessageInv)'
  <2>1. MessageInv /\ UNCHANGED vars => MessageInv'
    BY DEF MessageInv, IsWaiting, Noted, Told, vars, bbVars, pluginVars, history
  <2>2. QED
    BY <2>1, TypesKept, UpToNowKept, UpToNowSame, MessagesKept
<1>3. MessageInv => (\A r \in Roots : LandsNow(r) => noticed[r] \cap ListedTree(bb, r) \subseteq queuedAt[r])
  BY DEF LandsNow, Lands, MessageInv
<1>4. QED
  BY <1>1, <1>2, <1>3, PTL DEF Spec, LandsUnmessaged

-----------------------------------------------------------------------------
(***************************************************************************)
(* The reasons.                                                            *)
(***************************************************************************)
\* The events that waited with their handlers still do not speak once handled.
LEMMA HandledSilent ==
  ASSUME Types, \A e \in batch : e.turn = "user" => e.at # None, NEW time \in Nat
  PROVE  /\ \A e \in Handled(time) : e.turn = "user" => e.at # None
         /\ \A e \in Handled(time) : e \in batch \/ e.turn = "none"
              \/ (e.turn = "failed" /\ \E d \in batch : d.at = None /\ d.turn = "failed" /\ d.thread = e.thread)
<1>1. batch \in SUBSET Events
  BY DEF Types
<1>2. \A e \in batch : e.turn \in {"none", "user", "failed"}
  BY <1>1 DEF Events
<1>3. QED
  BY <1>2, HandledEvents

LEMMA StillSilent ==
  ASSUME Types, \A e \in batch : e.turn = "user" => e.at # None, NEW time \in Nat, NEW tree, NEW since,
         \A e \in batch : e.thread \in tree => ~Speaks(e, since)
  PROVE  \A e \in Handled(time) : e.thread \in tree => ~Speaks(e, since)
<1>1. ASSUME NEW e \in Handled(time), e.thread \in tree, e.turn = "none" PROVE ~Speaks(e, since)
  BY <1>1 DEF Speaks
<1>2. ASSUME NEW d \in batch, d.thread \in tree, d.at = None PROVE d.turn # "failed"
  BY <1>2 DEF Speaks
<1>3. QED
  BY <1>1, <1>2, HandledSilent

\* What leaves the tree and its settle alone, but for pins taken off.
LEMMA UndisturbedKept ==
  ASSUME Types, NEW r \in Roots, Undisturbed(r), UNCHANGED <<said, failed>>,
         rows'[r].since = rows[r].since, queuedAt'[r] = queuedAt[r],
         \A u \in TreeOf(r) : /\ bb'[u].queue = bb[u].queue /\ bb'[u].listed = bb[u].listed
                              /\ bb'[u].question = bb[u].question /\ bb'[u].pinned \in {bb[u].pinned, None},
         \A e \in batch' : e.thread \in ListedTree(bb, r) => ~Speaks(e, rows[r].since)
  PROVE  Undisturbed(r)'
<1>1. /\ ListedTree(bb', r) \subseteq ListedTree(bb, r) /\ ListedTree(bb', r) \subseteq TreeOf(r) /\ r \in TreeOf(r)
  BY TreesHaveThreads, ListedTreeShrinks
<1>2. Unanswerable(bb', r, rows'[r].since)
  BY <1>1 DEF Undisturbed, Unanswerable, PinnedAfter
<1>3. ~PinnedAfter(bb'[r], rows'[r].since) /\ bb'[r].listed
  BY <1>1 DEF Undisturbed, PinnedAfter
<1>4. QED
  BY <1>1, <1>2, <1>3 DEF Undisturbed, Speaks, Unanswerable, PinnedAfter

LEMMA OverlookedKept ==
  ASSUME NEW r \in Roots, Overlooked(r), check' = check, \A u \in TreeOf(r) : bb'[u].listed = bb[u].listed
  PROVE  Overlooked(r)'
<1>1. ListedTree(bb', r) \subseteq ListedTree(bb, r) /\ ListedTree(bb, r) \subseteq ListedTree(bb', r)
  BY ListedTreeShrinks
<1>2. QED
  BY <1>1 DEF Overlooked, Speaks, Unanswerable, PinnedAfter

\* A step of bb or the person that is no reason says nothing for the end.
LEMMA ReasonsKeptByBb == ASSUME Types, UpToNow, ReasonInv, NEW t \in Threads, BbStep(t) PROVE ReasonInv'
<1>1. UNCHANGED <<rows, queuedAt, check, lock, clock>>
  BY WhatBbLeaves
<1>2. UNCHANGED reason \/ Ends(t)
  BY WhatBbLeaves
<1>3. ASSUME NEW r \in Roots, Awaited(r)' PROVE Awaited(r) /\ (t \in TreeOf(r) => ~Ends(t))
  BY <1>1, <1>2, <1>3 DEF Awaited, IsWaiting, Ends, WaitingOn
<1>4. clock \in Nat
  BY DEF Types
<1>5. \A e \in batch' : e \in batch \/ (e.thread = t /\ e.at \in {None, 0, clock}
                                        /\ (e.turn = "user" => e.at = clock) /\ (e.turn = "none" \/ Ends(t)))
  <2>1. ASSUME NEW turn \in {"none", "user", "failed"}, Announce(t, turn), turn = "none" \/ Ends(t)
        PROVE  \A e \in batch' : e \in batch \/ (e.thread = t /\ e.at \in {None, 0, clock}
                                        /\ (e.turn = "user" => e.at = clock) /\ (e.turn = "none" \/ Ends(t)))
    BY <2>1 DEF Announce
  <2>2. QED
    BY <2>1, WhatBbChanges
<1>6. \A e \in batch' : e.turn = "user" => e.at # None
  BY <1>4, <1>5 DEF ReasonInv, None
<1>7. ASSUME NEW r \in Roots, Awaited(r)' PROVE Undisturbed(r)'
  <2>1. Undisturbed(r) /\ (t \in TreeOf(r) => ~Ends(t))
    BY <1>3, <1>7 DEF ReasonInv
  <2>2. r \in TreeOf(r) /\ TreeOf(r) \subseteq Threads /\ ListedTree(bb, r) \subseteq TreeOf(r)
    BY TreesHaveThreads
  <2>3. \A u \in TreeOf(r) : bb'[u].listed => bb[u].listed
    BY <2>2, WhatBbChanges
  <2>4. ListedTree(bb', r) \subseteq ListedTree(bb, r)
    BY <2>3, ListedTreeShrinks
  <2>5. \A u \in TreeOf(r) : bb'[u].pinned \in {bb[u].pinned, None} /\ failed'[u] = failed[u]
    BY <2>1, <2>2, WhatBbChanges
  <2>6. \A u \in TreeOf(r) : bb[u].listed => bb'[u].listed
    BY <2>1, <2>2, WhatBbChanges
  <2>7. \A u \in TreeOf(r) : bb'[u].question => bb[u].question \/ u \in Hidden
    BY <2>1, <2>2, WhatBbChanges
  <2>8. \A u \in TreeOf(r) : bb'[u].queue \in {bb[u].queue, "none"}
    BY <2>1, <2>2, WhatBbChanges
  <2>9. \A u \in TreeOf(r) : said'[u] = said[u] \/ bb[u].queue = "waiting"
    BY <2>1, <2>2, WhatBbChanges
  <2>10. ASSUME NEW e \in batch', e.thread \in ListedTree(bb', r) PROVE ~Speaks(e, rows[r].since)
    <3>1. CASE e \in batch
      BY <2>1, <2>4, <2>10, <3>1 DEF Undisturbed
    <3>2. CASE e.turn = "none"
      BY <3>2 DEF Speaks
    <3>3. CASE e.thread = t /\ Ends(t)
      BY <2>1, <2>2, <2>4, <2>10, <3>3
    <3>4. QED
      BY <1>5, <3>1, <3>2, <3>3
  <2>11. Unanswerable(bb', r, rows[r].since) /\ ~PinnedAfter(bb'[r], rows[r].since)
    BY <2>1, <2>2, <2>4, <2>5, <2>7, <2>8 DEF Undisturbed, Unanswerable, PinnedAfter
  <2>12. \A u \in ListedTree(bb', r) : /\ bb'[u].queue = "waiting" => u \in queuedAt[r]
                                       /\ u \notin queuedAt[r] => said'[u] < rows[r].since
                                       /\ failed'[u] < rows[r].since
    BY <2>1, <2>2, <2>4, <2>5, <2>8, <2>9 DEF Undisturbed
  <2>13. bb'[r].listed
    BY <2>1, <2>2, <2>6 DEF Undisturbed
  <2>14. QED
    BY <1>1, <2>10, <2>11, <2>12, <2>13 DEF Undisturbed, Speaks, Unanswerable, PinnedAfter
<1>8. ASSUME NEW r \in Roots, check.phase \in {"started", "listed"}, Noted(r), Still(r), Awaited(r)' PROVE Overlooked(r)'
  <2>1. Overlooked(r) /\ (t \in TreeOf(r) => ~Ends(t))
    BY <1>3, <1>8 DEF ReasonInv
  <2>2. TreeOf(r) \subseteq Threads
    BY TreesHaveThreads
  <2>3. \A u \in TreeOf(r) : bb'[u].listed = bb[u].listed
    <3>1. \A u \in TreeOf(r) : (bb'[u].listed => bb[u].listed) /\ (bb[u].listed => bb'[u].listed)
      BY <2>1, <2>2, WhatBbChanges
    <3>2. \A u \in Threads : bb[u].listed \in BOOLEAN /\ bb'[u].listed \in BOOLEAN
      BY TypesOfBb DEF Types, ThreadStates
    <3>3. QED
      BY <2>2, <3>1, <3>2
  <2>4. QED
    BY <1>1, <2>1, <2>3, OverlookedKept
<1>9. \A r \in Roots : reason[r] => reason'[r]
  BY <1>2 DEF Ends
<1>10. check \in Checks
  BY DEF Types
<1>11. QED
  BY <1>1, <1>6, <1>7, <1>8, <1>9, <1>10 DEF ReasonInv, Noted, Still, Checks

\* What the change queue's other work keeps, where it adds no reason.
LEMMA ReasonsKeptElsewhere ==
  ASSUME Types, ReasonInv, Next, UNCHANGED <<said, failed, check>>,
         check.phase = "writing" => lock' = "check",
         \A r \in Roots : reason[r] => reason'[r],
         \A r \in Roots : /\ rows'[r].since = rows[r].since \/ rows'[r].since = None \/ Undisturbed(r)'
                          /\ Awaited(r)' /\ rows'[r].since = rows[r].since => Undisturbed(r)',
         \A r \in Roots : rows'[r].since \in {None, rows[r].since} \/ rows'[r].since # check.since[r],
         \A u \in Threads : bb'[u].listed = bb[u].listed,
         \A e \in batch' : e.turn = "user" => e.at # None,
         check.phase = "writing" => UNCHANGED reason /\ \A r \in Roots : rows'[r].since = rows[r].since
  PROVE  ReasonInv'
<1>1. \A r \in Roots : Awaited(r)' => Undisturbed(r)'
  BY DEF Awaited, IsWaiting
<1>2. \A r \in Roots : Noted(r) /\ Still(r)' => Still(r) /\ rows'[r].since = rows[r].since
  BY DEF Noted, Still
<1>3. ASSUME check.phase \in {"started", "listed"}, NEW r \in Roots, Noted(r), Still(r)', Awaited(r)' PROVE Overlooked(r)'
  <2>1. Awaited(r) /\ Still(r)
    BY <1>2, <1>3 DEF Awaited, IsWaiting
  <2>2. \A u \in TreeOf(r) : bb'[u].listed = bb[u].listed
    BY TreesHaveThreads
  <2>3. QED
    BY <1>3, <2>1, <2>2, OverlookedKept DEF ReasonInv
<1>4. check \in Checks
  BY DEF Types
<1>5. \A r \in check.ending : Noted(r)' = Noted(r)
  BY DEF Noted
<1>6. check.phase \in {"decided", "writing"} => \A r \in check.ending : Noted(r) /\ (Still(r)' => reason'[r])
  BY <1>2, <1>4 DEF ReasonInv, Checks
<1>7. check.phase = "writing" => \A r \in check.ending : Still(r)'
  BY <1>4 DEF ReasonInv, Still, Checks
<1>8. QED
  BY <1>1, <1>3, <1>5, <1>6, <1>7 DEF ReasonInv, Noted

LEMMA ReasonsKeptByRows ==
  ASSUME Types, ReasonInv, ~(\E t \in Threads : BbStep(t)), Next,
         (\E t \in Threads : RowStep(t)) \/ (\E r \in Roots : ReadTree(r)) \/ Tick
  PROVE  ReasonInv'
<1>1. rows \in [Threads -> RowStates] /\ bb \in [Threads -> ThreadStates] /\ reason \in [Roots -> BOOLEAN]
  BY DEF Types
<1>2. UNCHANGED <<said, failed, check, batch, queuedAt, clock>>
  BY DEF RowStep, CancelSettle, SnoozeEnds, DismissWoke, ClearPinned, Unsettle, RowsAction, ReadTree, Tick, bbVars, history
<1>3. \A r \in Threads : rows'[r].since \in {None, rows[r].since}
  BY <1>1 DEF RowStep, CancelSettle, SnoozeEnds, DismissWoke, ClearPinned, Unsettle, RowsAction, ReadTree, Tick,
              NoRow, RowStates
<1>4. \A r \in Roots : reason[r] => reason'[r]
  BY <1>1 DEF RowStep, CancelSettle, SnoozeEnds, DismissWoke, ClearPinned, Unsettle, RowsAction, ReadTree, Tick,
              history, Ends
<1>5. \A u \in Threads : bb'[u].pinned \in {bb[u].pinned, None}
  <2>1. bb' = bb \/ \E r \in Roots : ReadTree(r)
    BY DEF RowStep, CancelSettle, SnoozeEnds, DismissWoke, ClearPinned, Unsettle, RowsAction, Tick, bbVars
  <2>2. QED
    BY <1>1, <2>1 DEF ReadTree, ThreadStates
<1>6. \A u \in Threads : bb'[u].queue = bb[u].queue /\ bb'[u].listed = bb[u].listed /\ bb'[u].question = bb[u].question
  BY OnlyPins
<1>7. lock = "check" => /\ lock' = "check" /\ UNCHANGED reason /\ \A r \in Threads : rows'[r].since = rows[r].since
  BY <1>1 DEF RowStep, CancelSettle, SnoozeEnds, DismissWoke, ClearPinned, Unsettle, RowsAction, ReadTree, Tick,
              history, RowStates
<1>8. ASSUME NEW r \in Roots, Awaited(r)', rows'[r].since = rows[r].since PROVE Undisturbed(r)'
  <2>1. Undisturbed(r)
    BY <1>4, <1>8 DEF ReasonInv, Awaited, IsWaiting
  <2>2. TreeOf(r) \subseteq Threads
    BY TreesHaveThreads
  <2>3. \A e \in batch' : e.thread \in ListedTree(bb, r) => ~Speaks(e, rows[r].since)
    BY <1>2, <2>1 DEF Undisturbed
  <2>4. QED
    BY <1>2, <1>5, <1>6, <1>8, <2>1, <2>2, <2>3, UndisturbedKept
<1>9. \A r \in Roots : rows'[r].since \in {None, rows[r].since}
  BY <1>3
<1>10. \A e \in batch' : e.turn = "user" => e.at # None
  BY <1>2 DEF ReasonInv
<1>11. check.phase = "writing" => /\ lock' = "check" /\ UNCHANGED reason /\ \A r \in Roots : rows'[r].since = rows[r].since
  BY <1>7 DEF ReasonInv
<1>12. QED
  BY <1>2, <1>4, <1>6, <1>8, <1>9, <1>10, <1>11, ReasonsKeptElsewhere

\* A settle that turns to waiting starts with nothing against it that it does not own to.
LEMMA ReasonsKeptByChoose == ASSUME Types, UpToNow, ReasonInv, Next, ~(\E t \in Threads : BbStep(t)), Choose PROVE ReasonInv'
<1> PICK q \in Roots : q = settling.root
  BY DEF Types, Choose
<1>1. rows \in [Threads -> RowStates] /\ bb \in [Threads -> ThreadStates] /\ reason \in [Roots -> BOOLEAN]
      /\ queuedAt \in [Roots -> SUBSET Threads] /\ clock \in Nat
  BY DEF Types
<1>2. UNCHANGED <<said, failed, check>> /\ clock' \in {clock, clock + 1} /\ batch' = Handled(clock') /\ clock' \in Nat
  BY <1>1 DEF Choose
<1>3. lock = "settle" /\ check.phase # "writing"
  BY DEF Choose, ReasonInv
<1>4. \A u \in Threads : bb'[u].queue = bb[u].queue /\ bb'[u].listed = bb[u].listed /\ bb'[u].question = bb[u].question
  BY OnlyPins
<1>5. bb' = bb \/ (RestorePins /\ \A r \in Roots : PutBack[r] /\ r # q => reason'[r])
  BY <1>1 DEF Choose, PutBack
<1>6. \A e \in batch' : e.turn = "user" => e.at # None
  BY <1>2, HandledSilent DEF ReasonInv
<1> DEFINE Anew == /\ ~Refused(q) /\ rows' = [rows EXCEPT ![q].since = clock + 1] /\ clock' = clock + 1
                   /\ ListedTree(bb, q) = settling.tree
                   /\ queuedAt' = [queuedAt EXCEPT ![q] = {t \in settling.tree : HasQueuedMessage(bb[t])}]
                   /\ reason' = [PutBack EXCEPT ![q] =
                        \/ \E t \in settling.tree : bb[t].queue = "failed"
                        \/ \E e \in batch : e.at = None /\ e.turn = "failed" /\ e.thread \in settling.tree]
<1>7. \/ UNCHANGED <<rows, queuedAt>> /\ reason' = PutBack
      \/ Anew
      \/ /\ rows' = [t \in Threads |-> IF t \in settling.tree THEN [mark |-> "settled", since |-> None] ELSE rows[t]]
         /\ UNCHANGED <<bb, queuedAt, reason>>
  BY DEF Choose, Same, history
<1>8. \A r \in Roots : reason[r] => PutBack[r]
  BY DEF PutBack
<1> HIDE DEF Anew
<1>16. /\ \/ UNCHANGED queuedAt /\ reason' = PutBack
          \/ Anew
          \/ UNCHANGED <<bb, queuedAt, reason>>
       /\ Anew => \A r \in Roots : r # q => queuedAt'[r] = queuedAt[r] /\ reason'[r] = PutBack[r]
  BY <1>1, <1>7 DEF Anew, PutBack
\* The settles that waited before.
<1>9. ASSUME NEW r \in Roots, Awaited(r)', rows'[r].since = rows[r].since PROVE Undisturbed(r)' /\ ~reason[r]
  <2>1. ~Anew \/ r # q
    <3>1. rows[r].since <= clock
      BY DEF UpToNow
    <3>2. rows[r].since \in Int
      BY <1>1 DEF RowStates, Moments, None
    <3>3. QED
      BY <1>1, <1>9, <3>1, <3>2 DEF RowStates, Anew
  <2>2. ~reason[r] /\ queuedAt'[r] = queuedAt[r] /\ (bb' = bb \/ ~PutBack[r])
    BY <1>8, <1>9, <1>16, <2>1 DEF Awaited
  <2>3. Undisturbed(r) /\ IsWaiting(r)
    BY <1>9, <2>2 DEF ReasonInv, Awaited, IsWaiting
  <2>4. TreeOf(r) \subseteq Threads
    BY TreesHaveThreads
  <2>5. \A u \in TreeOf(r) : bb'[u].pinned = bb[u].pinned
    <3>1. CASE bb' = bb
      BY <3>1
    <3>2. CASE bb' # bb
      <4>1. ASSUME NEW u \in TreeOf(r), u \in settling.unpinned PROVE FALSE
        <5>1. r \in WaitingOn(u)
          BY <2>3, <4>1 DEF WaitingOn
        <5>2. r \in UNION {WaitingOn(t) : t \in settling.unpinned}
          BY <4>1, <5>1
        <5>3. PutBack[r]
          BY <5>2 DEF PutBack
        <5>4. QED
          BY <2>2, <3>2, <5>3
      <4>2. QED
        BY <1>1, <1>5, <2>4, <3>2, <4>1 DEF RestorePins
    <3>3. QED
      BY <3>1, <3>2
  <2>6. \A e \in batch' : e.thread \in ListedTree(bb, r) => ~Speaks(e, rows[r].since)
    BY <1>2, <2>3, StillSilent DEF ReasonInv, Undisturbed
  <2>7. QED
    BY <1>2, <1>4, <1>9, <2>2, <2>3, <2>4, <2>5, <2>6, UndisturbedKept
\* The new one.
<1>10. ASSUME Anew, ~reason'[q] PROVE Undisturbed(q)'
  <2>1. TreeOf(q) \subseteq Threads /\ q \in TreeOf(q) /\ ListedTree(bb', q) \subseteq ListedTree(bb, q)
        /\ ListedTree(bb', q) \subseteq TreeOf(q)
    BY <1>1, <1>4, TreesHaveThreads, ListedTreeShrinks
  <2>2. rows'[q].since = clock + 1 /\ clock' = clock + 1
    BY <1>1, <1>10 DEF RowStates, Anew
  <2>3. /\ \A t \in ListedTree(bb, q) : bb[t].queue # "failed"
        /\ \A e \in batch : e.at = None /\ e.turn = "failed" => e.thread \notin ListedTree(bb, q)
    <3>1. reason'[q] = (\/ \E t \in settling.tree : bb[t].queue = "failed"
                        \/ \E e \in batch : e.at = None /\ e.turn = "failed" /\ e.thread \in settling.tree)
      BY <1>1, <1>10 DEF PutBack, Anew
    <3>2. QED
      BY <1>10, <3>1 DEF Anew
  <2>4. \A u \in Threads : bb'[u].pinned \in Int /\ bb'[u].pinned <= clock
    <3>1. \A u \in Threads : bb'[u].pinned \in {clock, bb[u].pinned}
      BY <1>1, <1>5 DEF RestorePins, ThreadStates
    <3>2. \A u \in Threads : bb[u].pinned \in Int /\ bb[u].pinned <= clock
      BY <1>1 DEF UpToNow, ThreadStates, Moments, None
    <3>3. QED
      BY <1>1, <3>1, <3>2
  <2>5. \A u \in Threads : ~PinnedAfter(bb'[u], clock + 1)
    BY <1>1, <2>4 DEF PinnedAfter
  <2>6. bb'[q].listed /\ \A u \in ListedTree(bb', q) \ Hidden : ~bb'[u].question
    <3>1. bb[q].listed /\ \A u \in (Below(q) \ Hidden) \cup {q} : bb[u].listed => ~bb[u].question
      BY <1>10 DEF Refused, Anew
    <3>2. \A u \in ListedTree(bb, q) : bb[u].listed
      BY DEF ListedTree
    <3>3. QED
      BY <1>1, <1>4, <2>1, <3>1, <3>2 DEF TreeOf
  <2>7. Unanswerable(bb', q, clock + 1)
    BY <1>4, <2>1, <2>3, <2>5, <2>6 DEF Unanswerable
  <2>8. queuedAt'[q] = {t \in ListedTree(bb, q) : HasQueuedMessage(bb[t])}
    BY <1>1, <1>10 DEF Anew
  <2>9. \A u \in Threads : said'[u] < clock + 1 /\ failed'[u] < clock + 1
    <3>1. \A u \in Threads : said[u] \in Int /\ failed[u] \in Int /\ said[u] <= clock /\ failed[u] <= clock
      BY DEF Types, UpToNow, Moments, None
    <3>2. QED
      BY <1>1, <1>2, <3>1
  <2>10. ASSUME NEW e \in batch', e.thread \in ListedTree(bb', q) PROVE ~Speaks(e, clock + 1)
    <3>1. e.turn = "failed" => e.at # None
      <4>1. \/ e.at # None
            \/ \E d \in batch : e.at = IF d.turn = "failed" THEN clock' ELSE 0
        BY <1>2, HandledEvents
      <4>2. QED
        BY <1>2, <4>1 DEF None
    <3>2. CASE e \in batch
      <4>1. e.at \in Int /\ e.at <= clock
        BY <3>2 DEF Types, UpToNow, Events, Moments, None
      <4>2. QED
        BY <1>1, <3>1, <4>1 DEF Speaks
    <3>3. CASE e.turn = "none"
      BY <3>3 DEF Speaks
    <3>4. CASE \E d \in batch : d.at = None /\ d.turn = "failed" /\ d.thread = e.thread
      BY <2>1, <2>3, <2>10, <3>4
    <3>5. QED
      BY <1>2, <3>2, <3>3, <3>4, HandledSilent DEF ReasonInv
  <2>11. \A u \in ListedTree(bb', q) : bb'[u].queue = "waiting" => u \in queuedAt'[q]
    BY <1>4, <2>1, <2>8 DEF HasQueuedMessage
  <2>12. QED
    BY <2>1, <2>2, <2>5, <2>6, <2>7, <2>9, <2>10, <2>11 DEF Undisturbed, Speaks, Unanswerable, PinnedAfter
<1>11. \A r \in Roots : Awaited(r)' => Undisturbed(r)'
  <2>1. ASSUME NEW r \in Roots, Awaited(r)' PROVE Undisturbed(r)'
    <3>1. rows'[r].since = rows[r].since \/ (Anew /\ r = q)
      BY <1>1, <1>7, <2>1 DEF RowStates, Awaited, IsWaiting, Anew
    <3>2. QED
      BY <1>9, <1>10, <2>1, <3>1 DEF Awaited
  <2>2. QED
    BY <2>1
<1>12. ASSUME NEW r \in Roots, Noted(r), Still(r)' PROVE rows'[r].since = rows[r].since /\ (reason[r] => reason'[r])
  <2>1. check.since[r] <= clock /\ check.since[r] \in Int
    BY DEF UpToNow, Types, Checks, Moments, None
  <2>2. ~(Anew /\ r = q)
    BY <1>1, <1>2, <1>12, <2>1 DEF Still, RowStates, Anew
  <2>3. rows'[r].since = rows[r].since
    BY <1>1, <1>2, <1>7, <1>12, <2>2 DEF Still, Noted, RowStates, Anew
  <2>4. reason[r] => reason'[r]
    BY <1>8, <1>16, <2>2
  <2>5. QED
    BY <2>3, <2>4
<1>13. ASSUME check.phase \in {"started", "listed"}, NEW r \in Roots, Noted(r), Still(r)', Awaited(r)' PROVE Overlooked(r)'
  <2>1. Awaited(r) /\ Still(r)
    BY <1>2, <1>9, <1>12, <1>13 DEF Awaited, IsWaiting, Still
  <2>2. \A u \in TreeOf(r) : bb'[u].listed = bb[u].listed
    BY <1>4, TreesHaveThreads
  <2>3. QED
    BY <1>2, <1>13, <2>1, <2>2, OverlookedKept DEF ReasonInv
<1>14. check.phase = "decided" => \A r \in check.ending : Noted(r) /\ (Still(r)' => reason'[r])
  <2>1. check.ending \subseteq Roots
    BY DEF Types, Checks
  <2>2. QED
    BY <1>2, <1>12, <2>1 DEF ReasonInv, Still
<1>15. QED
  BY <1>2, <1>3, <1>6, <1>11, <1>13, <1>14 DEF ReasonInv, Noted

\* A settle that nothing speaks against is not ended by the check that reads its tree.
LEMMA NotEnded ==
  ASSUME Types, NEW r \in Roots, NEW readable, Undisturbed(r), Overlooked(r), Noted(r), Still(r), check.phase = "listed"
  PROVE  Decision(r, readable) # "end"
<1> DEFINE since    == check.since[r]
           tree     == ListedTree(check.seen, r)
           events   == {e \in check.events : e.thread \in tree}
           user     == {e.thread : e \in {d \in events : d.turn = "user" /\ d.at >= since}}
           failures == {e.thread : e \in {d \in events : d.turn = "failed" /\ d.at >= since}}
           toRead   == {e.thread : e \in {d \in events : d.turn = "none"}} \cup {t \in tree : check.seen[t].work = "turn"}
<1>1. tree \subseteq ListedTree(bb, r) /\ check.seen[r].listed /\ Unanswerable(check.seen, r, since)
  BY DEF Overlooked
<1>2. \A e \in events : ~Speaks(e, since)
  BY <1>1 DEF Overlooked
<1>3. user = {} /\ failures = {}
  BY <1>2 DEF Speaks
<1>4. toRead \subseteq tree
  OBVIOUS
<1>5. ASSUME NEW ids \in SUBSET tree PROVE UserTurns(r, ids, since) = {} /\ FailedTurns(ids, since) = {}
  <2>1. ASSUME NEW t \in ids PROVE (t \notin queuedAt[r] => ~(said[t] >= since)) /\ ~(failed[t] >= since)
    <3>1. t \in ListedTree(bb, r) /\ t \in Threads
      BY <1>1, <1>5, <2>1, TreesHaveThreads
    <3>2. said[t] \in Int /\ failed[t] \in Int /\ rows[r].since \in Int /\ rows[r].since = since
      BY <3>1 DEF Types, RowStates, Moments, None, Still
    <3>3. (t \notin queuedAt[r] => said[t] < rows[r].since) /\ failed[t] < rows[r].since
      BY <3>1 DEF Undisturbed
    <3>4. QED
      BY <3>2, <3>3
  <2>2. QED
    BY <2>1 DEF UserTurns, FailedTurns
<1>6. Verdict(check.seen, r, since, {}, {}) # "end"
  BY <1>1 DEF Verdict, Unanswerable
<1>7. /\ Verdict(check.seen, r, since, user, failures) # "end"
      /\ Verdict(check.seen, r, since, user \cup UserTurns(r, toRead, since), failures \cup FailedTurns(toRead, since)) # "end"
      /\ Verdict(check.seen, r, since, user \cup UserTurns(r, tree, since), failures \cup FailedTurns(tree, since)) # "end"
  <2>1. UserTurns(r, toRead, since) = {} /\ FailedTurns(toRead, since) = {}
    BY <1>4, <1>5
  <2>2. UserTurns(r, tree, since) = {} /\ FailedTurns(tree, since) = {}
    BY <1>5
  <2>3. {} \cup {} = {}
    OBVIOUS
  <2> HIDE DEF user, failures, tree, toRead, since
  <2>4. QED
    BY <1>3, <1>6, <2>1, <2>2, <2>3
<1>8. QED
  BY <1>1, <1>7 DEF Decision

LEMMA ReasonsKeptByChecks ==
  ASSUME Types, UpToNow, ReasonInv, ~(\E t \in Threads : BbStep(t)), Next,
         StartCheck \/ List \/ Decide \/ EnterChange \/ WriteSettles \/ CheckFails \/ Restart
  PROVE  ReasonInv'
<1>1. rows \in [Threads -> RowStates] /\ bb \in [Threads -> ThreadStates] /\ check \in Checks /\ reason \in [Roots -> BOOLEAN]
  BY DEF Types
<1>2. UNCHANGED <<said, failed>> /\ \A u \in Threads : bb'[u].queue = bb[u].queue /\ bb'[u].listed = bb[u].listed
                                                       /\ bb'[u].question = bb[u].question
  BY OnlyPins
<1>14. UNCHANGED <<bb, rows>> \/ WriteSettles
  BY DEF StartCheck, List, Decide, EnterChange, CheckFails, Restart, bbVars
<1>3. \A u \in Threads : bb'[u].pinned \in {bb[u].pinned, None}
  <2>1. ASSUME WriteSettles PROVE \A u \in Threads : bb'[u].pinned \in {bb[u].pinned, None}
    BY <1>1, <2>1 DEF WriteSettles, ThreadStates
  <2>2. QED
    BY <1>14, <2>1
<1>4. \A r \in Roots : rows'[r].since \in {None, rows[r].since}
  <2>1. ASSUME WriteSettles PROVE \A r \in Roots : rows'[r].since \in {None, rows[r].since}
    BY <1>1, <2>1 DEF WriteSettles, RowStates
  <2>2. QED
    BY <1>14, <2>1
<1>5. batch' \subseteq batch \/ batch' = Handled(clock)
  BY DEF StartCheck, List, Decide, EnterChange, WriteSettles, CheckFails, Restart
<1>6. \A e \in batch' : e.turn = "user" => e.at # None
  BY <1>5, HandledSilent DEF ReasonInv, Types
<1>7. ASSUME NEW r \in Roots, Awaited(r)' PROVE Undisturbed(r)' /\ Awaited(r) /\ rows'[r].since = rows[r].since
  <2>1. IsWaiting(r) /\ rows'[r].since = rows[r].since
    BY <1>4, <1>7 DEF Awaited, IsWaiting
  <2>2. reason'[r] = reason[r] \/ (reason'[r] <=> reason[r] \/ queuedAt[r] # {})
    BY <2>1 DEF StartCheck, List, Decide, EnterChange, WriteSettles, CheckFails, Restart, history
  <2>3. Awaited(r)
    BY <1>7, <2>1, <2>2 DEF Awaited
  <2>4. queuedAt'[r] = queuedAt[r]
    <3>1. CASE Restart
      BY <1>7, <2>1, <3>1 DEF Restart, Awaited
    <3>2. CASE ~Restart
      BY <2>1, <3>2 DEF StartCheck, List, Decide, EnterChange, WriteSettles, CheckFails, IsWaiting
    <3>3. QED
      BY <3>1, <3>2
  <2>5. Undisturbed(r)
    BY <2>3 DEF ReasonInv
  <2>6. \A e \in batch' : e.thread \in ListedTree(bb, r) => ~Speaks(e, rows[r].since)
    <3>1. \A e \in batch : e.thread \in ListedTree(bb, r) => ~Speaks(e, rows[r].since)
      BY <2>5 DEF Undisturbed
    <3>2. QED
      BY <1>5, <3>1, StillSilent DEF ReasonInv, Types
  <2>7. QED
    BY <1>2, <1>3, <2>1, <2>3, <2>4, <2>5, <2>6, TreesHaveThreads, UndisturbedKept
<1>8. CASE StartCheck
  <2>1. UNCHANGED <<bb, rows, reason>> /\ check.phase = "idle"
    BY <1>8 DEF StartCheck, Asked, Due, bbVars
  <2>2. \/ check' = check
        \/ check'.phase = "started" /\ check'.events \subseteq batch /\ \A r \in Roots : check'.since[r] = rows[r].since
    BY <1>1, <1>8 DEF StartCheck, Checks
  <2>3. ASSUME check'.phase = "started", NEW r \in Roots, Noted(r)', Still(r)', Awaited(r)' PROVE Overlooked(r)'
    BY <1>7, <2>1, <2>2, <2>3 DEF ReasonInv, Undisturbed, Overlooked, Speaks
  <2>4. QED
    BY <1>6, <1>7, <2>1, <2>2, <2>3 DEF ReasonInv
<1>9. CASE List
  <2>1. UNCHANGED <<bb, rows, reason>> /\ check.phase = "started"
    BY <1>9 DEF List, bbVars
  <2>2. check'.phase = "listed" /\ check'.seen = bb /\ check'.since = check.since /\ check'.events = check.events
    BY <1>1, <1>9 DEF List, Checks
  <2>3. ASSUME NEW r \in Roots, Noted(r)', Still(r)', Awaited(r)' PROVE Overlooked(r)'
    <3>1. Undisturbed(r) /\ Overlooked(r) /\ rows[r].since = check.since[r]
      BY <1>7, <2>1, <2>2, <2>3 DEF ReasonInv, Noted, Still
    <3>2. QED
      BY <2>1, <2>2, <3>1 DEF Undisturbed, Overlooked, Speaks, Unanswerable, PinnedAfter
  <2>4. QED
    BY <1>6, <1>7, <2>2, <2>3 DEF ReasonInv
<1>10. CASE Decide
  <2>1. UNCHANGED <<bb, rows, reason>> /\ check.phase = "listed"
    BY <1>10 DEF Decide, bbVars, history
  <2>2. PICK readable \in BOOLEAN :
          LET noted   == {r \in Roots : check.since[r] # None}
              verdict == [r \in noted |-> Decision(r, readable)]
              ending  == {r \in noted : verdict[r] = "end"}
              landing == {r \in noted : verdict[r] = "land" /\ GraceOver(r)}
          IN  check' = IF ending \cup landing = {} THEN NoCheck
                       ELSE [NoCheck EXCEPT !.phase = "decided", !.since = check.since,
                                            !.ending = ending, !.landing = landing]
    BY <1>10, DecideIs
  <2>3. /\ check'.phase \in {"idle", "decided"}
        /\ check'.phase = "decided" =>
             /\ check'.since = check.since
             /\ \A r \in check'.ending : r \in Roots /\ Noted(r) /\ Decision(r, readable) = "end"
    BY <2>2 DEF NoCheck, Noted
  <2>4. ASSUME NEW r \in Roots, Noted(r), Decision(r, readable) = "end", Still(r) PROVE reason[r]
    BY <2>1, <2>4, NotEnded DEF ReasonInv, Awaited, IsWaiting, Noted, Still
  <2>5. QED
    BY <1>6, <1>7, <2>1, <2>3, <2>4 DEF ReasonInv, Noted, Still
<1>11. CASE EnterChange
  <2>1. UNCHANGED <<bb, rows, reason>> /\ check.phase = "decided" /\ lock' = "check"
    BY <1>11 DEF EnterChange, bbVars, history
  <2>2. /\ check'.phase = "writing" /\ check'.since = check.since
        /\ check'.ending = {r \in check.ending : Still(r)}
    BY <1>1, <1>11 DEF EnterChange, Checks
  <2>3. QED
    BY <1>6, <1>7, <2>1, <2>2 DEF ReasonInv, Noted, Still
<1>12. CASE WriteSettles \/ CheckFails \/ Restart
  <2>1. check'.phase = "idle"
    BY <1>12 DEF WriteSettles, CheckFails, Restart, NoCheck
  <2>2. QED
    BY <1>6, <1>7, <2>1 DEF ReasonInv
<1>13. QED
  BY <1>8, <1>9, <1>10, <1>11, <1>12

LEMMA ReasonsKept == ASSUME Types, UpToNow, ReasonInv, Next PROVE ReasonInv'
BY NextSteps, ReasonsKeptByBb, ReasonsKeptByRows, ReasonsKeptByChoose, ReasonsKeptByChecks

\* A waiting settle ends without settling only for a reason, or for the Woke marker the person
\* puts away.
EndsForAReasonOrWoke == [][\A r \in Roots : EndsNow(r) => reason'[r] \/ DismissWoke(r)]_vars

LEMMA EndsForAReasonNow ==
  ASSUME Types, UpToNow, ReasonInv, Next, NEW r \in Roots, EndsNow(r)
  PROVE  reason'[r] \/ DismissWoke(r)
<1>1. rows \in [Threads -> RowStates] /\ reason \in [Roots -> BOOLEAN] /\ IsWaiting(r) /\ rows'[r].since = None
  BY DEF Types, EndsNow, Over
<1>2. rows' # rows /\ ~Choose /\ r \in TreeOf(r)
  BY <1>1, TreesHaveThreads DEF EndsNow, IsWaiting, Choose
<1>3. (\E t \in Threads : RowStep(t)) \/ WriteSettles
  BY <1>2, NextSteps, WhatBbLeaves DEF ReadTree, Tick, StartCheck, List, Decide, EnterChange, CheckFails, Restart
<1>4. CASE WriteSettles
  <2>1. r \in check.ending /\ UNCHANGED reason /\ check.phase = "writing"
    BY <1>1, <1>4 DEF WriteSettles, EndsNow, IsWaiting, RowStates, history
  <2>2. QED
    BY <2>1 DEF ReasonInv
<1>5. ASSUME NEW t \in Threads, RowStep(t) PROVE reason'[r] \/ DismissWoke(r)
  <2>1. CASE t \in Roots /\ CancelSettle(t)
    <3>1. t = r
      BY <1>1, <2>1 DEF CancelSettle, IsWaiting, RowStates
    <3>2. QED
      BY <1>1, <1>2, <2>1, <3>1 DEF CancelSettle, Ends, WaitingOn
  <2>2. CASE SnoozeEnds(t)
    BY <1>1, <2>2 DEF SnoozeEnds, IsWaiting, RowStates
  <2>3. CASE DismissWoke(t)
    BY <1>1, <2>3 DEF DismissWoke, IsWaiting
  <2>4. CASE ClearPinned(t)
    <3>1. t = r /\ PinnedAfter(bb[r], rows[r].since) /\ UNCHANGED reason
      BY <1>1, <2>4 DEF ClearPinned, IsWaiting
    <3>2. QED
      BY <1>1, <3>1 DEF ReasonInv, Awaited, Undisturbed
  <2>5. CASE Unsettle(t)
    <3>1. r = t \/ r \in Below(t) \/ r \in Above[t]
      BY <1>1, <2>5 DEF Unsettle, IsWaiting
    <3>2. r \in WaitingOn(t) \/ (IsWaiting(r) /\ r \in Below(t))
      BY <1>1, <3>1 DEF WaitingOn, TreeOf, Below
    <3>3. QED
      BY <2>5, <3>2 DEF Unsettle
  <2>6. QED
    BY <1>5, <2>1, <2>2, <2>3, <2>4, <2>5 DEF RowStep
<1>6. QED
  BY <1>3, <1>4, <1>5

LEMMA InitReasons == Init => ReasonInv
<1> SUFFICES ASSUME Init PROVE ReasonInv
  OBVIOUS
<1>1. \A r \in Roots : ~IsWaiting(r)
  BY DEF Init, IsWaiting, NoRow
<1>2. batch = {} /\ check.phase = "idle"
  BY DEF Init, NoCheck
<1>3. QED
  BY <1>1, <1>2 DEF ReasonInv, Awaited

LEMMA ReasonsSame == ASSUME Types, ReasonInv, UNCHANGED vars PROVE ReasonInv'
<1>1. UNCHANGED <<bb, said, failed, rows, queuedAt, batch, check, lock, reason>>
  BY DEF vars, bbVars, pluginVars, history
<1>2. \A r \in Roots : (Awaited(r)' <=> Awaited(r)) /\ (Still(r)' <=> Still(r)) /\ (Noted(r)' <=> Noted(r))
  BY <1>1 DEF Awaited, Still, Noted, IsWaiting
<1>3. \A r \in Roots : Undisturbed(r) => Undisturbed(r)'
  BY <1>1 DEF Undisturbed, Speaks, Unanswerable, PinnedAfter
<1>4. \A r \in Roots : Overlooked(r) => Overlooked(r)'
  BY <1>1 DEF Overlooked, Speaks, Unanswerable, PinnedAfter
<1>5. check.ending \subseteq Roots
  BY DEF Types, Checks
<1>6. QED
  BY <1>1, <1>2, <1>3, <1>4, <1>5 DEF ReasonInv

\* Whatever is snoozed at first, a waiting settle that ends without settling has a reason, or a
\* Woke marker that the person puts away.
THEOREM EndsOrIsDismissed == Spec => EndsForAReasonOrWoke
<1>1. Init => Types /\ UpToNow /\ ReasonInv
  BY InitTypes, InitUpToNow, InitReasons
<1>2. Types /\ UpToNow /\ ReasonInv /\ [Next]_vars => (Types /\ UpToNow /\ ReasonInv)'
  BY TypesKept, UpToNowKept, UpToNowSame, ReasonsKept, ReasonsSame
<1>3. Types /\ UpToNow /\ ReasonInv /\ [Next]_vars
        => [\A r \in Roots : EndsNow(r) => reason'[r] \/ DismissWoke(r)]_vars
  BY EndsForAReasonNow
<1>4. QED
  BY <1>1, <1>2, <1>3, PTL DEF Spec, EndsForAReasonOrWoke

LEMMA AwakeKept == ASSUME Types, Awake, Next PROVE Awake'
<1>1. rows \in [Threads -> RowStates]
  BY DEF Types
<1>2. ASSUME NEW t \in Threads, RowStep(t) PROVE Awake'
  BY <1>1, <1>2 DEF Awake, RowStep, CancelSettle, SnoozeEnds, DismissWoke, ClearPinned, Unsettle, NoRow, RowStates
<1>3. CASE Choose
  <2>1. \/ rows' = rows
        \/ rows' = [rows EXCEPT ![settling.root].since = clock + 1]
        \/ rows' = [t \in Threads |-> IF t \in settling.tree THEN [mark |-> "settled", since |-> None] ELSE rows[t]]
    BY <1>3 DEF Choose
  <2>2. QED
    BY <1>1, <2>1 DEF Awake, RowStates
<1>4. CASE WriteSettles
  BY <1>1, <1>4 DEF WriteSettles, Awake, RowStates
<1>5. CASE UNCHANGED rows
  BY <1>5 DEF Awake
<1>6. QED
  BY <1>2, <1>3, <1>4, <1>5, NextSteps, WhatBbLeaves
     DEF ReadTree, Tick, StartCheck, List, Decide, EnterChange, CheckFails, Restart

\* Where no thread is snoozed at first, a waiting settle ends without settling only for a reason.
THEOREM EndsWithReason == Snoozed = {} => (Spec => EndsForAReason)
<1> SUFFICES ASSUME Snoozed = {} PROVE Spec => EndsForAReason
  OBVIOUS
<1>1. Init => Types /\ UpToNow /\ ReasonInv /\ Awake
  <2>1. ASSUME Init PROVE Awake
    <3>1. ASSUME NEW t \in Threads PROVE rows[t].mark = "none"
      <4>1. rows[t] = [NoRow EXCEPT !.mark = "none"]
        BY <2>1 DEF Init
      <4>2. QED
        BY <4>1 DEF NoRow
    <3>2. QED
      BY <3>1 DEF Awake
  <2>2. QED
    BY <2>1, InitTypes, InitUpToNow, InitReasons
<1>2. Types /\ UpToNow /\ ReasonInv /\ Awake /\ [Next]_vars => (Types /\ UpToNow /\ ReasonInv /\ Awake)'
  <2>1. Awake /\ UNCHANGED vars => Awake'
    BY DEF Awake, vars, pluginVars
  <2>2. QED
    BY <2>1, TypesKept, UpToNowKept, UpToNowSame, ReasonsKept, ReasonsSame, AwakeKept
<1>3. Types /\ UpToNow /\ ReasonInv /\ Awake /\ [Next]_vars => [\A r \in Roots : EndsNow(r) => reason'[r]]_vars
  BY EndsForAReasonNow DEF Awake, DismissWoke
<1>4. QED
  BY <1>1, <1>2, <1>3, PTL DEF Spec, EndsForAReason
=============================================================================
