----------------------------- MODULE ListStore -----------------------------
(***************************************************************************)
(* The list store of one window (features/thread-list/store/list-store.ts, *)
(* derive.ts, clock.ts, model/settle-close.ts, model/questions-seen.ts,    *)
(* commands/commands.ts): bb's data and the server's signals are applied   *)
(* once per animation frame and everything a person does at once, each by  *)
(* a commit that builds the model, closes the child lists a settle closes, *)
(* and asks the server to clear what the list has outlived.                *)
(*                                                                         *)
(* bb's data and the plugin's rows reach the window at any time, in any    *)
(* order between them.  The window starts from its cache of the rows, cut  *)
(* at its cap or not, and hears the server later.  Drafts, splits and the  *)
(* statuses other plugins set are left out, and so are drags               *)
(* (ListReorder).                                                          *)
(***************************************************************************)
EXTENDS ListModel

CONSTANTS
  Starts,     \* bound: what bb lists when the window loads
  Doings,     \* bound: what may happen in one behaviour, and how many of it
  Settings    \* the settings in force

StoreAssumption == \A d \in Doings : d.moves \in Nat

VARIABLES
  does,      \* what may happen
  bb,        \* bb's latest list, applied or waiting for its frame
  rows,      \* the lifecycle rows the plugin's data holds
  complete,  \* whether they are all there: the server's, or a cache short of its cap
  in,        \* the inputs the model was built from
  inComplete,
  model,
  frame,     \* bb's data or a signal waits for the frame
  opened,    \* the parents whose child list is open
  seen,      \* the threads opened while their own question waits
  marks,     \* each root's settle mark as of the last model it was not held in
  asked,     \* the pinned and the woke threads the server was asked to clear
  clock,     \* the server's time: how many settles there were
  moves,
  \* history
  known,     \* the settle marks this window has shown each thread with, while not held
  asks,      \* how many questions each thread has asked
  openedAt,  \* the question of each thread that waited when the person last had it open
  behind,    \* the threads opened in the frame in which their question had cleared
  closed     \* the child lists the last step closed for a settle

storeVars == <<does, bb, rows, complete, in, inComplete, model, frame, opened, seen, marks, asked, clock, moves,
               known, asks, openedAt, behind, closed>>

NoMark == [mark |-> "none", at |-> 0]
SettledAt(row) == IF row.mark = "settled" THEN row.at ELSE 0

\* The window loads: bb's list is there at once, and of the rows its cache.
StoreInit ==
  /\ does \in Doings
  /\ bb \in Starts
  /\ rows \in {[t \in Threads |-> NoMark], [t \in Threads |-> IF t = 1 THEN [mark |-> "settled", at |-> 1] ELSE NoMark]}
  /\ complete \in BOOLEAN
  /\ inComplete = complete
  /\ in = [threads |-> bb, rows |-> IF complete THEN rows ELSE [t \in Threads |-> NoMark], late |-> FALSE,
           settings |-> Settings, scope |-> {}, grouped |-> TRUE, active |-> 0, settledShown |-> 1,
           collapsed |-> {"inactive", "snoozed", "parked", "settled"}, closedGroups |-> {}, closedWorktrees |-> {},
           frozen |-> [t \in Threads |-> "none"]]
  /\ model = Model(in)
  /\ frame = FALSE
  /\ opened \in {{}, {1}}
  /\ seen = {}
  /\ marks = [t \in Threads |-> SettledAt(in.rows[t])]
  /\ asked = [pins |-> {}, wokes |-> {}]
  /\ clock = 1 /\ moves = 0
  /\ known = [t \in Threads |-> {marks[t]}]
  /\ asks = [t \in Threads |-> IF bb[t].question THEN 1 ELSE 0]
  /\ openedAt = [t \in Threads |-> 0]
  /\ behind = {}
  /\ closed = {}

-----------------------------------------------------------------------------
(***************************************************************************)
(* The commit.                                                             *)
(***************************************************************************)
\* questionsSeen: the open thread while it asks, and those that still ask.
SeenForever(before, threads, active) ==    \* mutant: a question that cleared is not forgotten
  before \cup {t \in {active} \cap Threads : threads[t].question}
QuestionsSeen(before, threads, active) ==
  {t \in Threads : threads[t].question /\ (t \in before \/ t = active)}

\* settleMarksOf: a root held on its shelf keeps the mark it had.
SettleMarksOf(next) == [t \in Threads |-> IF next.frozen[t] # "none" THEN marks[t] ELSE SettledAt(next.rows[t])]

\* parentsToClose: the open parents of the trees that moved onto Settled with a new mark.
CloseMoved(next, m, open) ==    \* mutant: a tree that comes back to Settled closes too
  {p \in open : \E r \in On(m, "settled") : model.shelf[r] \notin {"none", "settled"} /\ p \in TreeAt(m.up, r)}
ParentsToClose(next, m, open) ==
  {p \in open : \E r \in On(m, "settled") :
     /\ model.shelf[r] \notin {"none", "settled"}
     /\ marks[r] # SettledAt(next.rows[r])
     /\ p \in TreeAt(m.up, r)}

\* Rows of pinned threads, and a woke thread's own marker once the thread is opened.
Clearable(next, m) ==
  [pins |-> {t \in Threads : next.threads[t].pinned /\ next.rows[t].mark # "none"},
   wokes |-> {t \in On(m, "active") : next.rows[t].mark = "snoozed" /\ next.late}]

Commit(next, isComplete, open) ==
  LET m == Model(next)
      gone == IF inComplete /\ isComplete THEN ParentsToClose(next, m, open) ELSE {}
      clearable == Clearable(next, m)
  IN /\ in' = next
     /\ inComplete' = isComplete
     /\ model' = m
     /\ opened' = open \ gone
     /\ closed' = gone
     /\ seen' = QuestionsSeen(seen, next.threads, next.active)
     /\ marks' = SettleMarksOf(next)
     /\ asked' = [pins |-> clearable.pins,
                  wokes |-> {t \in clearable.wokes : t \in asked.wokes \/ t = next.active}]
     /\ known' = [t \in Threads |-> IF next.frozen[t] # "none" THEN known[t] ELSE known[t] \cup {SettledAt(next.rows[t])}]
     /\ behind' = {t \in seen' : t \in behind \/ (t = next.active /\ ~bb[t].question)}
     /\ openedAt' = [t \in Threads |-> IF t = next.active THEN asks[t] ELSE openedAt[t]]

Move(kind) == kind \in does.may /\ moves < does.moves /\ moves' = moves + 1
data == <<rows, complete>>
outside == <<does, bb, data, clock, asks>>

\* feed: a change the person makes, applied at once, over what bb last had applied.
Feed(next) == Commit(next, inComplete, opened) /\ UNCHANGED <<outside, frame>>

\* feedHost: a question that cleared is forgotten though no frame has run.
FeedHost(threads) ==
  /\ bb' = threads
  /\ seen' = QuestionsSeen(seen, threads, 0)
  /\ frame' = TRUE
  /\ asks' = [t \in Threads |-> IF threads[t].question /\ ~bb[t].question THEN asks[t] + 1 ELSE asks[t]]
  /\ closed' = {}
  /\ UNCHANGED <<does, data, in, inComplete, model, opened, marks, asked, clock, known, openedAt, behind>>

\* applyFrame: bb's latest data and the rows of the signals, as one step.
Frame ==
  /\ frame
  /\ frame' = FALSE
  /\ Commit([in EXCEPT !.threads = bb, !.rows = rows], complete, opened)
  /\ UNCHANGED <<outside, moves>>

\* The plugin's first answer is taken at once.
Synced ==
  /\ ~complete
  /\ complete' = TRUE
  /\ Commit([in EXCEPT !.rows = rows], TRUE, opened)
  /\ UNCHANGED <<does, bb, rows, frame, clock, asks, moves>>

-----------------------------------------------------------------------------
(***************************************************************************)
(* bb and the server.                                                      *)
(***************************************************************************)
BbChanges ==
  \/ /\ Move("bb")
     /\ \E t \in Threads :
          \/ FeedHost([bb EXCEPT ![t].question = ~@])
          \/ FeedHost([bb EXCEPT ![t].work = ~@])
          \/ FeedHost([bb EXCEPT ![t].fail = IF @ = "none" THEN "turn" ELSE "none"])
          \/ FeedHost([bb EXCEPT ![t].pinned = ~@])
          \/ FeedHost([bb EXCEPT ![t].listed = ~@])
          \/ \E p \in Threads \cup {0} : p \notin {t, bb[t].parent} /\ FeedHost([bb EXCEPT ![t].parent = p])
  \/ /\ Move("work")
     /\ FeedHost([bb EXCEPT ![1].work = ~@])
  \/ /\ Move("ask")
     /\ FeedHost([bb EXCEPT ![1].question = ~@])

Signal(t, row) ==
  /\ complete
  /\ rows' = [rows EXCEPT ![t] = row]
  /\ frame' = TRUE
  /\ closed' = {}
  /\ UNCHANGED <<does, bb, complete, in, inComplete, model, opened, seen, marks, asked, known, asks, openedAt, behind>>
\* The server settles a thread no thread of whose tree is busy, and unpins it first; parks
\* or snoozes one; and clears a row.
Settle(t) ==
  /\ Move("settle")
  /\ LET up == ParentOf([in EXCEPT !.threads = bb]) IN \A u \in TreeAt(up, t) : ~Busy(bb[u])
  /\ ~bb[t].pinned
  /\ clock' = clock + 1
  /\ Signal(t, [mark |-> "settled", at |-> clock'])
PutAway(t) ==
  /\ Move("mark") /\ ~Busy(bb[t])
  /\ \E mark \in {"snoozed", "parked"} : Signal(t, [mark |-> mark, at |-> clock])
  /\ clock' = clock
ClearRow(t) ==
  /\ Move("clear") /\ rows[t] # NoMark
  /\ Signal(t, NoMark)
  /\ clock' = clock

-----------------------------------------------------------------------------
(***************************************************************************)
(* The person.                                                             *)
(***************************************************************************)
\* feedFocus
Focus(t) == Move("focus") /\ t # in.active /\ Feed([in EXCEPT !.active = t])
SetExpanded(p) ==
  /\ Move("open")
  /\ Commit(in, inComplete, IF p \in opened THEN opened \ {p} ELSE opened \cup {p})
  /\ UNCHANGED <<outside, frame>>
ToggleShelf(shelf) ==
  Move("fold") /\ Feed([in EXCEPT !.collapsed = IF shelf \in @ THEN @ \ {shelf} ELSE @ \cup {shelf}])
SetGroupCollapsed(p) ==
  Move("fold") /\ Feed([in EXCEPT !.closedGroups = IF p \in @ THEN @ \ {p} ELSE @ \cup {p}])
SetWorktreeCollapsed(w) ==
  Move("fold") /\ Feed([in EXCEPT !.closedWorktrees = IF w \in @ THEN @ \ {w} ELSE @ \cup {w}])
SetActiveSort == Move("fold") /\ Feed([in EXCEPT !.grouped = ~@])
SetScope(p) == Move("scope") /\ Feed([in EXCEPT !.scope = IF p \in @ THEN @ \ {p} ELSE @ \cup {p}])
LoadMoreSettled == Move("more") /\ Feed([in EXCEPT !.settledShown = @ + 1])
BeginRename(t) ==
  /\ Move("rename")
  /\ model.shelf[t] # "none"
  /\ Feed([in EXCEPT !.frozen[t] = model.shelf[t]])
EndRename ==
  /\ \E t \in Threads : in.frozen[t] # "none"
  /\ Feed([in EXCEPT !.frozen = [t \in Threads |-> "none"]])
  /\ UNCHANGED moves
\* The clock ticks when the next snooze has ended.
Tick ==
  /\ ~in.late /\ \E t \in Threads : in.rows[t].mark = "snoozed"
  /\ Feed([in EXCEPT !.late = TRUE])
  /\ UNCHANGED moves

StoreNext ==
  \/ Frame \/ Synced \/ BbChanges \/ EndRename \/ Tick \/ SetActiveSort \/ LoadMoreSettled
  \/ \E t \in Threads :
       Settle(t) \/ PutAway(t) \/ ClearRow(t) \/ Focus(t) \/ SetExpanded(t) \/ BeginRename(t)
  \/ Focus(0)
  \/ \E shelf \in {"active", "working", "settled"} : ToggleShelf(shelf)
  \/ \E p \in {Project[t] : t \in Threads} : SetGroupCollapsed(p) \/ SetScope(p)
  \/ \E w \in {Worktree[t] : t \in Threads} \ {0} : SetWorktreeCollapsed(w)

StoreSpec == StoreInit /\ [][StoreNext]_storeVars

-----------------------------------------------------------------------------
\* Every listed thread in the scope is a row of its own or sits under one, whatever its
\* parents are, pinned, out of scope or a circle; and a row of its own is on one shelf.
EveryThreadPlaced ==
  \A t \in Listed(in) : InScope(in, t) =>
    \E r \in Threads : model.shelf[r] # "none" /\ t \in TreeAt(model.up, r)

\* While the setting shows what needs attention, a thread in scope that failed or waits for
\* an answer is drawn, or is below a row that is, or its worktree's header says so, unless
\* its row is past the settled rows loaded.
AttentionIsDrawn ==
  in.settings.attention =>
    \A t \in Listed(in) : InScope(in, t) /\ NeedsSelf(in, model, t) =>
      LET r == RootOf(model.up, t)
      IN \/ RowDrawn(in, model, r)
         \/ HeaderUrgency(in, model, r) \in {"failed", "needs-you"}
         \/ model.shelf[r] = "settled" /\ "settled" \notin in.collapsed

\* A settle closes the child lists of its tree once: a list is closed for a mark the window
\* had not shown yet, and what was opened in Settled, or before a tree that worked for a
\* while came back there, stays open.
ClosesForNewsOnly ==
  \A p \in closed' : \E r \in On(model', "settled") :
       p \in TreeAt(model'.up, r) /\ SettledAt(in'.rows[r]) \notin known[r]

\* A thread whose question waits is a folded card only if it was opened while that question
\* waited, or in the frame in which the one before it cleared.
SeenIsThisQuestion ==
  \A t \in Threads :
    /\ bb[t].question /\ in.threads[t].question
    /\ model.shelf[t] \in {"pinned", "active", "inactive"}
    /\ Card(in, model, t, seen) = "folded"
    => openedAt[t] = asks[t] \/ t = in.active \/ t \in behind
=============================================================================
