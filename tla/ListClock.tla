----------------------------- MODULE ListClock -----------------------------
(***************************************************************************)
(* The list's clock of one window: it ticks every minute and just past the *)
(* next snooze's end, stops while the window is hidden, and ticks once     *)
(* when the window is shown again (features/thread-list/store/clock.ts,    *)
(* with the commit and attach of store/list-store.ts, and nextWakeAt of    *)
(* shared/lifecycle.ts).                                                   *)
(*                                                                         *)
(* Time is the computer's.  A timer of a shown window fires in the step it *)
(* is due, before time moves on.                                           *)
(* What ends a snooze but its time is Marks'.                              *)
(***************************************************************************)
EXTENDS Integers, FiniteSets

CONSTANTS
  Threads,         \* the threads that may be snoozed
  Wakes,           \* bound: the times they are snoozed to
  Never,           \* no time
  Minute,          \* a minute
  Slack,           \* how far past a deadline its timer is set
  LongestTimeout,  \* the longest delay a timer takes
  MaxChanges,      \* bound: how often a row changes or the window is hidden or shown
  MaxTime          \* bound: how far time goes

ClockAssumption ==
  /\ Wakes \subseteq Nat /\ Never \notin Nat
  /\ 0 < Slack /\ Slack < Minute /\ Minute < LongestTimeout
  /\ {Slack, Minute, LongestTimeout, MaxChanges, MaxTime} \subseteq Nat

VARIABLES
  time,      \* the computer's clock
  rows,      \* the time each thread's row is snoozed to, or Never
  drawn,     \* the time the list is drawn at
  deadline,  \* the model's next deadline
  clock,     \* the clock: running or not, its minute and deadline timers
  hidden,    \* the document is hidden
  news,      \* a visibility event is on its way to the clock
  changes

clockVars == <<time, rows, drawn, deadline, clock, hidden, news, changes>>

-----------------------------------------------------------------------------
\* nextWakeAt: the soonest of the times still ahead of what is drawn.
NextWakeAt(until, at) ==
  LET ahead == {until[t] : t \in Threads} \ ({Never} \cup 0..at)
  IN IF ahead = {} THEN Never ELSE CHOOSE w \in ahead : \A v \in ahead : w <= v

Stopped == [on |-> FALSE, minute |-> Never, deadline |-> Never]

\* reschedule: the deadline timer anew, for a deadline a timer reaches.
RescheduledKeeping(c, at) ==    \* mutant: a timer that runs is kept
  IF c.deadline # Never THEN c
  ELSE [c EXCEPT !.deadline = IF at = Never \/ hidden \/ at - time > LongestTimeout THEN Never
                              ELSE (IF at > time THEN at ELSE time) + Slack]
Rescheduled(c, at) ==
  [c EXCEPT !.deadline = IF at = Never \/ hidden \/ at - time > LongestTimeout THEN Never
                         ELSE (IF at > time THEN at ELSE time) + Slack]
Started(c, at) == Rescheduled([c EXCEPT !.on = TRUE, !.minute = time + Minute], at)

\* commit: the list is drawn anew, and the deadline timer is set again when the deadline changed.
Commit(until, at, c) ==
  LET next == NextWakeAt(until, at)
  IN /\ rows' = until /\ drawn' = at
     /\ deadline' = next
     /\ clock' = IF c.on /\ next # deadline THEN Rescheduled(c, next) ELSE c

\* attach: the store was made before, and the clock starts when the list mounts.
ClockInit ==
  /\ time = 0 /\ drawn = 0
  /\ rows \in [Threads -> Wakes \cup {Never}]
  /\ deadline = NextWakeAt(rows, 0)
  /\ hidden \in BOOLEAN /\ news = FALSE
  /\ clock = Stopped
  /\ changes = 0
Attach ==
  /\ ~clock.on
  /\ clock' = IF hidden THEN [Stopped EXCEPT !.on = TRUE] ELSE Started(Stopped, deadline)
  /\ UNCHANGED <<time, rows, drawn, deadline, hidden, news, changes>>

\* A row comes with a signal or an answer: a thread is snoozed, or its snooze ends otherwise.
RowComes ==
  /\ changes < MaxChanges /\ changes' = changes + 1
  /\ \E t \in Threads, w \in Wakes \cup {Never} :
       /\ w # rows[t] /\ (w # Never => w > time)
       /\ Commit([rows EXCEPT ![t] = w], drawn, clock)
  /\ UNCHANGED <<time, hidden, news>>

\* The timers fire; a tick owed to a hidden window is dropped.
Ticks(c) ==
  IF hidden THEN clock' = c /\ UNCHANGED <<rows, drawn, deadline>> ELSE Commit(rows, time, c)
MinuteFires ==
  /\ clock.minute = time
  /\ Ticks([clock EXCEPT !.minute = time + Minute])
  /\ UNCHANGED <<time, hidden, news, changes>>
DeadlineFires ==
  /\ clock.deadline = time
  /\ Ticks([clock EXCEPT !.deadline = Never])
  /\ UNCHANGED <<time, hidden, news, changes>>

\* The window is hidden or shown, and the clock hears of it.
Flip ==
  /\ changes < MaxChanges /\ changes' = changes + 1
  /\ hidden' = ~hidden /\ news' = clock.on
  /\ UNCHANGED <<time, rows, drawn, deadline, clock>>
OnVisibility ==
  /\ clock.on /\ news
  /\ news' = FALSE
  /\ IF hidden
       THEN clock' = [Stopped EXCEPT !.on = TRUE] /\ UNCHANGED <<rows, drawn, deadline>>
       ELSE LET next == NextWakeAt(rows, time)
            IN /\ drawn' = time /\ deadline' = next /\ rows' = rows
               /\ clock' = Started([Stopped EXCEPT !.on = TRUE], next)
  /\ UNCHANGED <<time, hidden, changes>>

\* Time moves on once what is due was done.
Tick ==
  /\ time < MaxTime
  /\ clock.on /\ ~news
  /\ time \notin {clock.minute, clock.deadline}
  /\ time' = time + 1
  /\ UNCHANGED <<rows, drawn, deadline, clock, hidden, news, changes>>

ClockNext == Attach \/ RowComes \/ MinuteFires \/ DeadlineFires \/ Flip \/ OnVisibility \/ Tick

ClockSpec == ClockInit /\ [][ClockNext]_clockVars

-----------------------------------------------------------------------------
(***************************************************************************)
(* What must hold.                                                         *)
(***************************************************************************)
\* While the window is shown and what is due was done, a snooze whose time is past is drawn as
\* ended within a minute, and a timer that is set ticks no later than the slack past the time, or
\* past now where rows came meanwhile, whatever rows came and however often the window was hidden
\* (store/clock.ts:1-3, 39).  None is set for a time beyond the longest timer.
Shown == clock.on /\ ~news /\ ~hidden /\ time \notin {clock.minute, clock.deadline}
SnoozesEndInTime ==
  Shown => \A t \in Threads : rows[t] # Never /\ rows[t] > drawn =>
             /\ rows[t] + Minute > time
             /\ clock.deadline # Never => clock.deadline <= (IF rows[t] > time THEN rows[t] ELSE time) + Slack
=============================================================================
