----------------------------- MODULE RowStatus -----------------------------
(***************************************************************************)
(* What one row of the list says of its thread and of the threads under    *)
(* it: the card it is drawn as, the one thing its Status slot shows, the   *)
(* children listed under it while the list of them is closed, and the      *)
(* urgency of its chip (features/thread-list/model/status-slot.ts,         *)
(* list-model.ts, forest.ts, components/rows/use-row-status.ts, and the    *)
(* Children button of thread-header).                                      *)
(*                                                                         *)
(* The row is a family of threads, each below the one before; the first is *)
(* the row's own.  bb gives every thread an indicator, a question, a       *)
(* queued message and whether it works; the indicator of a failed send     *)
(* comes with the failed message.  Words, glyphs and tones are left out:   *)
(* a slot is its kind and the age or time beside it.                       *)
(***************************************************************************)
EXTENDS Integers, Sequences, FiniteSets

CONSTANTS
  Depth,       \* how many threads the family has
  Indicators,  \* the indicators bb gives here
  Displays,    \* the Thread display settings tried
  Minute, Hour, Day,  \* a minute, an hour and a day, in steps of the clock
  Unknown,     \* no time, and no status set by another plugin
  MaxChanges,  \* bound: how often something changes
  MaxTime      \* bound: how far the clock goes

Family == 1..Depth
RowAssumption ==
  /\ Depth \in Nat \ {0} /\ MaxChanges \in Nat /\ MaxTime \in Nat
  /\ 0 < Minute /\ Minute < Hour /\ Hour < Day

VARIABLES
  facts,     \* bb's record of each thread
  draft,     \* whether this window's composer holds a draft for the row's thread
  plugin,    \* the status another plugin set on the row, or Unknown
  since,     \* when each thread was first seen working, or Unknown
  last,      \* when each thread last did anything
  now,       \* the list clock's time
  shown,     \* the thread shown in the window, 0 for another
  seen,      \* whether the row's question was seen while it waits
  opened,    \* the threads whose child list is open
  display,   \* the Thread display setting
  changes

rowVars == <<facts, draft, plugin, since, last, now, shown, seen, opened, display, changes>>

Quiet == [question |-> FALSE, queued |-> "none", indicator |-> "none", works |-> FALSE]

-----------------------------------------------------------------------------
(***************************************************************************)
(* The Status slot.                                                        *)
(***************************************************************************)
\* The age, rounded down to its greatest unit: a pair of a number and the unit.
AgeLabel(from, at) ==
  LET elapsed == IF at > from THEN at - from ELSE 0
  IN CASE elapsed < Minute -> <<0, "now">>
       [] Minute <= elapsed /\ elapsed < Hour -> <<elapsed \div Minute, "m">>
       [] Hour <= elapsed /\ elapsed < Day -> <<elapsed \div Hour, "h">>
       [] Day <= elapsed /\ elapsed < 7 * Day -> <<elapsed \div Day, "d">>
       [] OTHER -> <<elapsed \div (7 * Day), "w">>
WithElapsed(from, at) == IF from = Unknown THEN <<0, "now">> ELSE AgeLabel(from, at)

WorkingIndicators == {"runtime", "workflow", "background-agent", "background-command", "plan-mode", "goal", "working-draft"}
IsWorkingIndicator(indicator) == indicator \in WorkingIndicators
FoldDraft(indicator, hasDraft) ==
  CASE hasDraft /\ IsWorkingIndicator(indicator) -> "working-draft"
    [] hasDraft /\ indicator = "none" -> "draft"
    [] OTHER -> indicator

\* The kind an indicator gives the slot; the others give none.
IndicatorStatus(indicator) ==
  CASE indicator = "unread-error" -> "failed"
    [] indicator = "waiting-for-input" -> "needs-you"
    [] indicator = "unread-success" -> "unread"
    [] indicator = "draft" -> "draft"
    [] IsWorkingIndicator(indicator) -> indicator
    [] OTHER -> "none"

OutranksNoFailure(indicator) ==    \* mutant: another plugin's status takes a failure's place
  IsWorkingIndicator(indicator) \/ indicator = "waiting-for-input"
OutranksRowStatus(indicator) ==
  IsWorkingIndicator(indicator) \/ indicator \in {"unread-error", "waiting-for-input"}

Slot(kind, time) == [kind |-> kind, time |-> time]

\* statusSlot, for thread t; withRowStatus lets another plugin's status in.
StatusSlot(t, withRowStatus) ==
  LET f == facts[t]
      indicator == FoldDraft(f.indicator, draft /\ t = 1)
      status == IndicatorStatus(indicator)
      age == AgeLabel(last[t], now)
  IN CASE f.question -> Slot("needs-you", <<>>)
       [] ~f.question /\ f.queued = "failed" -> Slot("send-failed", <<>>)
       [] ~f.question /\ f.queued = "waiting" -> Slot("queued", <<>>)
       [] OTHER ->
            IF withRowStatus /\ plugin # Unknown /\ ~OutranksRowStatus(indicator) THEN Slot("plugin", age)
            ELSE IF status = "none" THEN Slot("age", age)
            ELSE Slot(status, IF IsWorkingIndicator(indicator) THEN WithElapsed(since[t], now) ELSE <<>>)

-----------------------------------------------------------------------------
(***************************************************************************)
(* The card, its children and its chip.                                    *)
(***************************************************************************)
IsFailed(t) == facts[t].indicator \in {"unread-error", "queued-failed"}
IsDone(t) == facts[t].indicator = "unread-success"
Below(t) == {u \in Family : u > t}

CountsOf(threads) ==
  [failed |-> Cardinality({t \in threads : IsFailed(t)}),
   needsYou |-> Cardinality({t \in threads : facts[t].question}),
   done |-> Cardinality({t \in threads : IsDone(t)}),
   working |-> Cardinality({t \in threads : facts[t].works})]
UrgencyOf(counts) ==
  CASE counts.failed > 0 -> "failed"
    [] counts.failed = 0 /\ counts.needsYou > 0 -> "needs-you"
    [] counts.failed = 0 /\ counts.needsYou = 0 /\ counts.done > 0 -> "done"
    [] OTHER -> IF counts.working > 0 THEN "working" ELSE "none"

\* cardKindOf, for a row on Pinned, Active or Inactive: full or folded.
CardKindOf ==
  LET f == facts[1]
      needsYou == \E t \in Family : facts[t].question
      below == CountsOf(Below(1)).needsYou > 0
  IN CASE display = "full-cards" -> "full"
       [] display = "compact-working" -> IF f.works /\ ~IsFailed(1) /\ ~needsYou THEN "folded" ELSE "full"
       [] display = "compact-all" -> IF IsFailed(1) \/ (f.question /\ ~seen) \/ below THEN "full" ELSE "folded"

\* The threads from the shown one up to the row.
PathOf(t) == 1..t
ChildHasStatus(t) == facts[t].indicator # "none" \/ facts[t].question \/ facts[t].queued # "none"
ShownChildIds(t) ==
  {u \in Family \cap {t + 1} : t \in opened \/ u \in PathOf(shown) \/ ChildHasStatus(u)}
\* The threads drawn in the row: the card's, and each list's under one that is drawn.
Drawn == {t \in Family : \A u \in 2..t : u \in ShownChildIds(u - 1)}

\* The Children button of a thread's own header, over its direct children.
ChildrenLabel(t) ==
  IF \E u \in Family \cap {t + 1} : facts[u].question \/ facts[u].indicator = "waiting-for-input" THEN "Needs you" ELSE "count"

-----------------------------------------------------------------------------
RowInit ==
  /\ facts = [t \in Family |-> Quiet]
  /\ draft = FALSE /\ plugin = Unknown
  /\ since = [t \in Family |-> Unknown] /\ last = [t \in Family |-> 0]
  /\ now = 0 /\ shown = 0 /\ seen = FALSE /\ opened = {}
  /\ display \in Displays
  /\ changes = 0

Changes == changes < MaxChanges /\ changes' = changes + 1
\* questionsSeen, of the row's own question.
Seen(open, asks) == asks /\ (seen \/ open = 1)

\* bb's record of a thread changes, and with it when the thread last did anything, by bb's
\* clock, which may be ahead; work is stamped when it is first seen, unless it ran already.
ThreadChanges ==
  /\ Changes
  /\ \E t \in Family, f \in [question : BOOLEAN, queued : {"none", "waiting", "failed"}, indicator : Indicators, works : BOOLEAN] :
       /\ f.indicator = "queued-failed" => f.queued = "failed"
       /\ f # facts[t]
       /\ facts' = [facts EXCEPT ![t] = f]
       /\ \E stamp \in {now, Unknown} :
            since' = [since EXCEPT ![t] = IF ~f.works THEN Unknown ELSE IF facts[t].works THEN @ ELSE stamp]
       /\ \E at \in {now, now + 1} : last' = [last EXCEPT ![t] = at]
  /\ seen' = Seen(shown, facts'[1].question)
  /\ UNCHANGED <<draft, plugin, now, shown, opened, display>>

\* The person writes or clears a draft; another plugin sets or clears its status.
DraftChanges ==
  /\ Changes
  /\ draft' = ~draft
  /\ UNCHANGED <<facts, plugin, since, last, now, shown, seen, opened, display>>
PluginSets ==
  /\ Changes
  /\ plugin' = IF plugin = Unknown THEN "set" ELSE Unknown
  /\ UNCHANGED <<facts, draft, since, last, now, shown, seen, opened, display>>

\* The person shows another thread, or opens or closes a child list.
Show ==
  /\ Changes
  /\ \E t \in (Family \cup {0}) \ {shown} : shown' = t /\ seen' = Seen(t, facts[1].question)
  /\ UNCHANGED <<facts, draft, plugin, since, last, now, opened, display>>
Expand ==
  /\ Changes
  /\ \E t \in Family \ {Depth} : opened' = IF t \in opened THEN opened \ {t} ELSE opened \cup {t}
  /\ UNCHANGED <<facts, draft, plugin, since, last, now, shown, seen, display>>

Tick ==
  /\ now < MaxTime
  /\ now' = now + 1
  /\ UNCHANGED <<facts, draft, plugin, since, last, shown, seen, opened, display, changes>>

RowNext == ThreadChanges \/ DraftChanges \/ PluginSets \/ Show \/ Expand \/ Tick

RowSpec == RowInit /\ [][RowNext]_rowVars

-----------------------------------------------------------------------------
(***************************************************************************)
(* What must hold.                                                         *)
(***************************************************************************)
Attention == {"needs-you", "failed", "send-failed", "queued"}
OwnAttention == IsFailed(1) \/ facts[1].question

\* A row tells what it is unfolded for: a row's thread that failed or asks names it in the slot
\* whatever another plugin set (model/status-slot.ts:144), and under Compact all threads a folded
\* row hides no failure, and no question but one the person has seen; a direct child with a
\* question, a queued message or news is listed though the list is closed (list-model.ts:227) and
\* its line shows no mere age; the thread the window shows is in the row that holds it; and the
\* chip, the header and the lines agree on who needs the person.
RowsNameWhatWaits ==
  /\ OwnAttention => StatusSlot(1, TRUE).kind \in Attention
  /\ display = "compact-all" /\ CardKindOf = "folded"
     => ~IsFailed(1) /\ (facts[1].question => seen) /\ UrgencyOf(CountsOf(Below(1))) # "needs-you"
  /\ \A t \in Family \ {1} :
       /\ facts[t].question \/ facts[t].queued # "none" \/ IsFailed(t)
          => /\ t \in ShownChildIds(t - 1)
             /\ StatusSlot(t, FALSE).kind \in Attention
       /\ facts[t].question => ChildrenLabel(t - 1) = "Needs you" /\ UrgencyOf(CountsOf(Below(t - 1))) \in {"failed", "needs-you"}
  /\ shown # 0 => shown \in Drawn
=============================================================================
