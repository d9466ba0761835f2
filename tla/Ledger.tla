------------------------------- MODULE Ledger -------------------------------
(***************************************************************************)
(* thread-usage counts a thread's tokens by folding bb's events into one   *)
(* record per turn (src/core/ledger.ts).  bb prunes usage events, and the  *)
(* harness's running total starts again from zero when it restarts.  This  *)
(* module is one thread: what its harness reports, what bb keeps of it,    *)
(* and reads of it cut anywhere.  Tokens are one kind: every operation on  *)
(* them is kind by kind.                                                   *)
(***************************************************************************)
EXTENDS Integers, SequencesExt

CONSTANTS
  MaxTurns,     \* turns the thread runs
  MaxEvents,    \* bound on the thread's sequence numbers
  Amounts,      \* the tokens a usage event may report
  PruneMinSeq,  \* PRUNE_MIN_SEQ
  Hinted        \* whether every read knows the thread's latest sequence

LedgerAssumption ==
  /\ MaxTurns \in Nat /\ MaxEvents \in Nat /\ PruneMinSeq \in Nat \ {0}
  /\ Amounts \subseteq Nat \ {0}
  /\ Hinted \in BOOLEAN

VARIABLES
  perRequest, \* whether the harness reports each request, or each turn
  events,   \* all the thread's events, by sequence number
  pruned,   \* the sequence numbers bb has pruned
  aged,     \* events up to here are older than PRUNE_MIN_MS
  running,  \* the turn that runs, and 0 between turns
  total,    \* the harness's running total
  cursor,   \* the stored LedgerCursor
  turns,    \* the stored records of the turns
  opening,  \* the tokens of the opening balance, or None
  gaps      \* the windows of the partial gaps, and whether the logs were read for them

ledgerVars == <<perRequest, events, pruned, aged, running, total, cursor, turns, opening, gaps>>

None == -1
Turns == 1..MaxTurns

newTurn == [tokens |-> 0, usageEvents |-> 0, partial |-> FALSE, filled |-> FALSE]

EMPTY_CURSOR == [lastSeq |-> 0, lastTotal |-> None, firstSeenAt |-> None]

LedgerInit ==
  /\ perRequest \in BOOLEAN
  /\ events = <<[kind |-> "identity", turn |-> 0, last |-> 0, total |-> 0]>>
  /\ pruned = {} /\ aged = 0 /\ running = 0 /\ total = 0
  /\ cursor = EMPTY_CURSOR
  /\ turns = [t \in Turns |-> newTurn]
  /\ opening = None /\ gaps = {}

----------------------------------------------------------------------------
(* What the harness and bb do.                                             *)

Of(kind) == {i \in DOMAIN events : events[i].kind = kind}
Started == {events[i].turn : i \in Of("started")}
Happens(kind, turn, last, now) ==
  /\ Len(events) < MaxEvents
  /\ events' = Append(events, [kind |-> kind, turn |-> turn, last |-> last, total |-> now])
  /\ UNCHANGED <<perRequest, pruned, aged, cursor, turns, opening, gaps>>

StartTurn ==
  /\ running = 0 /\ Cardinality(Started) < MaxTurns
  /\ running' = Cardinality(Started) + 1
  /\ Happens("started", running', 0, 0) /\ UNCHANGED total

Report(n) ==
  /\ running # 0
  /\ perRequest \/ \A i \in Of("usage") : events[i].turn # running
  /\ total' = total + n
  /\ Happens("usage", running, n, total') /\ UNCHANGED running

\* a turn may end without a usage event of its own only if its tokens are none
CompleteTurn ==
  /\ running # 0 /\ \E i \in Of("usage") : events[i].turn = running
  /\ running' = 0
  /\ Happens("completed", running, 0, 0) /\ UNCHANGED total

RestartHarness ==
  /\ running = 0 /\ total' = 0
  /\ Happens("identity", 0, 0, 0) /\ UNCHANGED running

\* a harness that reports a turn as a whole does so as the turn ends
Ending == ~perRequest /\ events[Len(events)].kind = "usage"
Other == running # 0 /\ ~Ending /\ Happens("other", 0, 0, 0) /\ UNCHANGED <<running, total>>

TimePasses ==
  /\ aged < Len(events) /\ aged' = Len(events)
  /\ ~Ending
  /\ UNCHANGED <<perRequest, events, pruned, running, total, cursor, turns, opening, gaps>>

\* bb keeps the newest usage event
Prune ==
  \E i \in Of("usage") \ pruned :
    /\ i <= aged /\ i + PruneMinSeq <= Len(events)
    /\ i < Max(Of("usage"))
    /\ pruned' = pruned \cup {i}
    /\ UNCHANGED <<perRequest, events, aged, running, total, cursor, turns, opening, gaps>>

----------------------------------------------------------------------------
(* ingestEvents, over the events of one read.                              *)

Monus(a, b) == IF a > b THEN a - b ELSE 0
\* Math.round of n shared by k
Share(n, k) == (2 * n + k) \div (2 * k)
Lasts(S) == MapThenSumSet(LAMBDA i : events[i].last, S)

BatchAgain == {i \in DOMAIN events \ pruned : i >= cursor.lastSeq /\ events[i].kind # "other"}  \* mutant: the cursor's event again
Batch == {i \in DOMAIN events \ pruned : i > cursor.lastSeq /\ events[i].kind # "other"}
In(kind) == {i \in Batch : events[i].kind = kind}
UsageOf(t) == {i \in In("usage") : events[i].turn = t}
LatestUsage == IF In("usage") = {} THEN 0 ELSE Max(In("usage"))

WithUsage(t) ==
  [turns[t] EXCEPT !.tokens = @ + Lasts(UsageOf(t)), !.usageEvents = @ + Cardinality(UsageOf(t))]

Completed == {events[i].turn : i \in In("completed")}
Unreported == {t \in Completed : WithUsage(t).usageEvents = 0}
Missing(latestSeq) ==
  {t \in Unreported :
     /\ latestSeq - cursor.lastSeq >= PruneMinSeq
     /\ \E i \in In("completed") : events[i].turn = t /\ i <= aged}

RestartedInGap == \E i \in In("identity") : LatestUsage = 0 \/ i <= LatestUsage
CanFill ==
  /\ ~RestartedInGap
  /\ LatestUsage # 0
  /\ cursor.lastTotal # None
  /\ events[LatestUsage].total >= cursor.lastTotal
GapTokens == Monus(Monus(events[LatestUsage].total, cursor.lastTotal), Lasts(In("usage")))

WithGap(r, missing) ==
  IF CanFill THEN [r EXCEPT !.tokens = @ + Share(GapTokens, Cardinality(missing)), !.filled = TRUE]
             ELSE [r EXCEPT !.partial = TRUE]

\* from the start of the first turn of a gap to the completion of the last
Happened(kind, t) == CHOOSE i \in Of(kind) : events[i].turn = t
GapOf(missing) == [from |-> Min({Happened("started", t) : t \in missing}),
                   to |-> Max({Happened("completed", t) : t \in missing}), read |-> FALSE]

\* lasts read since the latest harness start
Explained == Lasts({i \in In("usage") : \A j \in In("identity") : j < i})

FirstRead == cursor.firstSeenAt = None
Opens == FirstRead /\ Unreported # {} /\ LatestUsage # 0
Opening == Monus(events[LatestUsage].total, Explained)

Read(latestSeq) ==
  LET missing == IF FirstRead THEN {} ELSE Missing(latestSeq)
  IN /\ turns' = [t \in Turns |-> IF t \in missing THEN WithGap(WithUsage(t), missing)
                                  ELSE WithUsage(t)]
     /\ opening' = IF Opens THEN Opening ELSE opening
     /\ gaps' = IF missing = {} \/ CanFill THEN gaps ELSE gaps \cup {GapOf(missing)}
     /\ cursor' = [lastSeq |-> Max({cursor.lastSeq, latestSeq} \cup Batch),
                   lastTotal |-> IF LatestUsage = 0 THEN cursor.lastTotal
                                 ELSE events[LatestUsage].total,
                   firstSeenAt |-> IF FirstRead THEN Len(events) ELSE cursor.firstSeenAt]
     /\ UNCHANGED <<perRequest, events, pruned, aged, running, total>>

\* the latest sequence a read of catchUpNow is complete through
CatchUp ==
  /\ Batch # {}
  /\ \E latestSeq \in {Len(events)} \cup IF Hinted THEN {} ELSE {Max(Batch)} : Read(latestSeq)

LedgerNext ==
  \/ StartTurn \/ CompleteTurn \/ RestartHarness \/ Other \/ TimePasses \/ Prune \/ CatchUp
  \/ \E n \in Amounts : Report(n)

LedgerSpec == LedgerInit /\ [][LedgerNext]_ledgerVars

----------------------------------------------------------------------------
ReadUpTo == {i \in Of("usage") : i <= cursor.lastSeq}
True == Lasts(ReadUpTo)
Counted == MapThenSumSet(LAMBDA t : turns[t].tokens, Turns) + (IF opening = None THEN 0 ELSE opening)
Restarts == Cardinality(Of("identity")) - 1

\* However a thread's events are cut into reads, and however often its
\* harness restarts, what bb has not pruned is counted once (ingestEvents).
CountsOnce == pruned = {} => Counted = True

\* up to the rounding of each filled turn
Exact == LET filled == Cardinality({t \in Turns : turns[t].filled})
         IN 2 * (Counted - True) <= filled /\ 2 * (True - Counted) <= filled
MarkedPartial == \E t \in Turns : turns[t].partial

\* What bb pruned of a harness that reports whole turns and kept running is
\* in the ledger all the same, from bb's total or as an opening balance, or a
\* turn is marked partial (ingestEvents).
FillsGaps == ~perRequest /\ Restarts = 0 => Exact \/ MarkedPartial

----------------------------------------------------------------------------
(***************************************************************************)
(* What thread-usage shows for the thread: its ledger's turns, with what   *)
(* the harness's own log knows better put in their place                   *)
(* (src/core/summary.ts, computeThread in src/server/model.ts).  Each      *)
(* usage event stands for one request that the log holds too, at the same  *)
(* time; an event that is not the ledger's, for a subagent's request of    *)
(* one token, which only the log holds.  Time is the sequence.             *)
(***************************************************************************)
CONSTANT Grace  \* how long after its turn a request may be logged

FiguresAssumption == Grace \in Nat

VARIABLE historyBackfilled

figuresVars == <<ledgerVars, historyBackfilled>>

FiguresInit == LedgerInit /\ historyBackfilled = FALSE

\* readThreadLogs, for the opening's job
BackfillHistory ==
  /\ opening # None /\ ~historyBackfilled
  /\ historyBackfilled' = TRUE
  /\ UNCHANGED ledgerVars

\* readThreadLogs, for a gap's job
BackfillGap ==
  /\ \E g \in gaps : ~g.read
  /\ gaps' = {[g EXCEPT !.read = TRUE] : g \in gaps}
  /\ UNCHANGED <<perRequest, events, pruned, aged, running, total, cursor, turns, opening, historyBackfilled>>

FiguresNext == BackfillHistory \/ BackfillGap \/ (LedgerNext /\ UNCHANGED historyBackfilled)
FiguresSpec == FiguresInit /\ [][FiguresNext]_figuresVars

----------------------------------------------------------------------------
(* mergeLogEntries.  A backfill's window ends before its last moment.      *)

Entries == {i \in Of("usage") : \/ historyBackfilled /\ i < cursor.firstSeenAt
                                \/ \E g \in gaps : g.read /\ g.from <= i /\ i < g.to}
HistoryEntries == {i \in Entries : historyBackfilled /\ i < cursor.firstSeenAt}
GapFill == {i \in Entries \ HistoryEntries : \E g \in gaps : g.from <= i /\ i <= g.to}
Subagents == {i \in Of("other") : i <= cursor.lastSeq}

----------------------------------------------------------------------------
(* threadUsage.                                                            *)

\* the turns the ledger has a record of
RealTurns == {events[i].turn : i \in {j \in Of("started") : j <= cursor.lastSeq}}
CompletedAt(t) == LET at == {i \in Of("completed") : events[i].turn = t /\ i <= cursor.lastSeq}
                  IN IF at = {} THEN None ELSE Max(at)
InTurn(i, t) == /\ i >= Happened("started", t)
                /\ i <= (IF CompletedAt(t) = None THEN Len(events) ELSE CompletedAt(t)) + Grace
\* the last turn of those an entry may be of; 0 is outside the turns
Placed(i, ts) == Max({0} \cup {t \in ts : InTurn(i, t)})

\* history stands for the turns that completed before first sight
CoveredAny(t) == HistoryEntries # {}  \* mutant: though the turn completed after
Covered(t) == /\ HistoryEntries # {}
              /\ CompletedAt(t) # None /\ CompletedAt(t) < cursor.firstSeenAt
CoveredTurns == {t \in RealTurns : Covered(t)}
PlacedHistory == {i \in HistoryEntries : Placed(i, CoveredTurns) # 0}

\* the entries that take the place of the turn's own tokens
GapEntries(t) ==
  IF Covered(t) THEN {i \in PlacedHistory : Placed(i, CoveredTurns) = t}
  ELSE IF turns[t].partial THEN {i \in GapFill : Placed(i, RealTurns) = t} ELSE {}
SubagentsOf(t) == {i \in Subagents : Placed(i, RealTurns) = t}

OwnTokens(t) == IF GapEntries(t) # {} THEN Lasts(GapEntries(t)) ELSE IF Covered(t) THEN 0 ELSE turns[t].tokens
IsPartial(t) == turns[t].partial /\ GapEntries(t) = {}

\* a turn that completed after first sight counts its own
HistoryRow ==
  {i \in HistoryEntries \ PlacedHistory : \A t \in RealTurns : Covered(t) \/ ~InTurn(i, t)}
OpeningRow == IF opening = None \/ HistoryEntries # {} THEN 0 ELSE opening

\* the rows of the report, and their sum
Figure ==
  [tokens |-> MapThenSumSet(LAMBDA t : OwnTokens(t) + Cardinality(SubagentsOf(t)), RealTurns)
              + Lasts(HistoryRow) + OpeningRow + Cardinality({i \in Subagents : Placed(i, RealTurns) = 0}),
   partial |-> (OpeningRow # 0) \/ \E t \in RealTurns : IsPartial(t)]

----------------------------------------------------------------------------
\* the ledger has a turn right, or says that it has not, or first saw it over
TrueOf(t) == Lasts({i \in ReadUpTo : events[i].turn = t})
LedgerKnows(t) ==
  \/ turns[t].tokens = TrueOf(t) \/ turns[t].partial
  \/ historyBackfilled /\ CompletedAt(t) # None /\ CompletedAt(t) < cursor.firstSeenAt

\* Once the logs were read, the report counts every request once, the ones bb
\* pruned too, whatever of them the ledger, the opening, the history and the
\* gaps each know (docs/explanation/thread-usage-counting.md, threadUsage).
LogsMakeWhole ==
  /\ opening = None \/ historyBackfilled
  /\ \A g \in gaps : g.read
  /\ \A t \in RealTurns : LedgerKnows(t)
  => Figure.tokens = True + Cardinality(Subagents)
=============================================================================
