----------------------------- MODULE UsageEngine -----------------------------
(***************************************************************************)
(* thread-usage's engine (src/server/engine.ts), for one thread: bb's      *)
(* notifications gathered into catch-ups, the chain that runs them one     *)
(* after the other, log reads that run beside the chain, the backfill      *)
(* queue, and a load of the plugin.  A catch-up reads the stored row,      *)
(* waits for bb's events, and writes the row back.  What the events hold   *)
(* is Ledger's; here an event is its sequence number.                      *)
(***************************************************************************)
EXTENDS Integers, Sequences, FiniteSetsExt, TLAPS

CONSTANTS
  MaxWritten,  \* bound on the thread's events
  MaxUpsets,   \* bound on stops, crashes, failed reads, rebuilds and openings of the Usage tab
  MaxChain     \* bound on the chain

ASSUME EngineAssumption == {MaxWritten, MaxUpsets, MaxChain} \subseteq Nat

VARIABLES
  written, working, told, idleDue,         \* bb: events, status, what it still notifies
  row, counted, edgeStatus, jobs,          \* the database
  soon, chain, readThrough, reading, pending, logReads, picked, boot, wasRunning,
  upsets,   \* how many there were
  torn,     \* a crash fell between the turns and the cursor
  missed    \* an idle thread's catch-up failed or was cut off by a stop

bbVars == <<written, working, told, idleDue>>
memoryVars == <<soon, chain, readThrough, reading, pending, logReads, picked, boot, wasRunning>>
dbVars == <<row, counted, edgeStatus, jobs>>
engineVars == <<bbVars, dbVars, memoryVars, upsets, torn, missed>>

Null == -1
FirstSeen == 1                    \* the time a thread was first read
Gap == [from |-> 2, to |-> 3]     \* the time of the one gap a read may find
NoRow == [lastSeq |-> Null]
NoRead == [from |-> Null]
NoJob == [state |-> "done", from |-> Null, to |-> Null]
Kinds == {"events", "logs"}
Rows == [lastSeq : 0..MaxWritten, seen : BOOLEAN, backfilled : BOOLEAN,
         gap : {"none", "partial", "backfilled"}, missing : BOOLEAN]
newRow == [lastSeq |-> 0, seen |-> FALSE, backfilled |-> FALSE, gap |-> "none", missing |-> FALSE]
Callers == {"idle", "resume", "panel", "job"}

\* thread.created stores a row that is seen; a thread older than the plugin has none
EngineInit ==
  /\ written = 1 /\ working = TRUE /\ told = 0 /\ idleDue = FALSE
  /\ row \in {NoRow, [newRow EXCEPT !.seen = TRUE]}
  /\ counted = [s \in 1..MaxWritten |-> 0]
  /\ edgeStatus = "active"
  /\ jobs = [k \in Kinds |-> NoJob]
  /\ soon = FALSE /\ chain = <<>> /\ readThrough = Null
  /\ reading = NoRead /\ pending = {} /\ logReads = {} /\ picked = {} /\ boot = "start"
  /\ wasRunning = FALSE
  /\ upsets = 0 /\ torn = FALSE /\ missed = FALSE

Upset == upsets < MaxUpsets /\ upsets' = upsets + 1
Up == boot # "down"
Running == reading # NoRead

----------------------------------------------------------------------------
(* bb: a thread that works writes events; a plugin that is down is told    *)
(* of nothing.                                                             *)

WriteEvent ==
  /\ written < MaxWritten
  /\ written' = written + 1 /\ working' = TRUE
  /\ UNCHANGED <<told, idleDue, dbVars, memoryVars, upsets, torn, missed>>

EndTurn ==
  /\ working
  /\ working' = FALSE /\ idleDue' = Up
  /\ UNCHANGED <<written, told, dbVars, memoryVars, upsets, torn, missed>>

----------------------------------------------------------------------------
(* Catch-ups.                                                              *)

Status == IF working THEN "active" ELSE "idle"

\* catchUp: a gathering is folded in, and a catch-up that has not started is joined
Call(then) ==
  LET waiting == {i \in 1..Len(chain) : chain[i].joinable}
  IN /\ Len(chain) < MaxChain \/ waiting # {}
     /\ soon' = FALSE
     /\ chain' = IF waiting # {}
                 THEN [i \in 1..Len(chain) |->
                         IF i \in waiting THEN [chain[i] EXCEPT !.then = @ \cup then] ELSE chain[i]]
                 ELSE Append(chain, [kind |-> "catchUp", joinable |-> TRUE, then |-> then])

\* catchUpSoon
OnEvents ==
  /\ Up
  /\ \E s \in (told + 1)..written :
       /\ told' = s
       /\ soon' = (soon \/ s > readThrough)
  /\ edgeStatus' = Status
  /\ UNCHANGED <<written, working, idleDue, row, counted, jobs, chain, readThrough,
                 reading, pending, logReads, picked, boot, wasRunning, upsets, torn, missed>>

SoonFires ==
  /\ soon
  /\ Call({})
  /\ UNCHANGED <<bbVars, dbVars, readThrough, reading, pending, logReads, picked, boot, wasRunning, upsets, torn, missed>>

OnIdle ==
  /\ Up /\ idleDue
  /\ idleDue' = FALSE
  /\ edgeStatus' = Status
  /\ Call({"idle"})
  /\ UNCHANGED <<written, working, told, row, counted, jobs, readThrough, reading, pending,
                 logReads, picked, boot, wasRunning, upsets, torn, missed>>

\* refresh: the Usage tab was opened
OpenPanel ==
  /\ Up /\ Upset
  /\ Call({"panel"})
  /\ UNCHANGED <<bbVars, dbVars, readThrough, reading, pending, logReads, picked, boot, wasRunning, torn, missed>>

\* catchUpNow reads the row, and waits
BeginCatchUp ==
  /\ ~Running /\ chain # <<>> /\ chain[1].kind = "catchUp"
  /\ chain' = [chain EXCEPT ![1].joinable = FALSE]
  /\ reading' = [state |-> row, from |-> written]
  /\ UNCHANGED <<bbVars, dbVars, soon, readThrough, pending, logReads, picked, boot, wasRunning, upsets, torn, missed>>

\* enqueue: a job that is not done keeps its window, widened
Earliest(a, b) == IF a = Null THEN b ELSE IF b = Null THEN a ELSE Min({a, b})
Latest(a, b) == IF a = Null THEN b ELSE IF b = Null THEN a ELSE Max({a, b})
Enqueued(job, from, to) ==
  IF job.state = "done" THEN [state |-> "queued", from |-> from, to |-> to]
  ELSE [state |-> "queued", from |-> Earliest(job.from, from), to |-> Latest(job.to, to)]

\* the row the events are folded into: the one read before the wait
StateRead == IF reading.state = NoRow THEN newRow ELSE reading.state
ReadUpTo(upTo) == Max({readThrough, StateRead.lastSeq, upTo})
NewEvents(upTo) == {s \in 1..upTo : s > StateRead.lastSeq}
FoldedAgain(upTo) == [s \in DOMAIN counted |->
  IF s \in 1..upTo /\ s >= StateRead.lastSeq THEN counted[s] + 1 ELSE counted[s]]  \* mutant: the cursor's event again
Folded(upTo) == [s \in DOMAIN counted |-> IF s \in NewEvents(upTo) THEN counted[s] + 1 ELSE counted[s]]

\* the head of the chain is over; its callers go on
EndHead ==
  LET head == chain[1]
  IN /\ chain' = Tail(chain)
     /\ reading' = NoRead
     /\ pending' = pending \cup (head.then \ {"job"})
     /\ picked' = IF "job" \in head.then THEN picked \ {"events"} ELSE picked

WithEventsJob(ok) ==
  IF "job" \in chain[1].then
  THEN [jobs EXCEPT !["events"].state = IF ok THEN "done" ELSE "failed"] ELSE jobs

\* an opening or a partial gap asks for its logs
WithLogsJob(js, opened, gap) ==
  LET j1 == IF opened THEN Enqueued(js["logs"], Null, FirstSeen) ELSE js["logs"]
      j2 == IF gap THEN Enqueued(j1, Gap.from, Gap.to) ELSE j1
  IN [js EXCEPT !["logs"] = j2]

WrittenBack(upTo, gap) ==
  [StateRead EXCEPT !.lastSeq = Max({@, upTo}), !.seen = TRUE, !.gap = IF gap THEN "partial" ELSE @]

\* bb's answer is of some moment of the wait
Answered == reading.from..written

EndCatchUp ==
  /\ Running
  /\ EndHead
  /\ \E upTo \in Answered :
       /\ readThrough' = ReadUpTo(upTo)
       /\ IF NewEvents(upTo) = {} /\ StateRead.seen
          THEN jobs' = WithEventsJob(TRUE) /\ UNCHANGED <<row, counted>>
          ELSE \E opened \in {FALSE, ~StateRead.seen} :
               \E gap \in {FALSE, StateRead.seen /\ StateRead.gap = "none" /\ Cardinality(NewEvents(upTo)) > 1} :
                 /\ counted' = Folded(upTo)
                 /\ row' = WrittenBack(upTo, gap)
                 /\ jobs' = WithLogsJob(WithEventsJob(TRUE), opened, gap)
  /\ UNCHANGED <<bbVars, edgeStatus, soon, logReads, boot, wasRunning, upsets, torn, missed>>

FailCatchUp ==
  /\ Running /\ Upset
  /\ EndHead
  /\ jobs' = WithEventsJob(FALSE)
  /\ missed' = (missed \/ edgeStatus # "active")
  /\ UNCHANGED <<bbVars, row, counted, edgeStatus, soon, readThrough, logReads, boot, wasRunning, torn>>

----------------------------------------------------------------------------
(* readThreadLogs, on behalf of a caller; from and to are a job's window.  *)

Readable == row # NoRow /\ row.lastSeq > 0
BeginLogs(caller, from, to) ==
  logReads' = logReads \cup {[for |-> caller, from |-> from, to |-> to]}
\* a refresh reads logs older than the last activity: either may be
Wants(caller) == IF ~Readable THEN {FALSE}
                 ELSE CASE caller = "idle" -> {TRUE}
                        [] caller = "resume" -> {edgeStatus # "active"}
                        [] caller = "panel" -> {row.missing, TRUE}

\* what follows a catch-up
Continue(caller) ==
  /\ caller \in pending /\ \A r \in logReads : r.for # caller
  /\ pending' = pending \ {caller}
  /\ \E wanted \in Wants(caller) : IF wanted
     THEN BeginLogs(caller, Null, Null) /\ UNCHANGED boot
     ELSE UNCHANGED logReads /\ boot' = IF caller = "resume" THEN "up" ELSE boot
  /\ UNCHANGED <<bbVars, dbVars, soon, chain, readThrough, reading, picked, wasRunning, upsets, torn, missed>>

RetryMissingLogs ==
  /\ Up /\ Readable /\ row.missing
  /\ \A r \in logReads : r.for # "panel"
  /\ BeginLogs("panel", Null, Null)
  /\ UNCHANGED <<bbVars, dbVars, soon, chain, readThrough, reading, pending, picked,
                 boot, wasRunning, upsets, torn, missed>>

\* only the row as it is now is updated
WithLogs(r) ==
  [row EXCEPT !.missing = FALSE,
              !.backfilled = @ \/ (r.for = "job" /\ r.from = Null),
              !.gap = IF @ = "partial" /\ r.for = "job" /\ r.from # Null
                         /\ Gap.from >= r.from /\ (r.to = Null \/ Gap.to <= r.to)
                      THEN "backfilled" ELSE @]

EndLogs(r, ok) ==
  /\ r \in logReads
  /\ logReads' = logReads \ {r}
  /\ row' = IF row = NoRow THEN NoRow ELSE IF ok THEN WithLogs(r) ELSE [row EXCEPT !.missing = TRUE]
  /\ jobs' = IF r.for = "job" /\ jobs["logs"] # NoJob
             THEN [jobs EXCEPT !["logs"].state = IF ok \/ row = NoRow THEN "done" ELSE "failed"] ELSE jobs
  /\ picked' = IF r.for = "job" THEN picked \ {"logs"} ELSE picked
  /\ boot' = IF r.for = "resume" THEN "up" ELSE boot
  /\ UNCHANGED <<bbVars, counted, edgeStatus, soon, chain, readThrough, reading,
                 pending, wasRunning, torn, missed>>

LogsRead == \E r \in logReads : EndLogs(r, TRUE) /\ UNCHANGED upsets
LogsUnavailable == Upset /\ \E r \in logReads : EndLogs(r, FALSE)

----------------------------------------------------------------------------
(* The backfill service.                                                   *)

\* runBackfill picks the queued jobs and waits for all of them
RunBackfill ==
  LET queued == {k \in Kinds : jobs[k].state = "queued"}
      logs == "logs" \in queued
  IN /\ boot = "up" /\ picked = {} /\ queued # {}
     /\ IF "events" \in queued THEN Call({"job"}) ELSE UNCHANGED <<soon, chain>>
     /\ IF logs /\ Readable THEN BeginLogs("job", jobs["logs"].from, jobs["logs"].to) ELSE UNCHANGED logReads
     /\ picked' = IF logs /\ ~Readable THEN queued \ {"logs"} ELSE queued
     /\ jobs' = [k \in Kinds |-> IF k \notin queued THEN jobs[k]
                  ELSE [jobs[k] EXCEPT !.state = IF k \in picked' THEN "running" ELSE "done"]]
     /\ UNCHANGED <<bbVars, row, counted, edgeStatus, readThrough, reading, pending, boot, wasRunning, upsets, torn, missed>>

\* retry-failed queues a job with no window of its own
RetryFailed ==
  /\ Up
  /\ \E k \in Kinds : /\ jobs[k].state = "failed"
                      /\ jobs' = [jobs EXCEPT ![k] = Enqueued(@, Null, Null)]
  /\ UNCHANGED <<bbVars, row, counted, edgeStatus, memoryVars, upsets, torn, missed>>

\* A load: requeueRunning, then discover.  wasRunning is read before discovery
\* records bb's status over it.
RunningNow == working  \* mutant: read after
WasRunning == edgeStatus = "active"

Discover ==
  /\ boot = "start"
  /\ edgeStatus' = Status
  /\ wasRunning' = WasRunning
  /\ boot' = "listed"
  /\ jobs' = [k \in Kinds |->
       LET job == IF jobs[k].state = "running" THEN [jobs[k] EXCEPT !.state = "queued"] ELSE jobs[k]
       IN IF k = "events" /\ row = NoRow THEN Enqueued(job, Null, Null) ELSE job]
  /\ UNCHANGED <<bbVars, row, counted, soon, chain, readThrough, reading, pending, logReads, picked,
                 upsets, torn, missed>>

\* discovery failed: the service goes on without it
DiscoverFails ==
  /\ boot = "start" /\ Upset
  /\ boot' = "up" /\ missed' = TRUE
  /\ UNCHANGED <<bbVars, dbVars, soon, chain, readThrough, reading, pending, logReads, picked,
                 wasRunning, torn>>

\* rebuildLedgers: a catch-up called from here on runs after the drop
RebuildLedgers ==
  /\ boot = "listed" /\ Upset
  /\ boot' = "rebuild"
  /\ chain' = Append([i \in 1..Len(chain) |-> [chain[i] EXCEPT !.joinable = FALSE]],
                     [kind |-> "drop", joinable |-> FALSE, then |-> {}])
  /\ UNCHANGED <<bbVars, dbVars, soon, readThrough, reading, pending, logReads, picked, wasRunning,
                 torn, missed>>

\* resetThreadLedger, in the thread's chain
Drop ==
  /\ ~Running /\ chain # <<>> /\ chain[1].kind = "drop"
  /\ chain' = Tail(chain)
  /\ readThrough' = Null
  /\ counted' = [s \in DOMAIN counted |-> 0]
  /\ row' = NoRow
  /\ jobs' = [k \in Kinds |-> IF k = "events" THEN Enqueued(NoJob, Null, Null) ELSE NoJob]
  /\ boot' = "listed"
  /\ UNCHANGED <<bbVars, edgeStatus, soon, reading, pending, logReads, picked, wasRunning,
                 upsets, torn, missed>>

ResumeInterrupted ==
  /\ boot = "listed"
  /\ IF wasRunning THEN Call({"resume"}) /\ boot' = "resume"
                   ELSE boot' = "up" /\ UNCHANGED <<soon, chain>>
  /\ UNCHANGED <<bbVars, dbVars, readThrough, reading, pending, logReads, picked, wasRunning,
                 upsets, torn, missed>>

\* nothing in memory outlives the plugin
Forget ==
  /\ soon' = FALSE /\ chain' = <<>> /\ readThrough' = Null
  /\ reading' = NoRead /\ pending' = {} /\ logReads' = {} /\ picked' = {} /\ boot' = "down"
  /\ idleDue' = FALSE /\ UNCHANGED wasRunning
Unread == row = NoRow \/ row.lastSeq < told

Stop ==
  /\ Up /\ Upset
  /\ Forget
  /\ missed' = (missed \/ (edgeStatus # "active" /\ Unread))
  /\ UNCHANGED <<written, working, told, dbVars, torn>>

\* the turns and the row are two writes
CrashBetween ==
  /\ Running /\ Upset
  /\ Forget
  /\ \E upTo \in Answered : NewEvents(upTo) # {} /\ counted' = Folded(upTo)
  /\ torn' = TRUE
  /\ missed' = (missed \/ (edgeStatus # "active" /\ Unread))
  /\ UNCHANGED <<written, working, told, row, edgeStatus, jobs>>

StartPlugin ==
  /\ boot = "down" /\ boot' = "start"
  /\ UNCHANGED <<bbVars, dbVars, soon, chain, readThrough, reading, pending, logReads,
                 picked, wasRunning, upsets, torn, missed>>

----------------------------------------------------------------------------
ChainRuns == BeginCatchUp \/ EndCatchUp \/ Drop
Loads == StartPlugin \/ Discover \/ ResumeInterrupted
CallersGoOn == \E c \in Callers : Continue(c)

EngineNext ==
  \/ WriteEvent \/ EndTurn \/ OnEvents \/ OnIdle \/ SoonFires \/ OpenPanel
  \/ ChainRuns \/ FailCatchUp \/ CallersGoOn \/ LogsRead \/ LogsUnavailable \/ RetryMissingLogs
  \/ RunBackfill \/ RetryFailed \/ Loads \/ DiscoverFails \/ RebuildLedgers
  \/ Stop \/ CrashBetween

\* bb notifies and a turn ends; timers fire, calls end, the services go on.
\* Of ChainRuns, and of Loads, one at a time is enabled.
EngineFairness ==
  /\ WF_engineVars(OnEvents) /\ WF_engineVars(OnIdle) /\ WF_engineVars(EndTurn)
  /\ WF_engineVars(SoonFires) /\ WF_engineVars(ChainRuns) /\ WF_engineVars(CallersGoOn)
  /\ WF_engineVars(LogsRead) /\ WF_engineVars(RunBackfill) /\ WF_engineVars(Loads)

EngineSpec == EngineInit /\ [][EngineNext]_engineVars /\ EngineFairness

----------------------------------------------------------------------------
\* Whatever joins, waits, fails, restarts or is rebuilt, and unless the
\* process died between the two writes, each event up to the stored cursor
\* has been counted once and no other (catchUpNow, rebuildLedgers).
CountsEachEventOnce ==
  ~torn => \A s \in DOMAIN counted :
             counted[s] = IF row # NoRow /\ s <= row.lastSeq THEN 1 ELSE 0

\* An event the plugin was told of is read, unless the read of a thread that
\* went idle failed or was cut off by a stop (catchUpSoon, resumeInterrupted).
CaughtUp == \A s \in 1..MaxWritten : told >= s ~> missed \/ (row # NoRow /\ row.lastSeq >= s)

\* History a backfill has read stays read (readThreadLogs, catchUpNow).
HistoryStays ==
  [][row # NoRow /\ row'# NoRow /\ row.backfilled => row'.backfilled]_engineVars

-----------------------------------------------------------------------------
(***************************************************************************)
(* Proofs, for any number of events, upsets and calls in the chain.        *)
(*                                                                         *)
(* The inductive invariant: a catch-up folds its events into a row whose   *)
(* cursor is still the stored one when it ends.  Only log reads write the  *)
(* row beside it, and they leave the cursor alone; a drop waits its turn   *)
(* in the chain.                                                           *)
(***************************************************************************)
StoredRows == [lastSeq : Nat, seen : BOOLEAN, backfilled : BOOLEAN, gap : {"none", "partial", "backfilled"}, missing : BOOLEAN]
Reads == [state : StoredRows \cup {NoRow}, from : Nat]

EngineTypes ==
  /\ written \in Nat
  /\ counted \in [1..MaxWritten -> Nat]
  /\ row \in StoredRows \cup {NoRow}
  /\ reading \in Reads \cup {NoRead}

CursorOf(stored) == IF stored = NoRow THEN 0 ELSE stored.lastSeq
CursorStands == Running => CursorOf(reading.state) = CursorOf(row)
CountedTo(cursor) == \A s \in 1..MaxWritten : counted[s] = IF s <= cursor THEN 1 ELSE 0

IInv == EngineTypes /\ CursorStands /\ (torn \/ CountedTo(CursorOf(row)))

LEMMA RowOrNone ==
  ASSUME NEW stored \in StoredRows \cup {NoRow}
  PROVE  /\ stored # NoRow => stored \in StoredRows /\ stored.lastSeq \in Nat
         /\ CursorOf(stored) \in Nat
BY DEF StoredRows, CursorOf

LEMMA MaxOfTwo == ASSUME NEW a \in Nat, NEW b \in Nat PROVE Max({a, b}) = IF a >= b THEN a ELSE b
BY DEF Max

\* The invariant says what CountsEachEventOnce does of each event.
LEMMA CountsByCursor == IInv => CountsEachEventOnce
<1> SUFFICES ASSUME IInv, ~torn, NEW s \in DOMAIN counted
             PROVE  counted[s] = IF row # NoRow /\ s <= row.lastSeq THEN 1 ELSE 0
  BY DEF CountsEachEventOnce
<1>1. s \in 1..MaxWritten /\ counted[s] = IF s <= CursorOf(row) THEN 1 ELSE 0
  BY DEF IInv, EngineTypes, CountedTo
<1>2. QED
  BY <1>1 DEF CursorOf

LEMMA InitIInv == EngineInit => IInv
<1> SUFFICES ASSUME EngineInit PROVE IInv
  OBVIOUS
<1>1. row \in StoredRows \cup {NoRow} /\ CursorOf(row) = 0
  <2> DEFINE first == [newRow EXCEPT !.seen = TRUE]
  <2>1. first \in StoredRows /\ first.lastSeq = 0
    BY DEF newRow, StoredRows
  <2> HIDE DEF first
  <2>2. row \in {NoRow, first}
    BY DEF EngineInit, first
  <2>3. QED
    BY <2>1, <2>2 DEF CursorOf
<1>2. EngineTypes /\ CountedTo(0) /\ ~Running
  BY <1>1 DEF EngineInit, EngineTypes, CountedTo, Running
<1>3. QED
  BY <1>1, <1>2 DEF IInv, CursorStands

-----------------------------------------------------------------------------
(***************************************************************************)
(* The steps that write the row, the counts or the read under way.         *)
(***************************************************************************)
\* The row a catch-up folds into has the cursor of the stored one.
LEMMA RowRead ==
  ASSUME IInv, Running
  PROVE  /\ reading \in Reads /\ reading.from \in Nat /\ StateRead \in StoredRows
         /\ StateRead.lastSeq = CursorOf(row) /\ CursorOf(row) \in Nat
<1>1. reading \in Reads
  BY DEF IInv, EngineTypes, Running
<1>2. newRow \in StoredRows /\ newRow.lastSeq = 0
  BY DEF newRow, StoredRows
<1>3. QED
  BY <1>1, <1>2, RowOrNone DEF IInv, EngineTypes, CursorStands, StateRead, Reads, CursorOf

\* A read's events are those after the cursor, so each is counted for the first time.
LEMMA FoldedOnce ==
  ASSUME IInv, Running, NEW upTo \in Nat
  PROVE  /\ Folded(upTo) \in [1..MaxWritten -> Nat]
         /\ CountedTo(CursorOf(row)) =>
              \A s \in 1..MaxWritten : Folded(upTo)[s] = IF s <= Max({CursorOf(row), upTo}) THEN 1 ELSE 0
<1>1. counted \in [1..MaxWritten -> Nat] /\ CursorOf(row) \in Nat /\ StateRead.lastSeq = CursorOf(row)
  BY RowRead DEF IInv, EngineTypes
<1>2. Folded(upTo) = [s \in 1..MaxWritten |-> IF s \in 1..upTo /\ s > CursorOf(row) THEN counted[s] + 1 ELSE counted[s]]
  BY <1>1 DEF Folded, NewEvents
<1>3. Folded(upTo) \in [1..MaxWritten -> Nat]
  BY <1>1, <1>2
<1>4. ASSUME CountedTo(CursorOf(row)), NEW s \in 1..MaxWritten
      PROVE  Folded(upTo)[s] = IF s <= Max({CursorOf(row), upTo}) THEN 1 ELSE 0
  BY <1>1, <1>2, <1>4, MaxOfTwo DEF CountedTo
<1>5. QED
  BY <1>3, <1>4

LEMMA EndCatchUpKeeps == ASSUME IInv, EndCatchUp PROVE IInv'
<1>1. Running /\ reading' = NoRead /\ UNCHANGED <<written, torn>>
  BY DEF EndCatchUp, EndHead, bbVars
<1>2. PICK upTo \in Answered :
        \/ UNCHANGED <<row, counted>>
        \/ \E gap \in BOOLEAN : counted' = Folded(upTo) /\ row' = WrittenBack(upTo, gap)
  BY DEF EndCatchUp
<1>3. upTo \in Nat
  BY <1>1, RowRead DEF Answered, IInv, EngineTypes
<1>4. CASE UNCHANGED <<row, counted>>
  BY <1>1, <1>4 DEF IInv, EngineTypes, CursorStands, Running, CountedTo
<1>5. ASSUME NEW gap \in BOOLEAN, counted' = Folded(upTo), row' = WrittenBack(upTo, gap) PROVE IInv'
  <2>1. StateRead \in StoredRows /\ StateRead.lastSeq = CursorOf(row) /\ Max({CursorOf(row), upTo}) \in Nat
    BY <1>1, <1>3, RowRead, MaxOfTwo
  <2>2. row' \in StoredRows /\ row'.lastSeq = Max({CursorOf(row), upTo})
    BY <1>5, <2>1 DEF WrittenBack, StoredRows
  <2>3. row' # NoRow /\ CursorOf(row') = Max({CursorOf(row), upTo})
    BY <2>1, <2>2 DEF CursorOf, NoRow, Null, StoredRows
  <2>4. counted' \in [1..MaxWritten -> Nat] /\ (torn' \/ CountedTo(CursorOf(row))')
    BY <1>1, <1>3, <1>5, <2>3, FoldedOnce DEF IInv, CountedTo
  <2>5. QED
    BY <1>1, <2>2, <2>4 DEF IInv, EngineTypes, CursorStands, Running
<1>6. QED
  BY <1>2, <1>4, <1>5

LEMMA BeginCatchUpKeeps == ASSUME IInv, BeginCatchUp PROVE IInv'
<1>1. reading' = [state |-> row, from |-> written] /\ UNCHANGED <<written, row, counted, torn>>
  BY DEF BeginCatchUp, bbVars, dbVars
<1>2. reading' \in Reads
  BY <1>1 DEF IInv, EngineTypes, Reads
<1>3. QED
  BY <1>1, <1>2 DEF IInv, EngineTypes, CursorStands, CountedTo

\* Log reads write the row as it is now: its cursor stays.
LEMMA EndLogsKeeps == ASSUME IInv, NEW r, NEW ok \in BOOLEAN, EndLogs(r, ok) PROVE IInv'
<1>1. UNCHANGED <<written, counted, reading, torn>>
  BY DEF EndLogs, bbVars
<1>2. row' \in StoredRows \cup {NoRow} /\ CursorOf(row') = CursorOf(row)
  <2>1. CASE row = NoRow
    BY <2>1 DEF EndLogs
  <2>2. CASE row # NoRow
    <3>1. row \in StoredRows
      BY <2>2 DEF IInv, EngineTypes
    <3>2. row' \in StoredRows /\ row'.lastSeq = row.lastSeq
      BY <2>2, <3>1 DEF EndLogs, WithLogs, StoredRows
    <3>3. QED
      BY <2>2, <3>2 DEF CursorOf, NoRow, Null, StoredRows
  <2>3. QED
    BY <2>1, <2>2
<1>3. QED
  BY <1>1, <1>2 DEF IInv, EngineTypes, CursorStands, Running, CountedTo

LEMMA DropKeeps == ASSUME IInv, Drop PROVE IInv'
<1>1. /\ ~Running /\ counted' = [s \in DOMAIN counted |-> 0] /\ row' = NoRow
      /\ UNCHANGED <<written, reading, torn>>
  BY DEF Drop, bbVars
<1>2. CursorOf(row') = 0 /\ counted' = [s \in 1..MaxWritten |-> 0]
  BY <1>1 DEF CursorOf, IInv, EngineTypes
<1>3. CountedTo(CursorOf(row))'
  BY <1>2 DEF CountedTo
<1>4. QED
  BY <1>1, <1>2, <1>3 DEF IInv, EngineTypes, CursorStands, Running

\* Whatever ends the plugin, no read is left.
LEMMA DownKeeps == ASSUME IInv, Stop \/ CrashBetween PROVE IInv'
<1>1. reading' = NoRead /\ UNCHANGED <<written, row>>
  BY DEF Stop, CrashBetween, Forget, dbVars
<1>2. ~Running'
  BY <1>1 DEF Running
<1>3. CASE Stop
  BY <1>1, <1>2, <1>3 DEF Stop, dbVars, IInv, EngineTypes, CursorStands, CountedTo
<1>4. CASE CrashBetween
  <2>1. PICK upTo \in Answered : counted' = Folded(upTo)
    BY <1>4 DEF CrashBetween
  <2>2. Running /\ torn' = TRUE
    BY <1>4 DEF CrashBetween
  <2>3. upTo \in Nat
    BY <2>2, RowRead DEF Answered, IInv, EngineTypes
  <2>4. counted' \in [1..MaxWritten -> Nat]
    BY <2>1, <2>2, <2>3, FoldedOnce
  <2>5. QED
    BY <1>1, <1>2, <2>2, <2>4 DEF IInv, EngineTypes, CursorStands
<1>5. QED
  BY <1>3, <1>4

\* A failed read leaves the row and the counts.
LEMMA FailKeeps == ASSUME IInv, FailCatchUp PROVE IInv'
<1>1. reading' = NoRead /\ UNCHANGED <<written, row, counted, torn>>
  BY DEF FailCatchUp, EndHead, bbVars
<1>2. QED
  BY <1>1 DEF IInv, EngineTypes, CursorStands, Running, CountedTo

LEMMA OthersKeep ==
  ASSUME IInv, UNCHANGED <<row, counted, reading, torn>>, written' \in Nat
  PROVE  IInv'
BY DEF IInv, EngineTypes, CursorStands, Running, CountedTo

LEMMA NextKeeps == IInv /\ [EngineNext]_engineVars => IInv'
<1> SUFFICES ASSUME IInv, [EngineNext]_engineVars PROVE IInv'
  OBVIOUS
<1> USE DEF bbVars, dbVars, memoryVars
<1>1. written \in Nat
  BY DEF IInv, EngineTypes
<1>2. CASE WriteEvent \/ EndTurn \/ OnEvents \/ OnIdle \/ SoonFires \/ OpenPanel
  BY <1>1, <1>2, OthersKeep DEF WriteEvent, EndTurn, OnEvents, OnIdle, SoonFires, OpenPanel
<1>3. CASE ChainRuns
  BY <1>3, BeginCatchUpKeeps, EndCatchUpKeeps, DropKeeps DEF ChainRuns
<1>4. CASE FailCatchUp
  BY <1>4, FailKeeps
<1>5. CASE CallersGoOn
  BY <1>1, <1>5, OthersKeep DEF CallersGoOn, Continue
<1>6. CASE LogsRead \/ LogsUnavailable
  BY <1>6, EndLogsKeeps DEF LogsRead, LogsUnavailable
<1>7. CASE RetryMissingLogs \/ RunBackfill \/ RetryFailed
  BY <1>1, <1>7, OthersKeep DEF RetryMissingLogs, RunBackfill, RetryFailed
<1>8. CASE Loads \/ DiscoverFails \/ RebuildLedgers
  BY <1>1, <1>8, OthersKeep DEF Loads, StartPlugin, Discover, ResumeInterrupted, DiscoverFails, RebuildLedgers
<1>9. CASE Stop \/ CrashBetween
  BY <1>9, DownKeeps
<1>10. CASE UNCHANGED engineVars
  BY <1>1, <1>10, OthersKeep DEF engineVars
<1>11. QED
  BY <1>2, <1>3, <1>4, <1>5, <1>6, <1>7, <1>8, <1>9, <1>10 DEF EngineNext

\* Each event up to the stored cursor is counted once and no other, whatever catch-ups join, log reads land beside
\* them, and stops, failed reads and rebuilds come between (catchUpNow, readThreadLogs, resetThreadLedger).
THEOREM EventsCountOnce == EngineSpec => []CountsEachEventOnce
<1>1. EngineSpec => []IInv
  BY InitIInv, NextKeeps, PTL DEF EngineSpec
<1>2. QED
  BY <1>1, CountsByCursor, PTL
=============================================================================
