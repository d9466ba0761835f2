----------------------------- MODULE RecordSync -----------------------------
(***************************************************************************)
(* How a window of thread-glance keeps a copy of the server's thread       *)
(* records: the revision log of server/records.ts, the serial queue that   *)
(* every change and every `sync` go through (server.ts, server/serial.ts), *)
(* the `records` signals sent over bb's realtime connection, and the       *)
(* window's side in sync/records.ts, sync/plugin-data.ts, sync/requests.ts *)
(* and sync/SyncKeeper.tsx.                                                *)
(*                                                                         *)
(* One window is modelled, since windows share nothing but the server.  A  *)
(* row is an opaque value: only "same row" and "no row" matter here.       *)
(***************************************************************************)
EXTENDS Naturals, Sequences

CONSTANTS
  Threads,       \* the thread ids
  Archivable,    \* bound: the threads the user may archive
  Rows,          \* the lifecycle rows a thread may have
  NoRow,         \* `null`: the thread has no row
  NoPoint,       \* `null`: the window has seen no answer
  NoAnswer,      \* no `sync` answer is on its way to the window
  MaxEpoch,      \* bound: server starts, the first included
  MaxRevision,   \* bound: revisions of one epoch
  MaxFaults,     \* bound: lost connections, unmounts and failed calls
  AnyTime        \* whether connection, keeper and server change at any time, or
                 \* only while Calm: with no sync in flight and no old signal

ASSUME BoundsAssumption ==
  /\ MaxEpoch \in Nat \ {0}
  /\ MaxRevision \in Nat
  /\ MaxFaults \in Nat
  /\ AnyTime \in BOOLEAN
  /\ Archivable \subseteq Threads

ASSUME ValuesAssumption ==
  /\ NoRow \notin Rows
  /\ NoPoint \notin [epoch : Nat, revision : Nat]

VARIABLES
  \* the server
  rows,       \* the stored row of each thread (lifecycle-store.ts)
  archived,   \* the threads bb holds as archived
  known,      \* those the server knows of (archived.ts)
  epoch,      \* which server start this is
  revision,   \* the revision of the last published change
  changed,    \* each thread's last change in this epoch, 0 for none
  touched,    \* what the running change wrote and has not yet published
  \* the wire
  conn,       \* the realtime connection, "up" or "down"
  signals,    \* the signals sent over it and not yet delivered, in order
  call,       \* the `sync` in flight: its phase, what it asked, the answer
  \* the window
  held,       \* the row it holds for each thread
  revs,       \* revision + 1 of each record held, 0 for none
  point,      \* the epoch and revision it has seen up to
  early,      \* signals that came before the first answer
  following,  \* whether a keeper is mounted
  realtime,   \* the connection as a keeper last heard it
  status,     \* "waiting", "current" or "failed"
  again,      \* a missed signal was noticed while a sync was in flight
  retry,      \* the timer that asks again after a failed sync
  unconnected,\* the timer that asks without a connection
  \* history
  log,        \* log[e][r]: every row as revision r of epoch e left it
  faults      \* how many faults there have been

serverVars == <<rows, archived, known, epoch, revision, changed, touched, log>>
windowVars == <<held, revs, point, early, following, realtime, status, again, retry, unconnected>>
vars == <<serverVars, windowVars, conn, signals, call, faults>>

RowOrNone == Rows \cup {NoRow}
Epochs == 1..MaxEpoch
Revisions == 0..MaxRevision
Points == [epoch : Epochs, revision : Revisions]

\* A records signal carries the threads one change touched; an answer to `sync`
\* is a delta over the threads changed since a point, or full.
Signals == [epoch : Epochs, revision : Revisions, about : SUBSET Threads, rows : [Threads -> RowOrNone]]
Answers == [epoch : Epochs, revision : Revisions, about : SUBSET Threads, rows : [Threads -> RowOrNone], full : BOOLEAN]

TypeOK ==
  /\ rows \in [Threads -> RowOrNone]
  /\ archived \in SUBSET Threads
  /\ known \in SUBSET Threads
  /\ epoch \in Epochs
  /\ revision \in Revisions
  /\ changed \in [Threads -> Revisions]
  /\ touched \in SUBSET Threads
  /\ conn \in {"up", "down"}
  /\ signals \in Seq(Signals)
  /\ call \in [phase : {"none", "sent", "lost", "answered"},
               since : Points \cup {NoPoint},
               answer : Answers \cup {NoAnswer}]
  /\ call.phase = "answered" => call.answer \in Answers
  /\ held \in [Threads -> RowOrNone]
  /\ revs \in [Threads -> 0..(MaxRevision + 1)]
  /\ point \in Points \cup {NoPoint}
  /\ early \in SUBSET Signals
  /\ following \in BOOLEAN
  /\ realtime \in {"unknown", "up", "down"}
  /\ status \in {"waiting", "current", "failed"}
  /\ again \in BOOLEAN
  /\ retry \in BOOLEAN
  /\ unconnected \in BOOLEAN
  /\ log \in [Epochs -> [Revisions -> [Threads -> RowOrNone]]]
  /\ faults \in 0..MaxFaults

\* A window opens: `held` is what the browser cached, from whenever.
Init ==
  /\ rows \in [Threads -> RowOrNone]
  /\ archived \in SUBSET Archivable
  /\ known = {}
  /\ epoch = 1
  /\ revision = 0
  /\ changed = [t \in Threads |-> 0]
  /\ touched = {}
  /\ conn = "down"
  /\ signals = <<>>
  /\ call = [phase |-> "none", since |-> NoPoint, answer |-> NoAnswer]
  /\ held \in [Threads -> RowOrNone]
  /\ revs = [t \in Threads |-> 0]
  /\ point = NoPoint
  /\ early = {}
  /\ following = FALSE
  /\ realtime = "unknown"
  /\ status = "waiting"
  /\ again = FALSE
  /\ retry = FALSE
  /\ unconnected = FALSE
  /\ log = [e \in Epochs |-> [r \in Revisions |-> rows]]
  /\ faults = 0

-----------------------------------------------------------------------------
(***************************************************************************)
(* The window's pure steps: sync/records.ts.  `window` is the part of the  *)
(* window they change.                                                     *)
(***************************************************************************)
Window == [held |-> held, revs |-> revs, point |-> point]

WithRecordsAlways(window, msg) ==    \* mutant: an older record is taken too
  [window EXCEPT
     !.held = [t \in Threads |-> IF t \in msg.about THEN msg.rows[t] ELSE window.held[t]],
     !.revs = [t \in Threads |-> IF t \in msg.about THEN msg.revision + 1 ELSE window.revs[t]]]

\* withRecords: the records of `msg`, each put in place at the message's
\* revision unless a later one is held.
WithRecords(window, msg) ==
  LET takes(t) == t \in msg.about /\ window.revs[t] <= msg.revision + 1
  IN  [window EXCEPT
         !.held = [t \in Threads |-> IF takes(t) THEN msg.rows[t] ELSE window.held[t]],
         !.revs = [t \in Threads |-> IF takes(t) THEN msg.revision + 1 ELSE window.revs[t]]]

SameEpochAny(window, e) == window.point # NoPoint    \* mutant: epochs are not compared
SameEpoch(window, e) == window.point # NoPoint /\ window.point.epoch = e

PointPast(window, msg) ==    \* mutant: off by one
  [epoch |-> msg.epoch, revision |-> msg.revision + 1]

\* The point after a message: never back within an epoch.
PointAfter(window, msg) ==
  [epoch    |-> msg.epoch,
   revision |-> IF SameEpoch(window, msg.epoch) /\ window.point.revision > msg.revision
                THEN window.point.revision ELSE msg.revision]

\* What a full answer leaves: its own records, and the later ones of its epoch.
Replaced(window, answer) ==
  LET later(t) == SameEpoch(window, answer.epoch) /\ window.revs[t] > answer.revision + 1
      takes(t) == t \in answer.about
  IN  [held  |-> [t \in Threads |-> IF later(t) THEN window.held[t]
                                    ELSE IF takes(t) THEN answer.rows[t] ELSE NoRow],
       revs  |-> [t \in Threads |-> IF later(t) THEN window.revs[t]
                                    ELSE IF takes(t) THEN answer.revision + 1 ELSE 0],
       point |-> window.point]

\* applySync
ApplySync(window, answer) ==
  [(IF answer.full THEN Replaced(window, answer) ELSE WithRecords(window, answer))
     EXCEPT !.point = PointAfter(window, answer)]

\* applySignal, of a signal of the window's epoch
ApplySignal(window, signal) ==
  [WithRecords(window, signal) EXCEPT !.point = PointAfter(window, signal)]

Latest(msgs) == CHOOSE m \in msgs : \A other \in msgs : other.revision <= m.revision

\* The loop of `synced` over the early signals, in which a signal of another
\* epoch is dropped and, of those about a thread, the latest wins.
ApplyEarly(window) ==
  LET ours     == {s \in early : SameEpoch(window, s.epoch)}
      about(t) == {s \in ours : t \in s.about}
      takes(t) == \E s \in about(t) : s = Latest(about(t)) /\ window.revs[t] <= s.revision + 1
      moves    == \E s \in ours : s = Latest(ours) /\ s.revision > window.point.revision
  IN  [held  |-> [t \in Threads |-> IF takes(t) THEN Latest(about(t)).rows[t] ELSE window.held[t]],
       revs  |-> [t \in Threads |-> IF takes(t) THEN Latest(about(t)).revision + 1 ELSE window.revs[t]],
       point |-> IF moves THEN PointAfter(window, Latest(ours)) ELSE window.point]

-----------------------------------------------------------------------------
(***************************************************************************)
(* requestSync: one call at a time, and one more after it for what was     *)
(* missed while it was in flight.                                          *)
(***************************************************************************)
Syncing == call.phase # "none"

Sent(since) == [phase |-> "sent", since |-> since, answer |-> NoAnswer]
Idle == [phase |-> "none", since |-> NoPoint, answer |-> NoAnswer]

\* `reason` is "missed", "current", or "none" for no request.
RequestSync(reason) ==
  /\ call' = IF reason # "none" /\ ~Syncing THEN Sent(point) ELSE call
  /\ again' = (again \/ (reason = "missed" /\ Syncing))

\* The rest of the loop once a call has ended: `while (again)`.
EndCall(pointNow) ==
  /\ call' = IF again THEN Sent(pointNow) ELSE Idle
  /\ again' = FALSE

\* `connection` of plugin-data.ts told that the connection is up.
ReasonWhenUp(statusNow) ==
  IF realtime = "down" THEN "missed" ELSE IF statusNow = "current" THEN "none" ELSE "current"

\* What is not current once signals may be lost.
NotCurrent == IF status = "current" THEN "waiting" ELSE status

-----------------------------------------------------------------------------
(***************************************************************************)
(* The server.                                                             *)
(***************************************************************************)
\* One putMany of the running change, or of one that starts: the store skips a
\* row that is as it was.
Write(t, row) ==
  /\ revision < MaxRevision
  /\ row # rows[t]
  /\ rows' = [rows EXCEPT ![t] = row]
  /\ touched' = touched \cup {t}
  /\ UNCHANGED <<archived, known, epoch, revision, changed, log, windowVars, conn, signals, call, faults>>

\* What a signal at the next revision carries.
NewSignal(about) ==
  [epoch |-> epoch, revision |-> revision + 1, about |-> about,
   rows |-> [t \in Threads |-> IF t \in about THEN rows[t] ELSE NoRow]]

\* records.publish: a revision, the change log, the signal.  Realtime replays
\* nothing: without a connection or a keeper the signal is gone.
PublishAbout(about) ==
  /\ revision < MaxRevision
  /\ revision' = revision + 1
  /\ changed' = [t \in Threads |-> IF t \in about THEN revision + 1 ELSE changed[t]]
  /\ log' = [log EXCEPT ![epoch] = [r \in Revisions |-> IF r > revision THEN rows ELSE log[epoch][r]]]
  /\ signals' = IF conn = "up" /\ following THEN Append(signals, NewSignal(about)) ELSE signals

\* The running change ends, or fails after what it wrote: `finally` publishes.
EndChange ==
  /\ touched # {}
  /\ PublishAbout(touched)
  /\ touched' = {}
  /\ UNCHANGED <<rows, archived, known, epoch, windowVars, conn, call, faults>>

\* thread.archived
Archive(t) ==
  /\ touched = {}
  /\ t \notin archived
  /\ archived' = archived \cup {t}
  /\ known' = known \cup {t}
  /\ UNCHANGED <<rows, epoch, revision, changed, touched, log, windowVars, conn, signals, call, faults>>

\* thread.unarchived: its record goes out again, since a full answer left it out.
Unarchive(t) ==
  /\ touched = {}
  /\ t \in archived
  /\ archived' = archived \ {t}
  /\ known' = known \ {t}
  /\ IF rows[t] = NoRow
       THEN UNCHANGED <<revision, changed, log, signals>>
       ELSE PublishAbout({t})
  /\ UNCHANGED <<rows, epoch, touched, windowVars, conn, call, faults>>

\* The startup listing arrives: `replace`.  What events said since agrees with it.
Listed ==
  /\ known # archived
  /\ known' = archived
  /\ UNCHANGED <<rows, archived, epoch, revision, changed, touched, log, windowVars, conn, signals, call, faults>>

AnswerOfAnyEpoch(since) ==    \* mutant: a point of an earlier start is taken for one of this
  LET delta == since # NoPoint /\ since.revision <= revision
      about == IF delta THEN {t \in Threads : changed[t] > since.revision}
               ELSE {t \in Threads \ known : rows[t] # NoRow}
  IN  [epoch |-> epoch, revision |-> revision, full |-> ~delta, about |-> about,
       rows |-> [t \in Threads |-> IF t \in about THEN rows[t] ELSE NoRow]]

\* records.since, in its turn of the serial queue: no change is half done.
AnswerTo(since) ==
  LET delta == since # NoPoint /\ since.epoch = epoch /\ since.revision <= revision
      about == IF delta THEN {t \in Threads : changed[t] > since.revision}
               ELSE {t \in Threads \ known : rows[t] # NoRow}
  IN  [epoch |-> epoch, revision |-> revision, full |-> ~delta, about |-> about,
       rows |-> [t \in Threads |-> IF t \in about THEN rows[t] ELSE NoRow]]

AnswerMidChange ==    \* mutant: not in the queue
  /\ call.phase = "sent"
  /\ call' = [call EXCEPT !.phase = "answered", !.answer = AnswerTo(call.since)]
  /\ UNCHANGED <<serverVars, windowVars, conn, signals, faults>>

Answer ==
  /\ call.phase = "sent"
  /\ touched = {}
  /\ call' = [call EXCEPT !.phase = "answered", !.answer = AnswerTo(call.since)]
  /\ UNCHANGED <<serverVars, windowVars, conn, signals, faults>>

-----------------------------------------------------------------------------
(***************************************************************************)
(* The window.                                                             *)
(***************************************************************************)
SetWindow(window) ==
  /\ held' = window.held
  /\ revs' = window.revs
  /\ point' = window.point

\* The answer lands: `synced`, then the loop of requestSync.
Land ==
  /\ call.phase = "answered"
  /\ LET window == ApplyEarly(ApplySync(Window, call.answer))
     IN  SetWindow(window) /\ EndCall(window.point)
  /\ early' = {}
  /\ status' = IF following THEN "current" ELSE "waiting"
  /\ UNCHANGED <<serverVars, following, realtime, retry, unconnected, conn, signals, faults>>

EndFailedForGood ==    \* mutant: no retry
  /\ status' = "failed"
  /\ EndCall(point)
  /\ UNCHANGED <<serverVars, held, revs, point, early, following, realtime, retry, unconnected, conn, signals>>

\* The call fails: `failed`, and a retry while a keeper follows.
EndFailed ==
  /\ status' = "failed"
  /\ retry' = (retry \/ following)
  /\ EndCall(point)
  /\ UNCHANGED <<serverVars, held, revs, point, early, following, realtime, unconnected, conn, signals>>

Fail ==
  /\ call.phase \in {"sent", "answered"}
  /\ AnyTime \/ point = NoPoint
  /\ faults < MaxFaults
  /\ faults' = faults + 1
  /\ EndFailed

\* A call that a server which is gone will not answer.
FailLost ==
  /\ call.phase = "lost"
  /\ EndFailed
  /\ UNCHANGED faults

RetryFires ==
  /\ retry
  /\ retry' = FALSE
  /\ RequestSync(IF following THEN "current" ELSE "none")
  /\ UNCHANGED <<serverVars, held, revs, point, early, following, realtime, status, unconnected, conn, signals, faults>>

\* A signal reaches the window: `signal`, and a sync when it is of another epoch.
Deliver ==
  /\ signals # <<>>
  /\ conn = "up"
  /\ signals' = Tail(signals)
  /\ LET signal == Head(signals)
     IN  \/ /\ ~following
            /\ UNCHANGED <<held, revs, point, early, call, again>>
         \/ /\ following
            /\ point = NoPoint
            /\ early' = early \cup {signal}
            /\ UNCHANGED <<held, revs, point, call, again>>
         \/ /\ following
            /\ SameEpoch(Window, signal.epoch)
            /\ SetWindow(ApplySignal(Window, signal))
            /\ UNCHANGED <<early, call, again>>
         \/ /\ following
            /\ point # NoPoint
            /\ ~SameEpoch(Window, signal.epoch)
            /\ RequestSync("missed")
            /\ UNCHANGED <<held, revs, point, early>>
  /\ UNCHANGED <<serverVars, following, realtime, status, retry, unconnected, conn, faults>>

\* The keeper hears that the connection is down, and waits a while before it
\* asks without it.
HearDown ==
  /\ status' = NotCurrent
  /\ realtime' = "down"
  /\ unconnected' = TRUE

Reconnect ==
  /\ conn = "down"
  /\ AnyTime \/ ~Syncing
  /\ conn' = "up"
  /\ IF following
       THEN realtime' = "up" /\ RequestSync(ReasonWhenUp(status)) /\ unconnected' = FALSE
       ELSE UNCHANGED <<realtime, call, again, unconnected>>
  /\ UNCHANGED <<serverVars, held, revs, point, early, following, status, retry, signals, faults>>

\* UNCONNECTED_WAIT_MS has passed without a connection.
UnconnectedFires ==
  /\ unconnected
  /\ unconnected' = FALSE
  /\ RequestSync(IF status = "waiting" THEN "missed" ELSE "none")
  /\ UNCHANGED <<serverVars, held, revs, point, early, following, realtime, status, retry, conn, signals, faults>>

\* A keeper mounts: `follow`, then it hears the connection as it is.
Mount ==
  /\ ~following
  /\ following' = TRUE
  /\ IF conn = "up"
       THEN realtime' = "up" /\ RequestSync(ReasonWhenUp(status)) /\ UNCHANGED <<status, unconnected>>
       ELSE HearDown /\ UNCHANGED <<call, again>>
  /\ UNCHANGED <<serverVars, held, revs, point, early, retry, conn, signals, faults>>

-----------------------------------------------------------------------------
(***************************************************************************)
(* Faults.  While Calm, no sync is in flight, no signal is ahead of the    *)
(* first answer, and every signal on the wire is news of its epoch.        *)
(***************************************************************************)
Calm ==
  /\ ~Syncing
  /\ early = {}
  /\ \A i \in DOMAIN signals : /\ SameEpoch(Window, signals[i].epoch)
                               /\ signals[i].revision > point.revision

Fault ==
  /\ faults < MaxFaults
  /\ faults' = faults + 1
  /\ AnyTime \/ Calm

\* The connection is lost with what was on it.
Lose ==
  /\ conn' = "down"
  /\ signals' = <<>>
  /\ IF following THEN HearDown ELSE UNCHANGED <<status, realtime, unconnected>>

Drop ==
  /\ Fault
  /\ conn = "up"
  /\ Lose
  /\ UNCHANGED <<serverVars, held, revs, point, early, following, again, retry, call>>

\* The last keeper unmounts: signals are lost from now on.
Unmount ==
  /\ Fault
  /\ following
  /\ following' = FALSE
  /\ status' = NotCurrent
  /\ unconnected' = FALSE
  /\ UNCHANGED <<serverVars, held, revs, point, early, realtime, again, retry, conn, signals, call>>

\* A server start: a new epoch over the stored rows, the rest of memory gone.
Start ==
  /\ epoch < MaxEpoch
  /\ epoch' = epoch + 1
  /\ revision' = 0
  /\ changed' = [t \in Threads |-> 0]
  /\ touched' = {}
  /\ known' = {}
  /\ log' = [log EXCEPT ![epoch + 1] = [r \in Revisions |-> rows]]
  /\ UNCHANGED <<rows, archived>>

\* The plugin is reloaded under bb's connection, its queue run out.
Reload ==
  /\ Fault
  /\ touched = {}
  /\ Start
  /\ UNCHANGED <<windowVars, conn, signals, call>>

\* The server dies and comes back, perhaps between a write and its signal, and
\* the connection and the call it was to answer with it.
Crash ==
  /\ Fault
  /\ Start
  /\ Lose
  /\ call' = IF call.phase = "sent" THEN [call EXCEPT !.phase = "lost"] ELSE call
  /\ UNCHANGED <<held, revs, point, early, following, again, retry>>

-----------------------------------------------------------------------------
Next ==
  \/ \E t \in Threads, row \in RowOrNone : Write(t, row)
  \/ EndChange
  \/ \E t \in Archivable : Archive(t)
  \/ \E t \in Archivable : Unarchive(t)
  \/ Listed
  \/ Answer
  \/ Land
  \/ Fail
  \/ FailLost
  \/ RetryFires
  \/ Deliver
  \/ Reconnect
  \/ UnconnectedFires
  \/ Mount
  \/ Drop
  \/ Unmount
  \/ Reload
  \/ Crash

\* Promises and timers settle; what the user, bb and the network do need not.
Fairness ==
  /\ WF_vars(EndChange)
  /\ WF_vars(Answer)
  /\ WF_vars(Land)
  /\ WF_vars(FailLost)
  /\ WF_vars(RetryFires)
  /\ WF_vars(Deliver)
  /\ WF_vars(UnconnectedFires)

Spec == Init /\ [][Next]_vars /\ Fairness

-----------------------------------------------------------------------------
(***************************************************************************)
(* Properties.                                                             *)
(***************************************************************************)
\* Every record the window holds at a revision is the record the server had at
\* that revision of that epoch: a signal or an answer never carries a write
\* that its revision does not cover (the serial queue of server.ts).
HeldIsTrue ==
  point # NoPoint =>
    \A t \in Threads : revs[t] # 0 => held[t] = log[point.epoch][revs[t] - 1][t]

\* Within an epoch neither the window's point nor any record it holds goes
\* back to an earlier revision, whatever order answers and signals come in.
NeverBack ==
  [][(point # NoPoint /\ point' # NoPoint /\ point'.epoch = point.epoch) =>
       /\ point'.revision >= point.revision
       /\ \A t \in Threads : revs'[t] >= revs[t]]_vars

\* A window never goes back to the epoch of an earlier server start.
EpochNeverBack ==
  [][point # NoPoint => point' # NoPoint /\ point'.epoch >= point.epoch]_vars

\* `status` is "current" and nothing is on its way.
Settled ==
  /\ following /\ conn = "up" /\ status = "current"
  /\ ~Syncing /\ ~again /\ ~retry
  /\ signals = <<>> /\ touched = {}

\* What a window shows as current, with nothing on its way, is what the server
\* stores, of the threads not archived (plugin-data.ts `DataStatus`).
CurrentIsCurrent ==
  Settled => \A t \in Threads \ archived : held[t] = rows[t]

\* Once faults and changes stop with the connection up and a keeper mounted,
\* the window ends up with the server's records: retries, timers and the
\* follow-up sync leave no way to wait for ever.
Converges ==
  <>[](following /\ conn = "up") => <>[](\A t \in Threads \ archived : held[t] = rows[t])
=============================================================================
