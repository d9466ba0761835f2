--------------------------- MODULE WaitingSettle ---------------------------
(***************************************************************************)
(* The waiting settle of thread-glance: a Settle chosen for a thread tree  *)
(* while a thread in it was busy, which the server lands once the tree has *)
(* been idle for a while, or ends where waitingSettleVerdict says.         *)
(* server/waiting-settles.ts and the waiting branch of server/actions.ts,  *)
(* with the rules of shared/waiting-settle.ts.                             *)
(*                                                                         *)
(* Time is a count of the settles chosen so far, which orders a turn, a    *)
(* pin or a message before or after each choice; the grace is counted in   *)
(* ticks.  A check lists bb, decides, and only then writes, in its turn of *)
(* the change queue: bb and the person move in between.                    *)
(***************************************************************************)
EXTENDS ThreadTrees

CONSTANTS
  Grace,       \* IDLE_GRACE_MS in ticks
  Roots,       \* bound: the threads the person may settle
  Running,     \* bound: the threads that may run turns no person asked for
  Messaged,    \* bound: the threads the person may send a message to
  Askers,      \* bound: the threads that may ask a question
  Background,  \* bound: the threads that may work with no turn in flight
  Pinnable,    \* bound: the threads the person may pin
  Snoozed,     \* bound: the roots that are snoozed at first
  MaxChoices,  \* bound: settles chosen
  MaxFaults    \* bound: failures of a turn, a queued message or a read, archives and restarts

ASSUME GraceAssumption == Grace \in Nat \ {0} /\ MaxChoices \in Nat /\ MaxFaults \in Nat
ASSUME WhoAssumption ==
  /\ Roots \subseteq Threads /\ Snoozed \subseteq Roots
  /\ Running \cup Messaged \cup Askers \cup Background \cup Pinnable \subseteq Threads

None == -1

VARIABLES
  bb,        \* what bb lists of each thread
  said,      \* when the last turn a person asked for was requested
  failed,    \* when the last turn failed or was interrupted
  rows,      \* each lifecycle row: its mark and, when a settle waits, since when
  idleFor,   \* how long each waiting tree has been seen idle, None when it was not
  queuedAt,  \* queuedAtChoice: the threads with a message queued when the settle was chosen
  batch,     \* the events for the check that has not started; one whose `at` is None
             \* waits with its handler in the change queue
  check,     \* the check that runs
  lock,      \* what holds the change queue: "free", "settle" or "check"
  settling,  \* the running Settle: its root and what its first listing found
  clock,     \* the settles chosen so far
  faults,
  \* history
  age,       \* ticks since each settle was chosen or a check last saw its tree busy
  kept,      \* the idle time it took over from an earlier settle of the same thread
  reason,    \* whether something that ends it happened since it was chosen
  sent,      \* the threads of its tree the person sent a message to since
  noticed    \* those of them by the start of the last check

bbVars == <<bb, said, failed>>
pluginVars == <<rows, idleFor, queuedAt, check, lock, settling>>
history == <<age, kept, reason, sent, noticed>>
vars == <<bbVars, pluginVars, batch, clock, faults, history>>

Times == 0..MaxChoices
Listing == [work : {"none", "turn", "background"}, queue : {"none", "waiting", "failed"},
            question : BOOLEAN, pinned : Times \cup {None}, listed : BOOLEAN]
Row == [mark : {"none", "snoozed", "woke", "settled"}, since : Times \cup {None}]
Event == [thread : Threads, turn : {"none", "user", "failed"}, at : Times \cup {None}]

NoRow == [mark |-> "none", since |-> None]
Unlisted == [work |-> "none", queue |-> "none", question |-> FALSE, pinned |-> None, listed |-> FALSE]
NoCheck == [phase |-> "idle", since |-> [r \in Roots |-> None], seen |-> [t \in Threads |-> Unlisted],
            events |-> {}, ending |-> {}, landing |-> {}]
NoSettle == [root |-> CHOOSE r \in Roots : TRUE, tree |-> {}, waits |-> FALSE, unpinned |-> {}]

Init ==
  /\ bb = [t \in Threads |-> [Unlisted EXCEPT !.listed = TRUE]]
  /\ said = [t \in Threads |-> None]
  /\ failed = [t \in Threads |-> None]
  /\ rows = [t \in Threads |-> [NoRow EXCEPT !.mark = IF t \in Snoozed THEN "snoozed" ELSE "none"]]
  /\ idleFor = [r \in Roots |-> None]
  /\ queuedAt = [r \in Roots |-> {}]
  /\ batch = {}
  /\ check = NoCheck
  /\ lock = "free"
  /\ settling = NoSettle
  /\ clock = 0
  /\ faults = 0
  /\ age = [r \in Roots |-> 0]
  /\ kept = [r \in Roots |-> 0]
  /\ reason = [r \in Roots |-> FALSE]
  /\ sent = [r \in Roots |-> {}]
  /\ noticed = [r \in Roots |-> {}]

IsWaiting(r) == rows[r].since # None
WaitingOn(t) == {r \in Roots : IsWaiting(r) /\ t \in TreeOf(r)}

-----------------------------------------------------------------------------
(***************************************************************************)
(* The rule: waitingSettleVerdict and endingTurn.  `user` and `failures`   *)
(* are the threads with such a turn after the settle was chosen.           *)
(***************************************************************************)
PinnedAfter(thread, since) == thread.pinned # None /\ thread.pinned >= since

Verdict(listing, root, since, user, failures) ==
  LET tree == ListedTree(listing, root)
  IN  IF \/ \E t \in tree : PinnedAfter(listing[t], since)
         \/ \E t \in tree \ Hidden : listing[t].question
         \/ \E t \in tree : listing[t].queue = "failed"
         \/ user \cup failures # {}
      THEN "end"
      ELSE IF \E t \in tree : IsBusy(listing[t]) THEN "wait" ELSE "land"

\* turnsOf: the threads among `ids` with a turn since then that bears on the
\* settle of `root`; a thread with a message queued at the choice is spared.
UserTurnsOfAll(root, ids, since) == {t \in ids : said[t] >= since}    \* mutant: none is spared
UserTurnsLater(root, ids, since) == {t \in ids \ queuedAt[root] : said[t] > since}    \* mutant: off by one
UserTurns(root, ids, since) == {t \in ids \ queuedAt[root] : said[t] >= since}
FailedTurns(ids, since) == {t \in ids : failed[t] >= since}

\* decide: the reported turns, then those of the threads an event named or that
\* run, then before a landing those of the whole tree.  `readable` is whether bb
\* could say; "leave" leaves the settle for the next check.
Decision(root, readable) ==
  LET seen     == check.seen
      since    == check.since[root]
      tree     == ListedTree(seen, root)
      events   == {e \in check.events : e.thread \in tree}
      user     == {e.thread : e \in {d \in events : d.turn = "user" /\ d.at >= since}}
      failures == {e.thread : e \in {d \in events : d.turn = "failed" /\ d.at >= since}}
      toRead   == {e.thread : e \in {d \in events : d.turn = "none"}} \cup {t \in tree : seen[t].work = "turn"}
      After(ids) == Verdict(seen, root, since, user \cup UserTurns(root, ids, since),
                            failures \cup FailedTurns(ids, since))
      reported == Verdict(seen, root, since, user, failures)
      running  == IF reported = "wait" /\ readable THEN After(toRead) ELSE reported
  IN  IF ~seen[root].listed THEN "end"
      ELSE IF running # "land" THEN running
      ELSE IF readable THEN After(tree) ELSE "leave"

-----------------------------------------------------------------------------
(***************************************************************************)
(* bb and the person.  Each thread event is handled in the change queue    *)
(* and is then news to the next check (thenWaitingSettles); a failed turn  *)
(* is stamped once it has been handled.                                    *)
(***************************************************************************)
Announce(t, turn) ==
  batch' = batch \cup {[thread |-> t, turn |-> turn,
                        at |-> IF turn = "user" THEN clock
                               ELSE IF lock # "free" THEN None
                               ELSE IF turn = "failed" THEN clock ELSE 0]}

\* The events whose handlers waited for what held the queue until `time`.
Handled(time) ==
  {IF e.at = None THEN [e EXCEPT !.at = IF e.turn = "failed" THEN time ELSE 0] ELSE e : e \in batch}

Ends(t) == reason' = [r \in Roots |-> reason[r] \/ r \in WaitingOn(t)]
Messages(t) ==
  /\ sent' = [r \in Roots |-> IF r \in WaitingOn(t) THEN sent[r] \cup {t} ELSE sent[r]]
  /\ Ends(t)
  /\ UNCHANGED <<age, kept, noticed>>

Fault == faults < MaxFaults /\ faults' = faults + 1

\* A turn that no person asked for: an agent's message, bb's notification of a parent.
StartTurn(t) ==
  /\ bb[t].listed /\ bb[t].work # "turn" /\ bb[t].queue # "waiting"
  /\ bb' = [bb EXCEPT ![t].work = "turn"]
  /\ Announce(t, "none")
  /\ UNCHANGED <<said, failed, pluginVars, clock, faults, history>>

EndTurn(t) ==
  /\ bb[t].work = "turn" /\ ~bb[t].question
  /\ bb' = [bb EXCEPT ![t].work = "none"]
  /\ Announce(t, "none")
  /\ UNCHANGED <<said, failed, pluginVars, clock, faults, history>>

FailTurn(t) ==
  /\ bb[t].work = "turn" /\ Fault
  /\ bb' = [bb EXCEPT ![t].work = "none", ![t].question = FALSE]
  /\ failed' = [failed EXCEPT ![t] = clock]
  /\ Announce(t, "failed")
  /\ Ends(t)
  /\ UNCHANGED <<said, pluginVars, clock, age, kept, sent, noticed>>

\* A background agent or command starts or stops, which no event tells.
WorkInBackground(t) ==
  /\ bb[t].listed /\ bb[t].work # "turn"
  /\ bb' = [bb EXCEPT ![t].work = IF @ = "none" THEN "background" ELSE "none"]
  /\ UNCHANGED <<said, failed, pluginVars, batch, clock, faults, history>>

\* A person's message starts a turn, or is steered into the one that runs, which
\* no event tells.
Say(t) ==
  /\ bb[t].listed /\ bb[t].queue = "none"
  /\ bb' = [bb EXCEPT ![t].work = "turn"]
  /\ said' = [said EXCEPT ![t] = clock]
  /\ IF bb[t].work = "turn" THEN UNCHANGED batch ELSE Announce(t, "none")
  /\ Messages(t)
  /\ UNCHANGED <<failed, pluginVars, clock, faults>>

\* A person's message to a thread mid-turn waits in its queue: message.queued.
Queue(t) ==
  /\ bb[t].work = "turn" /\ bb[t].queue = "none"
  /\ bb' = [bb EXCEPT ![t].queue = "waiting"]
  /\ Announce(t, "user")
  /\ Messages(t)
  /\ UNCHANGED <<said, failed, pluginVars, clock, faults>>

\* The queued message starts its turn.
SendQueued(t) ==
  /\ bb[t].queue = "waiting" /\ bb[t].work # "turn"
  /\ bb' = [bb EXCEPT ![t].work = "turn", ![t].queue = "none"]
  /\ said' = [said EXCEPT ![t] = clock]
  /\ Announce(t, "none")
  /\ UNCHANGED <<failed, pluginVars, clock, faults, history>>

FailQueued(t) ==
  /\ bb[t].queue = "waiting" /\ Fault
  /\ bb' = [bb EXCEPT ![t].queue = "failed"]
  /\ Ends(t)
  /\ UNCHANGED <<said, failed, pluginVars, batch, clock, age, kept, sent, noticed>>

Ask(t) ==
  /\ bb[t].work = "turn" /\ ~bb[t].question
  /\ bb' = [bb EXCEPT ![t].question = TRUE]
  /\ Announce(t, "none")
  /\ IF t \in Hidden THEN UNCHANGED reason ELSE Ends(t)
  /\ UNCHANGED <<said, failed, pluginVars, clock, faults, age, kept, sent, noticed>>

AnswerQuestion(t) ==
  /\ bb[t].question
  /\ bb' = [bb EXCEPT ![t].question = FALSE]
  /\ UNCHANGED <<said, failed, pluginVars, batch, clock, faults, history>>

Pin(t) ==
  /\ bb[t].listed /\ bb[t].pinned = None
  /\ bb' = [bb EXCEPT ![t].pinned = clock]
  /\ Ends(t)
  /\ UNCHANGED <<said, failed, pluginVars, batch, clock, faults, age, kept, sent, noticed>>

Unpin(t) ==
  /\ bb[t].pinned # None
  /\ bb' = [bb EXCEPT ![t].pinned = None]
  /\ UNCHANGED <<said, failed, pluginVars, batch, clock, faults, history>>

\* bb lists an archived thread no more.
Archive(t) ==
  /\ bb[t].listed /\ Fault
  /\ bb' = [bb EXCEPT ![t].listed = FALSE, ![t].work = "none"]
  /\ Ends(t)
  /\ UNCHANGED <<said, failed, pluginVars, batch, clock, age, kept, sent, noticed>>

\* Time passes; a check takes the time right after its listing.
Tick ==
  /\ check.phase # "listed"
  /\ idleFor' = [r \in Roots |-> IF idleFor[r] \in 0..(Grace - 1) THEN idleFor[r] + 1 ELSE idleFor[r]]
  /\ age' = [r \in Roots |-> IF age[r] < Grace THEN age[r] + 1 ELSE age[r]]
  /\ UNCHANGED <<bbVars, rows, queuedAt, check, lock, settling, batch, clock, faults, kept, reason, sent, noticed>>

-----------------------------------------------------------------------------
(***************************************************************************)
(* The actions: each in its turn of the change queue.                      *)
(***************************************************************************)
Refused(r) == ~bb[r].listed \/ \E t \in (Below(r) \ Hidden) \cup {r} : bb[t].listed /\ bb[t].question

Pinned(tree) == {t \in tree : bb[t].pinned # None}

\* settle, up to its second listing: a busy tree is waited for, and an idle one
\* has its pins taken.
ReadTree(r) ==
  /\ lock = "free" /\ clock < MaxChoices
  /\ ~Refused(r)
  /\ lock' = "settle"
  /\ LET tree  == ListedTree(bb, r)
         waits == \E t \in tree : IsBusy(bb[t])
         taken == IF waits THEN {} ELSE Pinned(tree)
     IN  /\ settling' = [root |-> r, tree |-> tree, waits |-> waits, unpinned |-> taken]
         /\ bb' = [t \in Threads |-> IF t \in taken THEN [bb[t] EXCEPT !.pinned = None] ELSE bb[t]]
  /\ UNCHANGED <<said, failed, rows, idleFor, queuedAt, check, batch, clock, faults, history>>

\* restorePins: where the thread is listed and nothing pinned it since.
RestorePins ==
  bb' = [t \in Threads |-> IF t \in settling.unpinned /\ bb[t].listed /\ bb[t].pinned = None
                           THEN [bb[t] EXCEPT !.pinned = clock] ELSE bb[t]]

\* A pin put back is as new as any: it ends the settles that wait on the thread.
PutBack == [r \in Roots |-> reason[r] \/ r \in UNION {WaitingOn(t) : t \in settling.unpinned}]

\* The tree is the one of the first listing; one that did not wait has no pin, and
\* no attention came to it (`attention`: bb's attention times are not modelled).
Same(attention) ==
  /\ ListedTree(bb, settling.root) = settling.tree
  /\ settling.waits \/ (~attention /\ Pinned(settling.tree) = {})

\* settle, its second listing: refused, waiting, or settled at once.
Choose ==
  /\ lock = "settle"
  /\ lock' = "free"
  /\ settling' = NoSettle
  /\ LET r      == settling.root
         tree   == settling.tree
         waits  == settling.waits \/ \E t \in tree : IsBusy(bb[t])
     IN  \E attention \in BOOLEAN :
           \/ /\ Refused(r) \/ ~Same(attention)
              /\ RestorePins
              /\ reason' = PutBack
              /\ batch' = Handled(clock)
              /\ UNCHANGED <<rows, queuedAt, clock, age, kept, sent, noticed>>
           \/ /\ ~Refused(r) /\ Same(attention) /\ waits
              /\ RestorePins
              /\ clock' = clock + 1
              /\ batch' = Handled(clock + 1)
              /\ rows' = [rows EXCEPT ![r].since = clock + 1]
              /\ queuedAt' = [queuedAt EXCEPT ![r] = {t \in tree : HasQueuedMessage(bb[t])}]
              /\ age' = [age EXCEPT ![r] = 0]
              /\ kept' = [kept EXCEPT ![r] = IF idleFor[r] = None THEN 0 ELSE idleFor[r]]
              /\ reason' = [PutBack EXCEPT ![r] =
                   \/ \E t \in tree : bb[t].queue = "failed"
                   \/ \E e \in batch : e.at = None /\ e.turn = "failed" /\ e.thread \in tree]
              /\ sent' = [sent EXCEPT ![r] = {}]
              /\ noticed' = [noticed EXCEPT ![r] = {}]
           \/ /\ ~Refused(r) /\ Same(attention) /\ ~waits
              /\ clock' = clock + 1
              /\ batch' = Handled(clock + 1)
              /\ rows' = [t \in Threads |-> IF t \in tree THEN [mark |-> "settled", since |-> None] ELSE rows[t]]
              /\ UNCHANGED <<bb, queuedAt, history>>
  /\ UNCHANGED <<said, failed, idleFor, check, faults>>

\* What follows leaves bb alone and takes no time.
RowsAction(t) ==
  /\ lock = "free"
  /\ UNCHANGED <<bbVars, idleFor, queuedAt, check, lock, settling, batch, clock, faults, age, kept, sent, noticed>>

CancelSettle(r) ==
  /\ RowsAction(r)
  /\ IsWaiting(r)
  /\ rows' = [rows EXCEPT ![r].since = None]
  /\ Ends(r)

\* The snooze of a thread runs out, and its Woke marker is up.
SnoozeEnds(t) ==
  /\ rows[t].mark = "snoozed"
  /\ rows' = [rows EXCEPT ![t].mark = "woke"]
  /\ UNCHANGED <<bbVars, idleFor, queuedAt, check, lock, settling, batch, clock, faults, history>>

\* dismissWoke, which a window asks for when the person opens a woke thread.
DismissWoke(t) ==
  /\ RowsAction(t)
  /\ rows[t].mark = "woke" /\ bb[t].listed
  /\ rows' = [rows EXCEPT ![t] = NoRow]
  /\ UNCHANGED reason

\* clearPinned: a pin clears the row, unless a settle waits since after the pin.
ClearPinned(t) ==
  /\ RowsAction(t)
  /\ rows[t] # NoRow /\ bb[t].listed /\ bb[t].pinned # None
  /\ IsWaiting(t) => PinnedAfter(bb[t], rows[t].since)
  /\ rows' = [rows EXCEPT ![t] = NoRow]
  /\ UNCHANGED reason

\* unsettle: the thread, its settled descendants, and the marked threads above it.
Unsettle(t) ==
  /\ RowsAction(t)
  /\ rows[t].mark = "settled" /\ bb[t].listed
  /\ rows' = [u \in Threads |->
       IF u = t \/ (u \in Below(t) /\ rows[u].mark = "settled") \/ (u \in Above[t] /\ rows[u].mark # "none")
       THEN NoRow ELSE rows[u]]
  /\ reason' = [r \in Roots |-> reason[r] \/ r \in WaitingOn(t) \/ (IsWaiting(r) /\ r \in Below(t))]

-----------------------------------------------------------------------------
(***************************************************************************)
(* A check: checkNow, in its own serial queue.                             *)
(***************************************************************************)
\* An event's check starts at once unless another runs.
Due == check.phase = "idle" /\ \E e \in batch : e.at # None

\* Asked for by an event, or by the poll while a settle waits.
AskedByEvents == Due    \* mutant: no poll
Asked == Due \/ (check.phase = "idle" /\ \E r \in Roots : IsWaiting(r))

\* It notes the waiting rows and forgets what it kept for others.
StartCheck ==
  /\ Asked
  /\ idleFor' = [r \in Roots |-> IF IsWaiting(r) THEN idleFor[r] ELSE None]
  /\ queuedAt' = [r \in Roots |-> IF IsWaiting(r) THEN queuedAt[r] ELSE {}]
  /\ check' = IF \E r \in Roots : IsWaiting(r)
              THEN [check EXCEPT !.phase = "started", !.since = [r \in Roots |-> rows[r].since],
                                 !.events = {e \in batch : e.at # None}]
              ELSE check
  /\ batch' = {e \in batch : e.at = None}
  /\ noticed' = sent
  /\ UNCHANGED <<bbVars, rows, lock, settling, clock, faults, age, kept, reason, sent>>

List ==
  /\ check.phase = "started"
  /\ check' = [check EXCEPT !.phase = "listed", !.seen = bb]
  /\ LET busy == {r \in Roots : \E t \in ListedTree(bb, r) : IsBusy(bb[t])}
     IN  /\ age' = [r \in Roots |-> IF r \in busy THEN 0 ELSE age[r]]
         /\ kept' = [r \in Roots |-> IF r \in busy THEN 0 ELSE kept[r]]
  /\ UNCHANGED <<bbVars, rows, idleFor, queuedAt, lock, settling, batch, clock, faults, reason, sent, noticed>>

\* idleSince after a verdict, and whether the grace is over.
IdleKept(r, verdict) ==    \* mutant: a busy tree does not start it over
  IF verdict = "land" /\ idleFor[r] = None THEN 0 ELSE idleFor[r]
IdleAfter(r, verdict) ==
  CASE verdict = "land"          -> IF idleFor[r] = None THEN 0 ELSE idleFor[r]
    [] verdict = "leave"         -> idleFor[r]
    [] verdict \in {"wait", "end"} -> None

GraceOver(r) == idleFor[r] = Grace

\* It decides each settle it noted.
Decide ==
  /\ check.phase = "listed"
  /\ \E readable \in BOOLEAN :
       /\ IF readable THEN UNCHANGED faults ELSE Fault
       /\ \E verdict \in {[r \in {n \in Roots : check.since[n] # None} |-> Decision(r, readable)]} :
          LET noted   == DOMAIN verdict
              ending  == {r \in noted : verdict[r] = "end"}
              landing == {r \in noted : verdict[r] = "land" /\ GraceOver(r)}
          IN  /\ idleFor' = [r \in Roots |-> IF r \in noted THEN IdleAfter(r, verdict[r]) ELSE idleFor[r]]
              /\ check' = IF ending \cup landing = {} THEN NoCheck
                          ELSE [NoCheck EXCEPT !.phase = "decided", !.since = check.since,
                                               !.ending = ending, !.landing = landing]
  /\ UNCHANGED <<bbVars, rows, queuedAt, lock, settling, batch, clock, history>>

\* Only the settle that was decided on.
Still(r) == rows[r].since = check.since[r]

\* Its turn of the change queue comes, and it lists bb again.
EnterChange ==
  /\ check.phase = "decided" /\ lock = "free"
  /\ lock' = "check"
  /\ check' = [check EXCEPT !.phase = "writing", !.seen = bb,
                            !.ending = {r \in check.ending : Still(r)},
                            !.landing = {r \in check.landing : Still(r)}]
  /\ UNCHANGED <<bbVars, rows, idleFor, queuedAt, settling, batch, clock, faults, history>>

\* It unpins and settles each tree that may still land, and ends the others.  A pin
\* that bb does not take off stays.
Lands == {r \in check.landing : check.seen[r].listed /\ Verdict(check.seen, r, check.since[r], {}, {}) = "land"}
Landed == UNION {ListedTree(check.seen, r) : r \in Lands}

WriteSettles ==
  /\ check.phase = "writing"
  /\ lock' = "free"
  /\ \E refused \in SUBSET {t \in Landed : check.seen[t].pinned # None} :
       /\ IF refused = {} THEN UNCHANGED faults ELSE Fault
       /\ bb' = [t \in Threads |-> IF t \in Landed \ refused /\ check.seen[t].pinned # None
                                   THEN [bb[t] EXCEPT !.pinned = None] ELSE bb[t]]
  /\ rows' = [t \in Threads |->
       IF t \in Landed THEN [mark |-> "settled", since |-> None]
       ELSE IF t \in check.ending THEN [rows[t] EXCEPT !.since = None]
       ELSE rows[t]]
  /\ idleFor' = [r \in Roots |-> IF r \in Lands THEN None ELSE idleFor[r]]
  /\ check' = NoCheck
  /\ batch' = Handled(clock)
  /\ UNCHANGED <<said, failed, queuedAt, settling, clock, history>>

\* bb does not list its threads: the check fails and what it decided is dropped.  In its
\* turn of the queue it lists them only to land a settle.
CheckFails ==
  /\ check.phase = "started" \/ (check.phase = "writing" /\ check.landing # {})
  /\ Fault
  /\ check' = NoCheck
  /\ IF check.phase = "writing"
       THEN lock' = "free" /\ batch' = Handled(clock)
       ELSE UNCHANGED <<lock, batch>>
  /\ UNCHANGED <<bbVars, rows, idleFor, queuedAt, settling, clock, history>>

\* The plugin stops and starts: the rows are stored, the rest is memory.
Restart ==
  /\ Fault
  /\ lock' = "free"
  /\ settling' = NoSettle
  /\ check' = NoCheck
  /\ batch' = {}
  /\ idleFor' = [r \in Roots |-> None]
  /\ queuedAt' = [r \in Roots |-> {}]
  /\ reason' = [r \in Roots |-> reason[r] \/ (IsWaiting(r) /\ queuedAt[r] # {})]
  /\ UNCHANGED <<bbVars, rows, clock, age, kept, sent, noticed>>

-----------------------------------------------------------------------------
Others ==
  \/ \E t \in Running : StartTurn(t)
  \/ \E t \in Threads : EndTurn(t) \/ FailTurn(t) \/ Archive(t)
  \/ \E t \in Messaged : Say(t) \/ Queue(t) \/ SendQueued(t) \/ FailQueued(t)
  \/ \E t \in Askers : Ask(t) \/ AnswerQuestion(t)
  \/ \E t \in Background : WorkInBackground(t)
  \/ \E t \in Pinnable : Pin(t) \/ Unpin(t) \/ ClearPinned(t)
  \/ \E t \in Threads : SnoozeEnds(t) \/ DismissWoke(t) \/ Unsettle(t)
  \/ \E r \in Roots : ReadTree(r) \/ CancelSettle(r)
  \/ Choose
  \/ List
  \/ Decide
  \/ EnterChange
  \/ WriteSettles
  \/ CheckFails
  \/ Restart
  \/ Tick

Next ==
  \/ StartCheck
  \/ ~Due /\ Others

\* The poll looks every POLL_MS, promises settle and time passes.  Of the steps of a
\* check, and of those of the change queue, one at a time is enabled.
Fairness ==
  /\ WF_vars(StartCheck \/ List \/ Decide)
  /\ WF_vars(Choose \/ EnterChange \/ WriteSettles)
  /\ SF_vars(Tick)

Spec == Init /\ [][Next]_vars /\ Fairness

-----------------------------------------------------------------------------
(***************************************************************************)
(* Properties.                                                             *)
(***************************************************************************)
\* In this step the settle that waits on r lands, or its wait is over and r is not
\* settled, by this settle or by one of a thread above it.
Over(r) == IsWaiting(r) /\ rows'[r].since = None
LandsNow(r) == Over(r) /\ check.phase = "writing" /\ r \in Lands
EndsNow(r) == Over(r) /\ lock # "settle" /\ ~(check.phase = "writing" /\ r \in Landed)

\* A settle lands no sooner than the grace after it was chosen, its tree being busy
\* then, and after the last check that saw a thread of its tree busy.
LandsAfterItsGrace == [][\A r \in Roots : LandsNow(r) => age[r] >= Grace]_vars

\* It does, but for the idle time that an earlier settle of the thread left behind when no
\* check came between them: idleSince names the thread and not its settle.
LandsAfterGrace == [][\A r \in Roots : LandsNow(r) => age[r] + kept[r] >= Grace]_vars

\* A waiting settle ends without settling only for what is said to end it: a
\* message of the person's, a pin, a question, a failure, a cancel, an Un-settle or an archive;
\* or for the pins that a Settle of the tree, refused, put back.
EndsForAReason == [][\A r \in Roots : EndsNow(r) => reason'[r]]_vars

\* A settle does not land over a message the person sent to its tree before the
\* check that lands it began, but for the threads with one queued at the choice.
LandsUnmessaged ==
  [][\A r \in Roots : LandsNow(r) => noticed[r] \cap ListedTree(bb, r) \subseteq queuedAt[r]]_vars

\* A waiting settle whose tree is idle for good lands or ends, once the person is done
\* pinning it.
Quiet(r) == \A t \in TreeOf(r) : ~IsBusy(bb[t])
Pins == [t \in Threads |-> bb[t].pinned]
Settles == \A r \in Roots : <>[]Quiet(r) /\ <>[][FALSE]_Pins => <>[]~IsWaiting(r)
=============================================================================
