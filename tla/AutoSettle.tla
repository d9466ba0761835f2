----------------------------- MODULE AutoSettle -----------------------------
(***************************************************************************)
(* The automatic settle of the thread-glance server                        *)
(* (server/auto-settle.ts), with what it reads (server/threads.ts,         *)
(* pull-requests.ts, pull-request-status.ts, ports/hold-back.ts) and the   *)
(* Reclaim and archive release that stop what a put-away thread no longer  *)
(* needs (server/reclaim.ts, archive-release.ts, runtime.ts).              *)
(*                                                                         *)
(* Time is left out: a thread has been quiet for the days set or not, its  *)
(* pull request changed after its last activity or not, and attention came *)
(* since its mark or not.  A row is the one mark the pass looks at.  Rows  *)
(* change one change at a time; bb's threads change at any time.  Reclaims *)
(* share a listing being read: here each reads its own.                    *)
(***************************************************************************)
EXTENDS Integers, FiniteSets, Sequences

CONSTANTS
  Threads, Parent, NoParent,
  Hidden,       \* bb's hidden helpers
  Env, NoEnv,   \* each thread's environment
  FirstRows,    \* the rows to start from
  PullKinds,    \* the pull request statuses that come up
  AllSettings,  \* records [quiet, merged]: settleQuietThreads, settleMergedPullRequests
  MaxChanges, MaxPasses   \* bounds

SettleAssumption == Hidden \subseteq Threads /\ MaxChanges \in Nat /\ MaxPasses \in Nat

VARIABLES
  bb,         \* each thread: pinned, busy, quiet, newer (its pull request than its activity), stale (its mark)
  pulls,      \* each environment's pull request
  serving,    \* the threads that serve a port
  rows,       \* each thread's mark
  settings,
  pass,       \* the pass that runs
  waiting,    \* whether one waits behind it
  reclaims,   \* the threads a Reclaim works on, and its step
  loaded,     \* threads whose runtime is loaded
  terminals,  \* each thread's terminal: none, clean, or typed into
  changes, passes,
  \* history
  applied,    \* the settings of the last pass that wrote
  failed      \* a pass has failed since the settings changed

world == <<bb, pulls, serving, loaded, terminals>>
settleVars == <<bb, pulls, serving, rows, settings, pass, waiting, reclaims, loaded, terminals, changes, passes, applied, failed>>

Envs == {Env[t] : t \in Threads} \ {NoEnv}
NoPass == [step |-> "none"]
Visible == Threads \ Hidden

-----------------------------------------------------------------------------
(***************************************************************************)
(* The rules.                                                              *)
(***************************************************************************)
Stale(t) == rows[t] \in {"auto", "manual", "parked"} /\ bb[t].stale
HasManualMark(t) == rows[t] \in {"manual", "active", "waiting"}
IsAutoSettled(t) == rows[t] = "auto" /\ ~Stale(t)
IsExcluded(t) == bb[t].pinned \/ bb[t].busy \/ rows[t] \in {"parked", "snoozed"}
NeedsPullRequest(t) == t \notin Hidden /\ Env[t] # NoEnv /\ ~HasManualMark(t) /\ ~IsExcluded(t)

Should(t, pull, set) ==
  \/ pull = "closed" /\ bb[t].newer
  \/ pull = "merged" /\ set.merged /\ bb[t].newer
  \/ pull \notin {"open", "draft"} /\ set.quiet /\ bb[t].quiet
Keeps(t, pull, set) ==
  \/ HasManualMark(t) \/ pull = "unknown"
  \/ pull = "no-lookup" /\ IsAutoSettled(t)
  \/ pull = "closed undated" \/ (pull = "merged undated" /\ set.merged)
Decide(t, pull, set) ==
  LET auto == IsAutoSettled(t)
  IN CASE HasManualMark(t) -> "keep"
       [] IsExcluded(t) /\ ~HasManualMark(t) -> IF auto THEN "unsettle" ELSE "keep"
       [] OTHER -> IF Keeps(t, pull, set) \/ Should(t, pull, set) = auto THEN "keep"
                   ELSE IF auto THEN "unsettle" ELSE "settle"

\* wholeTreeSettled: every visible thread below settled or settling, no hidden one busy.
BelowOf[t \in Threads] ==
  LET children == {u \in Threads : Parent[u] = t} IN children \cup UNION {BelowOf[u] : u \in children}
WholeTree(t, settle, unsettle) ==
  \A u \in BelowOf[t] :
    IF u \in Hidden THEN ~bb[u].busy
    ELSE u \in settle \/ (rows[u] \in {"auto", "manual"} /\ ~Stale(u) /\ u \notin unsettle)

\* planAutoSettle's last loop: withdrawing a thread can leave its parent short, so it repeats until nothing moves.
MoreToReturn(kept, unsettle) ==
  {t \in Visible \ (unsettle \cup kept) : IsAutoSettled(t) /\ ~WholeTree(t, kept, unsettle)}
WithdrawSettling(settle, unsettle) ==    \* mutant: only a parent about to settle is withdrawn
  [settle |-> {t \in settle : WholeTree(t, settle, unsettle)}, unsettle |-> unsettle]
Withdraw(settle, unsettle) ==
  LET rounds[plan \in [settle : SUBSET Threads, unsettle : SUBSET Threads]] ==
        LET kept == {t \in plan.settle : WholeTree(t, plan.settle, plan.unsettle)}
            more == MoreToReturn(kept, plan.unsettle)
        IN IF kept = plan.settle /\ more = {} THEN plan
           ELSE rounds[[settle |-> kept, unsettle |-> plan.unsettle \cup more]]
  IN rounds[[settle |-> settle, unsettle |-> unsettle]]
Plan(read, held, set) ==
  LET pull(t) == IF Env[t] = NoEnv THEN "absent" ELSE IF Env[t] \in DOMAIN read THEN read[Env[t]] ELSE "unknown"
  IN Withdraw({t \in Visible \ held : Decide(t, pull(t), set) = "settle"}, {t \in Visible : Decide(t, pull(t), set) = "unsettle"})

-----------------------------------------------------------------------------
SettleInit ==
  /\ rows \in FirstRows
  /\ bb \in {[t \in Threads |-> [pinned |-> FALSE, busy |-> FALSE, quiet |-> t # loud, newer |-> TRUE, stale |-> FALSE]] : loud \in Visible \cup {NoParent}}
  /\ pulls \in [Envs -> PullKinds]
  /\ serving = {}
  /\ settings \in AllSettings
  /\ pass = NoPass /\ waiting = FALSE /\ reclaims = [t \in {} |-> "none"]
  /\ loaded = Threads /\ terminals = [t \in Threads |-> "clean"]
  /\ changes = 0 /\ passes = 0
  /\ applied = settings /\ failed = FALSE

Change == changes < MaxChanges /\ changes' = changes + 1
passVars == <<pass, waiting, reclaims, passes, applied, failed>>

\* bb's threads come to life or quieten; attention to one makes its mark stale.
Lives(t) ==
  /\ Change
  /\ \E now \in {[bb[t] EXCEPT !.pinned = ~@], [bb[t] EXCEPT !.busy = ~@, !.quiet = FALSE, !.newer = FALSE],
                 [bb[t] EXCEPT !.stale = TRUE, !.quiet = FALSE, !.newer = FALSE]} :
       bb' = [bb EXCEPT ![t] = now]
  /\ loaded' = IF bb'[t].busy THEN loaded \cup {t} ELSE loaded
  /\ UNCHANGED <<pulls, serving, rows, settings, terminals, passVars>>
PullChanges(e) ==
  /\ Change /\ \E kind \in PullKinds \ {pulls[e]} : pulls' = [pulls EXCEPT ![e] = kind]
  /\ UNCHANGED <<bb, serving, rows, settings, loaded, terminals, passVars>>
Serves(t) == Change /\ serving' = serving \cup {t} /\ UNCHANGED <<bb, pulls, rows, settings, loaded, terminals, passVars>>
Types(t) ==
  /\ Change /\ terminals[t] = "clean" /\ terminals' = [terminals EXCEPT ![t] = "typed"]
  /\ UNCHANGED <<bb, pulls, serving, rows, settings, loaded, passVars>>
\* A user's or an event's change to a row, outside the pass's own change.
RowChanges(t) ==
  /\ Change /\ pass.step # "write"
  /\ \E mark \in {"none", "manual", "parked", "active"} \ {rows[t]} :
       rows' = [rows EXCEPT ![t] = mark] /\ bb' = [bb EXCEPT ![t].stale = FALSE]
  /\ UNCHANGED <<pulls, serving, settings, loaded, terminals, passVars>>

-----------------------------------------------------------------------------
(***************************************************************************)
(* run: one pass at a time, one more behind it.                            *)
(***************************************************************************)
RunDropped ==    \* mutant: a call made while a pass runs is taken for that pass
  IF pass # NoPass THEN UNCHANGED <<pass, waiting>> ELSE pass' = [step |-> "settings"] /\ waiting' = waiting
Run ==
  IF pass # NoPass THEN waiting' = TRUE /\ pass' = pass
  ELSE pass' = [step |-> "settings"] /\ waiting' = waiting
\* The schedule, and the runAutoSettle call.
Ask ==
  /\ passes < MaxPasses /\ passes' = passes + 1
  /\ Run
  /\ UNCHANGED <<world, rows, settings, reclaims, changes, applied, failed>>
\* onSettingsChanged, for a change to a setting of this one's.
SettingsChange ==
  /\ Change
  /\ \E set \in AllSettings \ {settings} : settings' = set
  /\ Run /\ failed' = FALSE
  /\ UNCHANGED <<world, rows, reclaims, passes, applied>>

\* The end of a pass, answered or failed: the one that waits begins.
EndPass == pass' = IF waiting THEN [step |-> "settings"] ELSE NoPass
Fails == EndPass /\ waiting' = FALSE /\ failed' = TRUE

ReadSettings ==
  /\ pass.step = "settings"
  /\ pass' = [step |-> "list", started |-> settings]
  /\ UNCHANGED <<world, rows, settings, waiting, reclaims, changes, passes, applied, failed>>
ReadThreads ==
  /\ pass.step = "list"
  /\ \/ /\ pass' = [step |-> "pulls", started |-> pass.started, asked |-> {Env[t] : t \in {u \in Threads : NeedsPullRequest(u)}}]
        /\ UNCHANGED <<waiting, failed>>
     \/ Fails
  /\ UNCHANGED <<world, rows, settings, reclaims, changes, passes, applied>>
\* A call refused, or out of shape, is unknown, or nothing to ask for, of every environment asked about.
ReadPulls ==
  /\ pass.step = "pulls"
  /\ \E read \in {pulls} \cup {[e \in Envs |-> none] : none \in {"unknown", "no-lookup"}} :
       pass' = [step |-> "held", started |-> pass.started, read |-> [e \in pass.asked |-> read[e]]]
  /\ UNCHANGED <<world, rows, settings, waiting, reclaims, changes, passes, applied, failed>>
ReadHeld ==
  /\ pass.step = "held"
  /\ pass' = [step |-> "change", started |-> pass.started, read |-> pass.read, held |-> serving]
  /\ UNCHANGED <<world, rows, settings, waiting, reclaims, changes, passes, applied, failed>>
\* In the change: a pass is for the settings it started under.
CheckSettings ==
  /\ pass.step = "change"
  /\ IF pass.started # settings THEN EndPass /\ waiting' = FALSE
     ELSE pass' = [pass EXCEPT !.step = "write"] /\ waiting' = waiting
  /\ UNCHANGED <<world, rows, settings, reclaims, changes, passes, applied, failed>>
Write ==
  /\ pass.step = "write"
  /\ LET plan == Plan(pass.read, pass.held, pass.started)
     IN \/ /\ rows' = [t \in Threads |-> IF t \in plan.settle THEN "auto" ELSE IF t \in plan.unsettle THEN "none" ELSE rows[t]]
           /\ bb' = [t \in Threads |-> IF t \in plan.settle THEN [bb[t] EXCEPT !.stale = FALSE] ELSE bb[t]]
           /\ reclaims' = [t \in plan.settle |-> "check"]
           /\ pass' = [step |-> "reclaim"] /\ applied' = pass.started
           /\ UNCHANGED <<waiting, failed>>
        \/ Fails /\ UNCHANGED <<rows, bb, reclaims, applied>>
  /\ UNCHANGED <<pulls, serving, loaded, terminals, settings, changes, passes>>
Reclaimed ==
  /\ pass.step = "reclaim" /\ DOMAIN reclaims = {}
  /\ EndPass /\ waiting' = FALSE
  /\ UNCHANGED <<world, rows, settings, reclaims, changes, passes, applied, failed>>

-----------------------------------------------------------------------------
(***************************************************************************)
(* Reclaim, and the archive release.                                       *)
(***************************************************************************)
Unchanged(t) == ~bb[t].pinned /\ ~bb[t].busy /\ rows[t] = "auto"
ReclaimAt(t, step) == reclaims' = [reclaims EXCEPT ![t] = step]
Finish(t) == reclaims' = [u \in DOMAIN reclaims \ {t} |-> reclaims[u]]
Check(t) ==
  /\ t \in DOMAIN reclaims /\ reclaims[t] \in {"check", "terminals"}
  /\ IF ~Unchanged(t) THEN Finish(t) ELSE ReclaimAt(t, IF reclaims[t] = "check" THEN "stop" ELSE "close")
  /\ UNCHANGED <<world, rows, settings, pass, waiting, changes, passes, applied, failed>>
\* Stopping the runtime of a thread with no turn leaves its status alone.
Stop(t) ==
  /\ t \in DOMAIN reclaims /\ reclaims[t] = "stop"
  /\ loaded' \in {loaded \ {t}, loaded}    \* or it could not be stopped
  /\ IF terminals[t] = "clean" THEN ReclaimAt(t, "terminals") ELSE Finish(t)
  /\ UNCHANGED <<bb, pulls, serving, terminals, rows, settings, pass, waiting, changes, passes, applied, failed>>
\* bb closes it only while nobody has typed into it.
CloseIfUntouched(t) ==
  /\ t \in DOMAIN reclaims /\ reclaims[t] = "close"
  /\ terminals' = [terminals EXCEPT ![t] = IF @ = "clean" THEN "none" ELSE @]
  /\ Finish(t)
  /\ UNCHANGED <<bb, pulls, serving, loaded, rows, settings, pass, waiting, changes, passes, applied, failed>>
\* A thread archived from bb's menu, and its children that are not busy.
ReleaseArchived(t) ==
  /\ Change
  /\ loaded' = loaded \ ({t} \cup {u \in Threads : Parent[u] = t /\ ~bb[u].busy})
  /\ UNCHANGED <<bb, pulls, serving, terminals, rows, settings, passVars>>

SettleNext ==
  \/ Ask \/ SettingsChange \/ ReadSettings \/ ReadThreads \/ ReadPulls \/ ReadHeld \/ CheckSettings \/ Write \/ Reclaimed
  \/ \E t \in Threads : Lives(t) \/ Serves(t) \/ Types(t) \/ RowChanges(t) \/ Check(t) \/ Stop(t) \/ CloseIfUntouched(t) \/ ReleaseArchived(t)
  \/ \E e \in Envs : PullChanges(e)

SettleSpec == SettleInit /\ [][SettleNext]_settleVars

-----------------------------------------------------------------------------
\* What a pass writes leaves no half-settled tree (auto-settle.ts:109-113): whatever came to life while it
\* read pull requests and ports, a thread it settles is neither pinned, busy nor held back, and every
\* thread that then stands settled automatically has its whole tree settled under it.
SettlesWholeTrees ==
  pass.step = "write" /\ pass'.step = "reclaim" =>
       /\ \A t \in DOMAIN reclaims' : ~bb'[t].busy /\ ~bb'[t].pinned /\ t \notin pass.held
       /\ \A t \in Visible : IsAutoSettled(t)' => WholeTree(t, {}, {})'

\* A change to the settings is followed by a whole pass under it (auto-settle.ts:198-200, 252): while no pass
\* has written under the settings as they are, one that reads them is to come, unless a pass has failed.
ChangesAreFollowed ==
  settings # applied =>
    \/ failed \/ waiting
    \/ pass.step = "settings"
    \/ pass.step \in {"list", "pulls", "held", "change", "write"} /\ pass.started = settings
=============================================================================
