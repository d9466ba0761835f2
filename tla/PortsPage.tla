----------------------------- MODULE PortsPage -----------------------------
(***************************************************************************)
(* A window's reads of the ports snapshot                                  *)
(* (thread-glance features/thread-list/sync/ports-requests.ts) and the     *)
(* Clean dialog's two calls (components/CleanDialog.tsx).                  *)
(*                                                                         *)
(* The page is shown and hidden, the keeper that follows it is mounted and *)
(* gone, and Stop on a port asks too.  A read's promise is met by its      *)
(* continuations in the order they were added, after the read itself ended.*)
(* Dialog answers come in any order.  What a read holds is left out.       *)
(***************************************************************************)
EXTENDS Integers, Sequences, FiniteSets

CONSTANTS
  MaxRounds,   \* bound: refreshes and restarts of the loop
  MaxLooks     \* bound: previews and runs of the dialog

PageAssumption == MaxRounds \in Nat /\ MaxLooks \in Nat

VARIABLES
  visible, mounted,
  round,        \* the loop's round, for this mount
  timers,       \* the rounds whose timer is set: one in the code, unless a round is lost
  running,      \* a read runs, and whether it is fresh
  freshWanted,
  waiting,      \* the continuations on the running read: rounds of the loop
  met,          \* those whose read has ended
  dialog,       \* what the dialog draws: its phase, and the call that gave it
  latest, looks, inFlight   \* the dialog's calls

pageVars == <<visible, mounted, round, timers, running, freshWanted, waiting, met>>
dialogVars == <<dialog, latest, looks, inFlight>>
portsPageVars == <<visible, mounted, round, timers, running, freshWanted, waiting, met, dialog, latest, looks, inFlight>>

Idle == [on |-> FALSE, fresh |-> FALSE]
Closed == [phase |-> "closed", from |-> 0]

PageInit ==
  /\ visible \in BOOLEAN /\ mounted = FALSE
  /\ round = 0 /\ timers = {} /\ running = Idle /\ freshWanted = FALSE
  /\ waiting = {} /\ met = {}
  /\ dialog = Closed /\ latest = 0 /\ looks = 0 /\ inFlight = {}

-----------------------------------------------------------------------------
\* requestPorts: begins a read, or joins the one that runs.
Request(fresh) ==
  IF running.on THEN freshWanted' = (freshWanted \/ fresh) /\ running' = running
  ELSE running' = [on |-> TRUE, fresh |-> fresh] /\ freshWanted' = FALSE
\* refresh: a new round, whose continuation waits for the read.
Refresh(fresh) ==
  /\ round < MaxRounds /\ round' = round + 1
  /\ timers' = {}
  /\ Request(fresh)
  /\ waiting' = waiting \cup {round'}

Mount ==
  /\ ~mounted /\ mounted' = TRUE
  /\ IF visible THEN Refresh(FALSE) ELSE UNCHANGED <<round, timers, running, freshWanted, waiting>>
  /\ UNCHANGED <<visible, met, dialogVars>>
\* The effect's cleanup: continuations of this mount find it stopped.
Unmount ==
  /\ mounted /\ mounted' = FALSE
  /\ timers' = {} /\ waiting' = {} /\ met' = {}
  /\ UNCHANGED <<visible, round, running, freshWanted, dialogVars>>
Show ==
  /\ ~visible /\ visible' = TRUE
  /\ IF mounted THEN Refresh(TRUE) ELSE UNCHANGED <<round, timers, running, freshWanted, waiting>>
  /\ UNCHANGED <<mounted, met, dialogVars>>
Hide ==
  /\ visible /\ visible' = FALSE
  /\ IF mounted THEN round < MaxRounds /\ round' = round + 1 /\ timers' = {} ELSE UNCHANGED <<round, timers>>
  /\ UNCHANGED <<mounted, running, freshWanted, waiting, met, dialogVars>>
\* Stop on a port refreshes the snapshot once it was asked.
StopPort == Request(TRUE) /\ UNCHANGED <<visible, mounted, round, timers, waiting, met, dialogVars>>
\* The read answers or fails: a fresh one asked for meanwhile follows; otherwise its promise is met.
Answer ==
  /\ running.on
  /\ IF freshWanted THEN running' = [on |-> TRUE, fresh |-> TRUE] /\ UNCHANGED <<waiting, met>>
     ELSE running' = Idle /\ met' = met \cup waiting /\ waiting' = {}
  /\ freshWanted' = FALSE
  /\ UNCHANGED <<visible, mounted, round, timers, dialogVars>>
\* The continuation: the next read is ten seconds away, unless its round is over.
ContinueAlways(mine) ==    \* mutant: a continuation of an earlier round sets a timer too
  /\ mine \in met /\ met' = met \ {mine}
  /\ timers' = IF visible THEN timers \cup {mine} ELSE timers
  /\ UNCHANGED <<visible, mounted, round, running, freshWanted, waiting, dialogVars>>
Continue(mine) ==
  /\ mine \in met /\ met' = met \ {mine}
  /\ timers' = IF mine = round /\ visible THEN timers \cup {mine} ELSE timers
  /\ UNCHANGED <<visible, mounted, round, running, freshWanted, waiting, dialogVars>>
Due ==
  /\ \E mine \in timers : TRUE
  /\ Refresh(FALSE)
  /\ UNCHANGED <<visible, mounted, met, dialogVars>>

-----------------------------------------------------------------------------
(***************************************************************************)
(* The dialog.                                                             *)
(***************************************************************************)
\* refresh: on opening, and on "Refresh preview".
Look ==
  /\ looks < MaxLooks /\ looks' = looks + 1
  /\ dialog.phase \in {"closed", "preview", "failed", "expired", "done"}
  /\ latest' = latest + 1
  /\ dialog' = [phase |-> "loading", from |-> latest']
  /\ inFlight' = inFlight \cup {[id |-> latest', what |-> "preview"]}
  /\ UNCHANGED pageVars
\* The dialog may be closed unless a run is going; the list it is in may go at any time.
CloseDialog ==
  /\ dialog # Closed /\ dialog' = Closed /\ latest' = latest + 1
  /\ UNCHANGED <<looks, inFlight, pageVars>>
RunClean ==
  /\ looks < MaxLooks /\ looks' = looks + 1
  /\ dialog.phase = "preview"
  /\ latest' = latest + 1
  /\ dialog' = [phase |-> "running", from |-> latest']
  /\ inFlight' = inFlight \cup {[id |-> latest', what |-> "run"]}
  /\ UNCHANGED pageVars
\* An answer that comes back after a newer call started only toasts.
DialogAnswer(call) ==
  /\ call \in inFlight /\ inFlight' = inFlight \ {call}
  /\ \E phase \in IF call.what = "preview" THEN {"preview", "failed"} ELSE {"done", "expired", "failed"} :
       dialog' = IF call.id = latest THEN [phase |-> phase, from |-> call.id] ELSE dialog
  /\ UNCHANGED <<latest, looks, pageVars>>

PageNext ==
  \/ Mount \/ Unmount \/ Show \/ Hide \/ StopPort \/ Answer \/ Due
  \/ \E mine \in met : Continue(mine)
  \/ Look \/ CloseDialog \/ RunClean
  \/ \E call \in inFlight : DialogAnswer(call)

PageSpec == PageInit /\ [][PageNext]_portsPageVars

-----------------------------------------------------------------------------
\* A page that is followed and shown always has its next read to come, by one way only: a
\* timer, or the continuation of a read that runs or has ended.  A hidden one has none.  And
\* what the dialog draws comes of its last call.
PageIsFollowed ==
  /\ mounted /\ visible => Cardinality(timers \cup {r \in waiting \cup met : r = round}) = 1
  /\ ~visible \/ ~mounted => timers = {}
  /\ waiting # {} => running.on
  /\ dialog.phase # "closed" => dialog.from = latest
=============================================================================
