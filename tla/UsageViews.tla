---------------------------- MODULE UsageViews -----------------------------
(***************************************************************************)
(* A view of thread-usage in one window: the Usage tab, the header's chip, *)
(* the Usage page or the settings section.  A view loads its value over    *)
(* RPC for what is chosen in it, and loads again on the server's change    *)
(* signals, gathered for a moment; an answer that comes after a newer call *)
(* was made is dropped (src/ui/common.tsx: useLive; UsagePanel.tsx,        *)
(* HeaderChip.tsx, UsagePage.tsx, SettingsPanel.tsx; server.ts, the RPC).  *)
(*                                                                         *)
(* A figure is the tokens recorded of each thread it covers, with the      *)
(* prices it was made under.  The ledger catches up with bb in one step    *)
(* (UsageEngine models its reads).                                         *)
(***************************************************************************)
EXTENDS Integers, Sequences, FiniteSets

CONSTANTS
  Threads,     \* the threads bb has or will have
  Parent,      \* the thread that spawned each, 0 for none
  Recent,      \* the threads of trees active within the shorter period
  Kinds,       \* which views to open: "tab", "chip", "page", "settings"
  Switches,    \* the kinds whose choice may change while they are open
  NoChoice,    \* no timer is set
  NoData,      \* nothing is loaded
  MaxSpent,    \* bound: how often threads spend or appear, and prices change
  MaxSwitches, \* bound: how often the choice changes or a button is pressed
  MaxFailures, \* bound: how many calls fail
  MaxQueue     \* bound: how many signals wait for the window

ViewsAssumption ==
  /\ Threads \subseteq Nat \ {0} /\ Recent \subseteq Threads
  /\ \A t \in Threads : Parent[t] \in Threads \cup {0} /\ Parent[t] < t
  /\ Kinds \cup Switches \subseteq {"tab", "chip", "page", "settings"}
  /\ NoChoice \notin Threads \cup {0, 7, 30}
  /\ {MaxSpent, MaxSwitches, MaxFailures, MaxQueue} \subseteq Nat

VARIABLES
  bb,         \* what bb has: the threads, and the tokens each spent
  server,     \* what the server recorded: tokens, threads it read, prices, the backfill
  signals,    \* the signals on their way to the window, in order
  view,       \* the view
  calls,      \* the loads under way: number, choice, and the answer once there is one
  refreshing, \* the threads a refresh has left to read
  acting,     \* the backfill buttons pressed whose call is under way
  done        \* how much was spent, switched and failed

viewVars == <<bb, server, signals, view, calls, refreshing, acting, done>>

-----------------------------------------------------------------------------
(***************************************************************************)
(* The server.                                                             *)
(***************************************************************************)
AboveOrSelf(t) ==
  LET chain[n \in 0..Cardinality(Threads)] ==
        IF n = 0 THEN t ELSE LET u == chain[n - 1] IN IF u = 0 THEN 0 ELSE Parent[u]
  IN {t} \cup ({chain[n] : n \in DOMAIN chain} \ {0})
TreeIdsOf(t) == {u \in bb.threads : t \in AboveOrSelf(u)}

\* What a view of this kind and choice covers.
Covers(kind, choice) ==
  CASE kind \in {"tab", "chip"} -> TreeIdsOf(choice)
    [] kind = "page" -> IF choice = 7 THEN bb.threads \cap Recent ELSE bb.threads
    [] kind = "settings" -> {}

\* report, chip, top, status: the server's answer as things stand.
AnswerAs(s, kind, choice) ==
  [choice |-> choice,
   tokens |-> [t \in Covers(kind, choice) |-> s.tokens[t]],
   prices |-> s.prices,
   backfill |-> IF kind = "settings" THEN s.backfill ELSE <<>>]

\* A catch-up: a signal names the thread and all above it when something was recorded.
CaughtUp(s, t) == [s EXCEPT !.tokens[t] = bb.spent[t], !.read = @ \cup {t}]
Named(t) == [channel |-> "usage", threads |-> AboveOrSelf(t)]
AllNamed == [channel |-> "usage", threads |-> {}]
Told(queue, s, t) == IF s.tokens[t] # bb.spent[t] THEN Append(queue, Named(t)) ELSE queue
HasRoom == Len(signals) < MaxQueue

-----------------------------------------------------------------------------
(***************************************************************************)
(* The view.                                                               *)
(***************************************************************************)
ChoicesOf(kind) ==
  CASE kind \in {"tab", "chip"} -> bb.threads
    [] kind = "page" -> {7, 30}
    [] kind = "settings" -> {0}

\* touches: the tab goes by the threads of the report it shows, the chip by its own thread.
Touches(signal) ==
  \/ view.kind \in {"page", "settings"} \/ signal.threads = {}
  \/ view.kind = "tab" /\ signal.threads \cap view.tree # {}
  \/ view.kind = "chip" /\ view.choice \in signal.threads

Reloading(v) == [v EXCEPT !.seq = @ + 1, !.loading = TRUE]
CallFor(v, choice) == [n |-> v.seq + 1, choice |-> choice, state |-> "asked", value |-> NoData]

ViewsInit ==
  /\ bb = [threads |-> Threads \ {CHOOSE t \in Threads : \A u \in Threads : u <= t},
           spent |-> [t \in Threads |-> IF t = 1 THEN 1 ELSE 0]]
  /\ server = [tokens |-> [t \in Threads |-> 0], read |-> {}, prices |-> 0,
               backfill |-> [paused |-> FALSE, done |-> 0, failed |-> 0, queued |-> 1]]
  /\ signals = <<>>
  /\ \E kind \in Kinds :
       \E choice \in ChoicesOf(kind) :
         LET opened == [kind |-> kind, choice |-> choice, tree |-> {choice}, data |-> NoData, error |-> FALSE,
                        loading |-> TRUE, seq |-> 0, timer |-> NoChoice]
         IN /\ view = Reloading(opened)
            /\ calls = {CallFor(opened, choice)}
            \* Opening the tab refreshes the tree: catch-up, and a retry of offline machines.
            /\ refreshing = IF kind = "tab" THEN TreeIdsOf(choice) ELSE {}
  /\ acting = {}
  /\ done = [spent |-> 0, switches |-> 0, failures |-> 0]

\* A new choice is a new load, made at once.
Choose ==
  /\ view.kind \in Switches /\ done.switches < MaxSwitches
  /\ \E choice \in ChoicesOf(view.kind) \ {view.choice} :
       /\ view' = Reloading([view EXCEPT !.choice = choice])
       /\ calls' = calls \cup {CallFor(view, choice)}
       /\ refreshing' = IF view.kind = "tab" THEN refreshing \cup TreeIdsOf(choice) ELSE refreshing
  /\ done' = [done EXCEPT !.switches = @ + 1]
  /\ UNCHANGED <<bb, server, signals, acting>>

\* A signal sets the timer, unless it is set; the timer keeps the load of the choice of then.
Heard(signal) == IF view.timer = NoChoice THEN [view EXCEPT !.timer = view.choice] ELSE view
Hear ==
  /\ signals # <<>> /\ signals' = Tail(signals)
  /\ LET signal == Head(signals)
     IN IF signal.channel = "backfill"
        THEN /\ view' = IF view.kind = "settings" THEN Reloading(view) ELSE view
             /\ calls' = IF view.kind = "settings" THEN calls \cup {CallFor(view, view.choice)} ELSE calls
        ELSE /\ view' = IF Touches(signal) THEN Heard(signal) ELSE view
             /\ UNCHANGED calls
  /\ UNCHANGED <<bb, server, refreshing, acting, done>>

TimerFires ==
  /\ view.timer # NoChoice
  /\ view' = Reloading([view EXCEPT !.timer = NoChoice])
  /\ calls' = calls \cup {CallFor(view, view.timer)}
  /\ UNCHANGED <<bb, server, signals, refreshing, acting, done>>

\* Only the newest call's answer is shown; the tab then goes by the threads the report names.
LandsAny(call) == TRUE    \* mutant: every answer is shown
Lands(call) == call.n = view.seq
Land ==
  /\ \E call \in calls :
       /\ call.state # "asked"
       /\ calls' = calls \ {call}
       /\ view' =
            CASE ~Lands(call) -> view
              [] Lands(call) /\ call.state = "failed" -> [view EXCEPT !.error = TRUE, !.loading = FALSE]
              [] OTHER -> [view EXCEPT !.data = call.value, !.error = FALSE, !.loading = FALSE,
                                       !.tree = IF view.kind = "tab" THEN DOMAIN call.value.tokens ELSE @]
  /\ UNCHANGED <<bb, server, signals, refreshing, acting, done>>

-----------------------------------------------------------------------------
(***************************************************************************)
(* The calls.                                                              *)
(***************************************************************************)
\* A report, or the chip, of a thread never read is made after a catch-up.
Serve ==
  /\ \E call \in calls :
       /\ call.state = "asked"
       /\ \/ LET unread == view.kind \in {"tab", "chip"} /\ call.choice \notin server.read
                 now == IF unread THEN CaughtUp(server, call.choice) ELSE server
             IN /\ unread => HasRoom
                /\ server' = now
                /\ signals' = IF unread THEN Told(signals, server, call.choice) ELSE signals
                /\ calls' = (calls \ {call}) \cup
                     {[call EXCEPT !.state = "answered", !.value = AnswerAs(now, view.kind, call.choice)]}
                /\ UNCHANGED done
          \/ /\ done.failures < MaxFailures /\ done' = [done EXCEPT !.failures = @ + 1]
             /\ calls' = (calls \ {call}) \cup {[call EXCEPT !.state = "failed"]}
             /\ UNCHANGED <<server, signals>>
  /\ UNCHANGED <<bb, view, refreshing, acting>>

\* refresh: the threads of the tree, in any order.
Refresh ==
  /\ HasRoom
  /\ \E t \in refreshing :
       /\ refreshing' = refreshing \ {t}
       /\ server' = CaughtUp(server, t) /\ signals' = Told(signals, server, t)
  /\ UNCHANGED <<bb, view, calls, acting, done>>

\* The backfill's buttons; the status is loaded again once the call came back.
Press ==
  /\ view.kind = "settings" /\ view.data # NoData /\ done.switches < MaxSwitches
  /\ \E action \in {IF view.data.backfill.paused THEN "resume" ELSE "pause"}
                   \cup (IF view.data.backfill.failed > 0 THEN {"retry-failed"} ELSE {}) :
       acting' = acting \cup {[action |-> action, made |-> FALSE]}
  /\ done' = [done EXCEPT !.switches = @ + 1]
  /\ UNCHANGED <<bb, server, signals, view, calls, refreshing>>
Acted(b, action) ==
  CASE action = "pause" -> [b EXCEPT !.paused = TRUE]
    [] action = "resume" -> [b EXCEPT !.paused = FALSE]
    [] action = "retry-failed" -> [b EXCEPT !.queued = @ + b.failed, !.failed = 0]
Act ==
  /\ \E a \in acting :
       /\ ~a.made
       /\ server' = [server EXCEPT !.backfill = Acted(@, a.action)]
       /\ acting' = (acting \ {a}) \cup {[a EXCEPT !.made = TRUE]}
  /\ UNCHANGED <<bb, signals, view, calls, refreshing, done>>
ActEnds ==
  /\ \E a \in acting :
       /\ a.made /\ acting' = acting \ {a}
       /\ view' = Reloading(view) /\ calls' = calls \cup {CallFor(view, view.choice)}
  /\ UNCHANGED <<bb, server, signals, refreshing, done>>

-----------------------------------------------------------------------------
(***************************************************************************)
(* Meanwhile.                                                              *)
(***************************************************************************)
Spending == done.spent < MaxSpent /\ done' = [done EXCEPT !.spent = @ + 1]

\* A thread works, and the server catches up then or later.
Spend ==
  /\ Spending
  /\ \E t \in bb.threads : bb' = [bb EXCEPT !.spent[t] = @ + 1]
  /\ UNCHANGED <<server, signals, view, calls, refreshing, acting>>
CatchUp ==
  /\ HasRoom
  /\ \E t \in bb.threads :
       /\ server.tokens[t] # bb.spent[t]
       /\ server' = CaughtUp(server, t) /\ signals' = Told(signals, server, t)
  /\ UNCHANGED <<bb, view, calls, refreshing, acting, done>>
\* thread.created: the server knows the thread, and the signal names it.
Created ==
  /\ Spending /\ HasRoom
  /\ \E t \in Threads \ bb.threads :
       /\ bb' = [bb EXCEPT !.threads = @ \cup {t}]
       /\ server' = [server EXCEPT !.read = @ \cup {t}]
       /\ signals' = Append(signals, Named(t))
  /\ UNCHANGED <<view, calls, refreshing, acting>>
\* Settings or prices change: every view loads again.
PricesChange ==
  /\ Spending /\ HasRoom
  /\ server' = [server EXCEPT !.prices = @ + 1] /\ signals' = Append(signals, AllNamed)
  /\ UNCHANGED <<bb, view, calls, refreshing, acting>>
RunBackfill ==
  /\ HasRoom /\ ~server.backfill.paused /\ server.backfill.queued > 0
  /\ \/ server' = [server EXCEPT !.backfill.queued = @ - 1, !.backfill.done = @ + 1] /\ UNCHANGED done
     \/ /\ done.failures < MaxFailures /\ done' = [done EXCEPT !.failures = @ + 1]
        /\ server' = [server EXCEPT !.backfill.queued = @ - 1, !.backfill.failed = @ + 1]
  /\ signals' = Append(signals, [channel |-> "backfill", threads |-> {}])
  /\ UNCHANGED <<bb, view, calls, refreshing, acting>>

ViewsNext ==
  \/ Choose \/ Hear \/ TimerFires \/ Land
  \/ Serve \/ Refresh \/ Press \/ Act \/ ActEnds
  \/ Spend \/ CatchUp \/ Created \/ PricesChange \/ RunBackfill

ViewsSpec == ViewsInit /\ [][ViewsNext]_viewVars

-----------------------------------------------------------------------------
(***************************************************************************)
(* What must hold.                                                         *)
(***************************************************************************)
AtRest == signals = <<>> /\ view.timer = NoChoice /\ calls = {} /\ acting = {} /\ refreshing = {}

\* When no signal, timer or call is left, a view that shows what is chosen shows the server's
\* figures, whatever came between its calls and their answers (src/ui/common.tsx:36-44, 58-66).
ViewsCatchUp ==
  AtRest /\ ~view.error /\ view.data # NoData /\ view.data.choice = view.choice
  => view.data = AnswerAs(server, view.kind, view.choice)

=============================================================================
