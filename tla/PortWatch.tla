----------------------------- MODULE PortWatch -----------------------------
(***************************************************************************)
(* The ports snapshot of the thread-glance server                          *)
(* (server/ports/engine.ts, server/ports/environments.ts,                  *)
(* server/ports/hold-back.ts): one cycle at a time reads the threads, the  *)
(* places of their environments and every machine, and every reader shares *)
(* it; a machine that fails is left alone for a while.  The automatic      *)
(* settle reads from it which threads serve a port.                        *)
(*                                                                         *)
(* A thread keeps its environment, and an environment its place.  Ports    *)
(* open and close, and bb and the machines fail, at any time.              *)
(***************************************************************************)
EXTENDS PortRules

CONSTANTS
  EnvOf,          \* each thread's environment
  Listed,         \* the threads listed from the start
  Windows,        \* the machines with nothing to scan
  Callers,        \* who reads the snapshot
  SnapshotTtl, FreshTtl, EnvironmentTtl,   \* in the model's time
  BackoffFirst, BackoffMax,
  MaxTime,        \* bound: the clock
  MaxServed,      \* bound: processes that start
  MaxCalls,       \* bound: reads asked for
  MaxFaults       \* bound: answers bb and the machines fail to give

WatchAssumption == {SnapshotTtl, FreshTtl, EnvironmentTtl, BackoffFirst, BackoffMax, MaxTime, MaxServed, MaxCalls, MaxFaults} \subseteq Nat

VARIABLES
  now,        \* the clock
  listed,     \* the threads bb lists as not archived, hidden ones included
  procs,      \* the processes of each machine
  view,       \* what the last cycle learned
  readAt,     \* when the last cycle began
  cycle,      \* the cycle in flight
  backoffs,   \* each machine's failures in a row, and when it is asked again
  cached,     \* when each environment's place was read
  calls,      \* each caller's read: what it waits for
  begun, asked, served, faults,
  \* history
  since       \* when each thread came to be listed

watchVars == <<now, listed, procs, view, readAt, cycle, backoffs, cached, calls, begun, asked, served, faults, since>>

Hosts == {Place[e].host : e \in {e \in Envs : Place[e] # NoPlace}}
NoCycle == [step |-> "none"]
NoCall == [kind |-> "none", step |-> "none", after |-> 0]
Never == -100
InFlight == cycle # NoCycle
Known(threads) == [t \in threads |-> EnvOf[t]]

WatchInit ==
  /\ now = 0
  /\ listed = Listed
  /\ procs = [h \in Hosts |-> {}]
  /\ view = [number |-> 0, at |-> Never, environments |-> [e \in Envs |-> {}], located |-> {}, unresolved |-> {},
             hosts |-> [h \in Hosts |-> "none"], complete |-> FALSE]
  /\ readAt = Never /\ cycle = NoCycle
  /\ backoffs = [h \in Hosts |-> [failures |-> 0, retryAt |-> 0]]
  /\ cached = [e \in Envs |-> Never]
  /\ calls = [c \in Callers |-> NoCall]
  /\ begun = 0 /\ asked = 0 /\ served = 0 /\ faults = 0
  /\ since = [t \in Threads |-> 0]

-----------------------------------------------------------------------------
(***************************************************************************)
(* The machines and bb.                                                    *)
(***************************************************************************)
engine == <<view, readAt, cycle, backoffs, cached, calls, begun, asked, faults>>

Tick == now < MaxTime /\ now' = now + 1 /\ UNCHANGED <<listed, procs, engine, served, since>>
Serve(t) ==
  /\ EnvOf[t] # NoEnv /\ Place[EnvOf[t]] # NoPlace /\ Place[EnvOf[t]].host \notin Windows
  /\ served < MaxServed /\ served' = served + 1
  /\ \E names \in {{t}, {}} :
       procs' = [procs EXCEPT ![Place[EnvOf[t]].host] = @ \cup
                   {[pid |-> served', startedAt |-> now, ports |-> {1}, cwd |-> Place[EnvOf[t]].path, names |-> names, own |-> FALSE]}]
  /\ UNCHANGED <<now, listed, engine, since>>
Exit(h) ==
  /\ \E p \in procs[h] : procs' = [procs EXCEPT ![h] = @ \ {p}]
  /\ UNCHANGED <<now, listed, engine, served, since>>
Appear(t) ==
  /\ t \notin listed
  /\ listed' = listed \cup {t}
  /\ since' = [since EXCEPT ![t] = now]
  /\ UNCHANGED <<now, procs, engine, served>>

-----------------------------------------------------------------------------
(***************************************************************************)
(* The cycle.                                                              *)
(***************************************************************************)
\* start: joins the cycle in flight, or begins one.
Start ==
  IF InFlight THEN UNCHANGED <<cycle, readAt, begun>>
  ELSE /\ begun' = begun + 1
       /\ readAt' = now
       /\ cycle' = [step |-> "threads", at |-> now]

End(next) ==
  /\ view' = [next EXCEPT !.number = begun]
  /\ cycle' = NoCycle
\* keepLast: nothing new was learned.
KeepLast(hosts, complete, located, unresolved) ==
  End([view EXCEPT !.hosts = hosts, !.complete = complete, !.located = located, !.unresolved = unresolved])
Fault == faults < MaxFaults /\ faults' = faults + 1
BbFails == Fault /\ KeepLast([h \in Hosts |-> "none"], FALSE, view.located, {})

ReadThreads ==
  /\ cycle.step = "threads"
  /\ \/ cycle' = [step |-> "places", at |-> cycle.at, threads |-> listed] /\ UNCHANGED <<view, faults>>
     \/ BbFails
  /\ UNCHANGED <<now, listed, procs, readAt, backoffs, cached, calls, begun, asked, served, since>>

\* resolve: the places kept for a while, and the others as far as bb answers for them.
Resolve ==
  /\ cycle.step = "places"
  /\ LET wanted == {EnvOf[t] : t \in cycle.threads} \ {NoEnv}
         stale == {e \in wanted : now - cached[e] >= EnvironmentTtl}
     IN \E failed \in SUBSET stale :
          IF stale # {} /\ failed = stale THEN BbFails /\ cached' = cached
          ELSE /\ cached' = [e \in Envs |-> IF e \in stale \ failed THEN now ELSE cached[e]]
               /\ cycle' = [step |-> "hosts", at |-> cycle.at, threads |-> cycle.threads,
                            located |-> {e \in wanted \ failed : Place[e] # NoPlace}, unresolved |-> failed,
                            replies |-> [h \in Hosts |-> {}], status |-> [h \in Hosts |-> "none"]]
               /\ view' = view /\ IF failed = {} THEN faults' = faults ELSE Fault
  /\ UNCHANGED <<now, listed, procs, readAt, backoffs, calls, begun, asked, served, since>>

Asked == {Place[e].host : e \in cycle.located}
\* scanHost: a machine backing off counts as failed; so does one that does not answer.
BackoffDelay(failures) ==
  LET delay == BackoffFirst * 2 ^ ((IF failures < 5 THEN failures ELSE 5) - 1) IN IF delay < BackoffMax THEN delay ELSE BackoffMax
ScanHost(h) ==
  /\ cycle.step = "hosts" /\ h \in Asked /\ cycle.status[h] = "none"
  /\ LET paths == {Place[e].path : e \in {f \in cycle.located : Place[f].host = h}}
         failure == [failures |-> backoffs[h].failures + 1, retryAt |-> cycle.at + BackoffDelay(backoffs[h].failures + 1)]
     IN \/ /\ backoffs[h].retryAt > cycle.at
           /\ cycle' = [cycle EXCEPT !.status[h] = "failed"] /\ UNCHANGED <<backoffs, faults>>
        \/ /\ backoffs[h].retryAt <= cycle.at
           /\ \/ /\ h \notin Windows
                 /\ \E scanned \in {some \in SUBSET paths : Cardinality(some) = Min({Cardinality(paths), MaxWorkspaces})} :
                      cycle' = [cycle EXCEPT !.status[h] = "ok",
                                             !.replies[h] = ScanListeners(procs[h], procs[h], {}, scanned)]
                 /\ backoffs' = [backoffs EXCEPT ![h] = [failures |-> 0, retryAt |-> 0]] /\ faults' = faults
              \/ /\ h \in Windows
                 /\ cycle' = [cycle EXCEPT !.status[h] = "unsupported"]
                 /\ backoffs' = [backoffs EXCEPT ![h] = [failures |-> 0, retryAt |-> 0]] /\ faults' = faults
              \/ /\ cycle' = [cycle EXCEPT !.status[h] = "failed"]
                 /\ backoffs' = [backoffs EXCEPT ![h] = failure] /\ Fault
  /\ UNCHANGED <<now, listed, procs, view, readAt, cached, calls, begun, asked, served, since>>

EndCycle ==
  /\ cycle.step = "hosts" /\ \A h \in Asked : cycle.status[h] # "none"
  /\ IF Asked # {} /\ \A h \in Asked : cycle.status[h] = "failed"
     THEN KeepLast(cycle.status, TRUE, cycle.located, cycle.unresolved)
     ELSE LET fresh == SnapshotEnvironments(cycle.located, cycle.replies, Known(cycle.threads))
          IN End([number |-> 0, at |-> cycle.at, located |-> cycle.located, unresolved |-> cycle.unresolved,
                  hosts |-> cycle.status, complete |-> TRUE,
                  environments |-> [e \in Envs |-> IF e \in cycle.unresolved THEN view.environments[e] ELSE fresh[e]]])
  /\ UNCHANGED <<now, listed, procs, readAt, backoffs, cached, calls, begun, asked, served, faults, since>>

-----------------------------------------------------------------------------
(***************************************************************************)
(* The readers.                                                            *)
(***************************************************************************)
world == <<now, listed, procs, served, faults, since>>
AskJoining(c, kind) ==    \* mutant: a refresh takes the cycle in flight for its own
  /\ calls[c] = NoCall /\ asked < MaxCalls /\ asked' = asked + 1
  /\ calls' = [calls EXCEPT ![c] = [kind |-> kind, after |-> begun, step |-> "cycle"]]
Ask(c, kind) ==
  /\ calls[c] = NoCall /\ asked < MaxCalls /\ asked' = asked + 1
  /\ calls' = [calls EXCEPT ![c] = [kind |-> kind, after |-> begun,
                                    step |-> IF kind = "refresh" /\ InFlight THEN "first" ELSE "cycle"]]
\* read: the snapshot as it stands when it is young enough.
Read(c, kind) ==
  /\ InFlight \/ now - readAt > (IF kind = "fresh" THEN FreshTtl ELSE SnapshotTtl)
  /\ Ask(c, kind)
  /\ Start
  /\ UNCHANGED <<world, view, backoffs, cached>>
\* refresh: after any cycle in flight.
Refresh(c) ==
  /\ Ask(c, "refresh")
  /\ IF InFlight THEN UNCHANGED <<cycle, readAt, begun>> ELSE Start
  /\ UNCHANGED <<world, view, backoffs, cached>>
\* The cycle a refresh waited for has ended: it begins the next, or joins one begun since.
RefreshGoesOn(c) ==
  /\ calls[c].step = "first" /\ view.number >= calls[c].after
  /\ Start
  /\ calls' = [calls EXCEPT ![c].step = "cycle"]
  /\ UNCHANGED <<world, view, backoffs, cached, asked>>
\* The cycle a caller waits for has ended.
Answer(c) ==
  /\ calls[c].step = "cycle" /\ ~InFlight /\ view.number = begun
  /\ calls' = [calls EXCEPT ![c] = NoCall]
  /\ UNCHANGED <<world, view, readAt, cycle, backoffs, cached, begun, asked>>

WatchNext ==
  \/ Tick \/ ReadThreads \/ Resolve \/ EndCycle
  \/ \E t \in Threads : Serve(t) \/ Appear(t)
  \/ \E h \in Hosts : Exit(h) \/ ScanHost(h)
  \/ \E c \in Callers : Read(c, "fresh") \/ Read(c, "normal") \/ Refresh(c) \/ RefreshGoesOn(c) \/ Answer(c)

WatchSpec == WatchInit /\ [][WatchNext]_watchVars

-----------------------------------------------------------------------------
\* Whatever failed meanwhile, a thread that has served a port since before the snapshot's
\* read began is among those the automatic settle leaves alone.
Serves(t) ==
  LET e == EnvOf[t]
  IN e # NoEnv /\ Place[e] # NoPlace /\ \E p \in procs[Place[e].host] :
       p.cwd = Place[e].path /\ p.names = {t} /\ p.startedAt < readAt
ServingIsHeld ==
  ~InFlight => \A t \in listed : Serves(t) /\ since[t] < readAt => t \in HoldBackThreads(view, Known(listed))

\* A refresh is answered with a cycle that began after it was asked for.
RefreshIsNew ==
  \A c \in Callers : calls[c].kind = "refresh" /\ calls'[c] = NoCall => view.number > calls[c].after
=============================================================================
