----------------------------- MODULE PortRules -----------------------------
(***************************************************************************)
(* What thread-glance knows of the ports its threads serve: what a machine *)
(* lists (host/scan.ts, host/probe.ts, host/parse.ts, host/workspaces.ts), *)
(* the snapshot built of several machines' answers and the rules that read *)
(* it (server/ports/rules.ts, server/ports/clean-rules.ts).                *)
(*                                                                         *)
(* A process has a pid, a start time, the ports it listens on, the path it *)
(* works at, and the threads its environment names.  The text that says so *)
(* on Linux and macOS is left out, and so are addresses and names.  A      *)
(* machine that cannot be scanned at all (Windows) has no processes here.  *)
(***************************************************************************)
EXTENDS Integers, Sequences, FiniteSets, SequencesExt, FiniteSetsExt

CONSTANTS
  Threads,
  Envs,       \* bb's environments
  NoEnv,      \* the environment of a thread that has none
  NoThread,   \* no owner
  NoPath,     \* no workspace
  NoPlace,    \* no machine and path
  Above,      \* the workspace paths a working directory is inside, longest first
  Place,      \* each environment's machine and path; NoPlace for one without
  MaxWorkspaces   \* the most paths one scan asks about

RulesAssumption == MaxWorkspaces \in Nat /\ NoEnv \notin Envs /\ NoThread \notin Threads

Unknown == 0    \* the pid and the start of a port only Docker reports

-----------------------------------------------------------------------------
(***************************************************************************)
(* The machine.                                                            *)
(***************************************************************************)
\* matchWorkspace: the longest of the paths asked about.
MatchWorkspace(cwd, paths) ==
  LET inside == SelectSeq(Above[cwd], LAMBDA p : p \in paths)
  IN IF inside = <<>> THEN NoPath ELSE Head(inside)

\* listening and cwds: the sockets inside the workspaces, bb's own processes apart.
Sockets(procs, paths) ==
  {s \in [proc : procs, port : UNION {p.ports : p \in procs}] :
     s.port \in s.proc.ports /\ ~s.proc.own /\ MatchWorkspace(s.proc.cwd, paths) # NoPath}

\* identify and ownerOf: the process that has the pid now, and the one thread it names.
OwnerOf(proc) == IF Cardinality(proc.names) = 1 THEN CHOOSE t \in proc.names : TRUE ELSE NoThread

\* scanListeners: the sockets as they were, each with the identity its pid has since.
ScanListeners(then, now, containers, paths) ==
  LET listed ==
        UNION {{[port |-> s.port, pid |-> s.proc.pid, startedAt |-> p.startedAt,
                 path |-> MatchWorkspace(s.proc.cwd, paths), owner |-> OwnerOf(p)] :
                  p \in {q \in now : q.pid = s.proc.pid /\ ~q.own}} : s \in Sockets(then, paths)}
      published ==
        {[port |-> c.port, pid |-> Unknown, startedAt |-> Unknown,
          path |-> MatchWorkspace(c.cwd, paths), owner |-> NoThread] :
           c \in {d \in containers : MatchWorkspace(d.cwd, paths) # NoPath /\ d.port \notin {l.port : l \in listed}}}
  IN listed \cup published

\* signalListener's checks: the port, pid and place of a socket, then the identity.
HoldsPort(procs, target, paths) ==
  \E p \in procs : p.pid = target.pid /\ target.port \in p.ports /\ ~p.own /\ MatchWorkspace(p.cwd, paths) # NoPath
IsTarget(procs, target) == \E p \in procs : p.pid = target.pid /\ p.startedAt = target.startedAt

-----------------------------------------------------------------------------
(***************************************************************************)
(* The snapshot.  envOf is each non-archived thread's environment, by      *)
(* thread.                                                                 *)
(***************************************************************************)
OwnerInEnvironment(owner, e, envOf) == IF owner \in DOMAIN envOf /\ envOf[owner] = e THEN owner ELSE NoThread

\* snapshotEnvironments: for each environment on a machine that answered, what its path serves.
SnapshotEnvironments(located, scans, envOf) ==
  [e \in Envs |->
     IF e \in located /\ Place[e].host \in DOMAIN scans
     THEN {[port |-> l.port, pid |-> l.pid, startedAt |-> l.startedAt, owner |-> OwnerInEnvironment(l.owner, e, envOf)] :
             l \in {k \in scans[Place[e].host] : k.path = Place[e].path}}
     ELSE {}]

OwnedListener(listeners, t, target) ==
  \E l \in listeners : l.owner = t /\ l.port = target.port /\ l.pid = target.pid /\ l.startedAt = target.startedAt
ListedListener(listeners, target) ==
  \E l \in listeners : l.port = target.port /\ l.pid = target.pid /\ l.startedAt = target.startedAt
OwnedPortTargets(listeners, t) ==
  {[port |-> l.port, pid |-> l.pid, startedAt |-> l.startedAt] : l \in {k \in listeners : k.owner = t /\ k.pid # Unknown}}

\* isScannable: the environment's machine answered the last read, or it has no path.
ScannableAny(view, e) ==    \* mutant: an environment bb could not say the place of is taken to have none
  view.complete /\ (e \in view.located => view.hosts[Place[e].host] \in {"ok", "unsupported"})
Scannable(view, e) ==
  /\ view.complete /\ e \notin view.unresolved
  /\ e \in view.located => view.hosts[Place[e].host] \in {"ok", "unsupported"}

\* holdBackThreads: those that serve a port, and those whose machine could not be scanned.
HoldBackThreads(view, envOf) ==
  {t \in {u \in DOMAIN envOf : envOf[u] # NoEnv} :
     LET e == envOf[t]
         alone == {u \in DOMAIN envOf : envOf[u] = e} = {t}
     IN ~Scannable(view, e) \/ \E l \in view.environments[e] : l.owner = t \/ (l.owner = NoThread /\ alone)}

\* distinctProcesses: one target for each process, its first port.
DistinctProcesses(targets) ==
  {t \in targets : \A u \in targets : u.pid = t.pid /\ u.startedAt = t.startedAt => t.port <= u.port}

\* omitSharedWorkspaces: the candidates whose environment and path no failing thread has.
OmitSameEnvironment(candidates, failing, located, envOf) ==    \* mutant: paths are not compared
  {t \in candidates : envOf[t] \in located /\ \A u \in failing : envOf[u] # envOf[t]}
OmitSharedWorkspaces(candidates, failing, located, envOf) ==
  {t \in candidates :
     envOf[t] \in located /\
     \A u \in failing : envOf[u] # envOf[t] /\ (envOf[u] \in located => Place[envOf[u]] # Place[envOf[t]])}
=============================================================================
