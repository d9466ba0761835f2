------------------------------ MODULE HostScan ------------------------------
(***************************************************************************)
(* A machine's scan step by step (thread-glance host/scan.ts, host/probe.ts*)
(* over host/parse.ts and host/system.ts), while processes start and end   *)
(* and pids come round again.  PortRules takes a scan for two moments, the *)
(* sockets as they were and the identities their pids had since; here the  *)
(* sockets, the processes that hold them, the directories, the start times *)
(* and the owners are each read at a time of their own.                    *)
(*                                                                         *)
(* A socket is known by its inode.  On macOS lsof lists the sockets with   *)
(* the processes that hold them at once, and the directories at once.  The *)
(* worker that scans and its daemon, left out by their pids, are not among *)
(* the processes here.                                                     *)
(***************************************************************************)
EXTENDS PortRules

CONSTANTS
  Pids,
  Inodes,
  Port,        \* the port each inode listens on
  Programs,    \* what a process can be, its pid and start apart
  Containers,  \* what docker ps prints: a compose directory and the ports from a first to a last
  MaxRange,    \* the most ports read of one range
  Paths,       \* the workspaces asked about
  Platforms,
  MaxStarts,   \* bound: processes started
  MaxFaults    \* bound: files and commands that cannot be read

ScanAssumption ==
  /\ Port \in [Inodes -> Nat \ {0}]
  /\ Platforms \subseteq {"linux", "darwin", "win32"}
  /\ MaxRange \in Nat /\ MaxStarts \in Nat /\ MaxFaults \in Nat
  /\ \A program \in Programs : program.kind \in {"user", "bb"} /\ program.inodes \subseteq Inodes /\ program.cwd # NoPath

\* parseDockerPs: the published ports one by one.
Published ==
  UNION {{[port |-> n, cwd |-> c.dir] : n \in {k \in c.first..c.last : k < c.first + MaxRange /\ k \in 1..65535}} : c \in Containers}

VARIABLES
  platform,
  procs,      \* the processes: a program with its pid and its start
  starts, faults,
  were,       \* every process there was since the scan began
  boot,       \* the boot time, kept as it was first read: unread, read or lost
  scan        \* the scan: its stage and what it has read

scanVars == <<platform, procs, starts, faults, were, boot, scan>>

Gone == [gone |-> TRUE, startedAt |-> Unknown, owned |-> FALSE, owner |-> NoThread]
NoScan == [stage |-> "idle", inodes |-> {}, pids |-> {}, held |-> {}, cwd |-> <<>>, id |-> <<>>,
           failed |-> FALSE, listeners |-> {}, since |-> 0]

\* What PortRules knows of a process.
AsProcess(p) ==
  [pid |-> p.pid, startedAt |-> p.startedAt, ports |-> {Port[i] : i \in p.inodes}, cwd |-> p.cwd,
   own |-> p.kind # "user", names |-> p.names]

WithPid(pid) == {p \in procs : p.pid = pid}
ReadableWith(pid) == {p \in WithPid(pid) : p.readable}
Pairs(holders) == {[pid |-> h.pid, port |-> Port[h.inode]] : h \in holders}

ScanInit ==
  /\ platform \in Platforms
  /\ procs = {} /\ starts = 0 /\ faults = 0 /\ were = {}
  /\ boot = "unread" /\ scan = NoScan

-----------------------------------------------------------------------------
(***************************************************************************)
(* The machine.                                                            *)
(***************************************************************************)
Spawn ==
  /\ starts < MaxStarts /\ starts' = starts + 1
  /\ \E program \in Programs, pid \in Pids \ {p.pid : p \in procs} :
       LET p == [pid |-> pid, startedAt |-> starts', inodes |-> program.inodes, cwd |-> program.cwd,
                 names |-> program.names, kind |-> program.kind, readable |-> program.readable]
       IN procs' = procs \cup {p} /\ were' = were \cup {p}
  /\ UNCHANGED <<platform, faults, boot, scan>>
Exit(p) ==
  /\ procs' = procs \ {p}
  /\ UNCHANGED <<platform, starts, faults, were, boot, scan>>

-----------------------------------------------------------------------------
(***************************************************************************)
(* The scan.                                                               *)
(***************************************************************************)
Goes(next) == scan' = next /\ UNCHANGED <<platform, procs, starts, were, boot>>

\* Elsewhere than on Linux and macOS, and for no workspace, nothing is read.
Begin ==
  /\ scan.stage \in {"idle", "done"}
  /\ were' = procs
  /\ scan' = IF platform = "win32" THEN [NoScan EXCEPT !.stage = "done", !.failed = TRUE]
             ELSE IF Paths = {} THEN [NoScan EXCEPT !.stage = "done", !.since = starts] ELSE [NoScan EXCEPT !.stage = "table", !.since = starts]
  /\ UNCHANGED <<platform, procs, starts, faults, boot>>
\* A table or command that cannot be read ends the scan: the machine could not be scanned.
Fail ==
  /\ scan.stage \in {"table", "pids"} /\ faults < MaxFaults /\ faults' = faults + 1
  /\ Goes([NoScan EXCEPT !.stage = "done", !.failed = TRUE])

\* /proc/net/tcp and tcp6, or lsof.
ReadTable ==
  /\ scan.stage = "table"
  /\ LET open == UNION {p.inodes : p \in procs}
     IN Goes(IF platform = "darwin"
             THEN [scan EXCEPT !.stage = "cwds",
                               !.held = UNION {{[inode |-> i, pid |-> p.pid] : i \in p.inodes} : p \in {q \in procs : q.readable}}]
             ELSE [scan EXCEPT !.stage = IF open = {} THEN "docker" ELSE "pids", !.inodes = open])
  /\ UNCHANGED faults
\* The names of /proc.
ReadPids ==
  /\ scan.stage = "pids"
  /\ Goes([scan EXCEPT !.stage = "fds", !.pids = {p.pid : p \in procs}])
  /\ UNCHANGED faults
\* socketHolders: a process's links, in any order of the processes.  Once every
\* socket has a holder, the processes not begun are left out.
AllHeld == scan.inodes \subseteq {h.inode : h \in scan.held}
ReadFds(pid) ==
  /\ scan.stage = "fds" /\ pid \in scan.pids
  /\ \/ Goes([scan EXCEPT !.pids = @ \ {pid},
                          !.held = @ \cup UNION {{[inode |-> i, pid |-> pid] : i \in p.inodes \cap scan.inodes} : p \in ReadableWith(pid)}])
     \/ AllHeld /\ Goes([scan EXCEPT !.pids = @ \ {pid}])
  /\ UNCHANGED faults
FdsRead ==
  /\ scan.stage = "fds" /\ scan.pids = {}
  /\ Goes([scan EXCEPT !.stage = "cwds"])
  /\ UNCHANGED faults
PidsHeld == {h.pid : h \in scan.held}
\* cwds: the directories of the processes found.
ReadCwd(pid) ==
  /\ scan.stage = "cwds" /\ pid \in PidsHeld \ DOMAIN scan.cwd
  /\ LET read(q) == IF ReadableWith(q) = {} THEN NoPath ELSE (CHOOSE p \in ReadableWith(q) : TRUE).cwd
         those == IF platform = "darwin" THEN PidsHeld ELSE {pid}
     IN Goes([scan EXCEPT !.cwd = [q \in those \cup DOMAIN scan.cwd |-> IF q \in those THEN read(q) ELSE scan.cwd[q]]])
  /\ UNCHANGED faults
Inside(pid) == scan.cwd[pid] # NoPath /\ MatchWorkspace(scan.cwd[pid], Paths) # NoPath
CwdsRead ==
  /\ scan.stage = "cwds" /\ PidsHeld \subseteq DOMAIN scan.cwd
  /\ Goes([scan EXCEPT !.stage = "identify", !.pids = {pid \in PidsHeld : Inside(pid)}])
  /\ UNCHANGED faults

\* identify: the start and the command line.  The boot time, which Linux starts are
\* counted from, is read once: when that read fails it stays lost.
Identify(pid) ==
  /\ scan.stage = "identify" /\ pid \in scan.pids \ DOMAIN scan.id
  /\ \E b \in {"read", "lost"} :
       /\ boot # "unread" => b = boot
       /\ boot' = b /\ faults' = faults + IF boot = "unread" /\ b = "lost" THEN 1 ELSE 0
       /\ platform = "darwin" => b = "read"
       /\ scan' = [scan EXCEPT !.id = [q \in {pid} \cup DOMAIN scan.id |->
            IF q # pid THEN scan.id[q]
            ELSE IF b = "lost" \/ WithPid(pid) = {} THEN Gone
            ELSE LET p == CHOOSE p \in WithPid(pid) : TRUE
                 IN IF p.kind = "bb" THEN Gone
                    ELSE [gone |-> FALSE, startedAt |-> p.startedAt, owned |-> FALSE, owner |-> NoThread]]]
  /\ faults' <= MaxFaults
  /\ UNCHANGED <<platform, procs, starts, were>>
\* ownerOf: the environment of the process that has the pid by then.
ReadOwner(pid) ==
  /\ scan.stage = "identify" /\ pid \in DOMAIN scan.id
  /\ ~scan.id[pid].gone /\ ~scan.id[pid].owned
  /\ LET now == ReadableWith(pid)
     IN Goes([scan EXCEPT !.id[pid].owned = TRUE,
                          !.id[pid].owner = IF now = {} THEN NoThread ELSE OwnerOf(CHOOSE p \in now : TRUE)])
  /\ UNCHANGED faults

\* Each socket once per process, with its identity, then what only Docker publishes.
FoundByPid(held) ==  \* mutant: one socket kept for each process
  {h \in Pairs(held) : \A other \in Pairs(held) : other.pid = h.pid => h.port <= other.port}
Found(held) == Pairs(held)
Listeners ==
  {[port |-> f.port, pid |-> f.pid, startedAt |-> scan.id[f.pid].startedAt,
    path |-> MatchWorkspace(scan.cwd[f.pid], Paths), owner |-> scan.id[f.pid].owner] :
      f \in {g \in Found(scan.held) : g.pid \in DOMAIN scan.id /\ ~scan.id[g.pid].gone}}
DockerOnly(listeners, published) ==
  {[port |-> c.port, pid |-> Unknown, startedAt |-> Unknown, path |-> MatchWorkspace(c.cwd, Paths), owner |-> NoThread] :
      c \in {d \in published : MatchWorkspace(d.cwd, Paths) # NoPath /\ d.port \notin {l.port : l \in listeners}}}
IdentitiesRead ==
  /\ scan.stage = "identify" /\ scan.pids \subseteq DOMAIN scan.id
  /\ \A pid \in scan.pids : scan.id[pid].gone \/ scan.id[pid].owned
  /\ Goes([scan EXCEPT !.stage = "docker", !.listeners = Listeners])
  /\ UNCHANGED faults
\* docker ps, or nothing when it fails.
ReadDocker ==
  /\ scan.stage = "docker"
  /\ \/ /\ Goes([scan EXCEPT !.stage = "done", !.listeners = @ \cup DockerOnly(@, Published)])
        /\ faults' = faults
     \/ /\ faults < MaxFaults /\ faults' = faults + 1
        /\ Goes([scan EXCEPT !.stage = "done"])

ScanNext ==
  \/ Spawn \/ Begin \/ Fail \/ ReadTable \/ ReadPids \/ FdsRead \/ CwdsRead \/ IdentitiesRead \/ ReadDocker
  \/ \E p \in procs : Exit(p)
  \/ \E pid \in Pids : ReadFds(pid) \/ ReadCwd(pid) \/ Identify(pid) \/ ReadOwner(pid)

ScanSpec == ScanInit /\ [][ScanNext]_scanVars

-----------------------------------------------------------------------------
Done == scan.stage = "done" /\ ~scan.failed
Shared(inode) == Cardinality({p \in were : inode \in p.inodes}) > 1

\* What PortRules takes a scan to be: when the machine stands still and everything can be
\* read, the answer is the one ScanListeners gives, sockets that two processes hold apart.
ScanIsWhatItIsTakenFor ==
  Done /\ were = procs /\ scan.since = starts /\ faults = 0 /\ (\A p \in procs : p.readable) /\ (\A i \in Inodes : ~Shared(i)) =>
    LET processes == {AsProcess(p) : p \in procs}
    IN scan.listeners = ScanListeners(processes, processes, Published, Paths)
=============================================================================
