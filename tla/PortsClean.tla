---------------------------- MODULE PortsClean ----------------------------
(***************************************************************************)
(* The calls of the thread-glance server that stop processes and close     *)
(* terminals (server/ports/clean.ts, preview-store.ts, actions.ts, and     *)
(* signalListener in host/scan.ts): Clean, Close on the settle prompt, and *)
(* Stop on one port.  Threads wake and settle, processes and terminals     *)
(* come and go, and a pid is used again, between any two steps.            *)
(*                                                                         *)
(* There is one machine, where every environment is.  A thread is settled, *)
(* busy with its row still settled, or open; hidden ones never pass.  The  *)
(* threads of a preview, their terminals and their ports are taken in any  *)
(* order.  What a process is when a host reads its identity it is still    *)
(* when the signal leaves.  The ports engine is PortWatch's: here a read   *)
(* takes the snapshot while it is young, or a new one that may have failed.*)
(***************************************************************************)
EXTENDS PortRules, TLAPS

CONSTANTS
  EnvOf,        \* each thread's environment
  Hidden,       \* the hidden threads
  Host,         \* the machine
  Pids, Terminals, Terminal,   \* Terminal: the thread each terminal belongs to
  Clients,      \* who calls
  Kinds,        \* bound: the calls they make
  MaxCalls, MaxStarts, MaxTurns   \* bounds: previews, Closes and Stops; processes and threads' changes

VARIABLES
  status,     \* each thread
  procs, live,   \* the processes, and the live terminals
  view, young,   \* the engine's snapshot, and whether it is at most two seconds old
  stored,     \* the previews kept, by token
  job,        \* each client's call
  starts, turns, asked,
  \* history
  sent,       \* each signal sent and terminal closed: [by, token, thread, what, calm]
  shown,      \* what each preview listed, by token
  known       \* the owned ports any snapshot listed, which a window may still hold

cleanVars == <<status, procs, live, view, young, stored, job, starts, turns, asked, sent, shown, known>>
world == <<status, procs, live, starts, turns>>

NoView == [environments |-> [e \in Envs |-> {}], located |-> {}, unresolved |-> {},
           hosts |-> [h \in {Host} |-> "none"], complete |-> FALSE]
Nobody == [thread |-> NoThread, terminals |-> {}, ports |-> {}]
NoTarget == [port |-> 0, pid |-> Unknown, startedAt |-> Unknown]
NoJob == [kind |-> "none", step |-> "none", scope |-> {}, token |-> 0, todo |-> {}, entry |-> Nobody,
          target |-> NoTarget, calm |-> FALSE]
Cleanable(t) == t \notin Hidden /\ status[t] = "settled"    \* isCleanable
StillSettled(t) == status[t] \in {"settled", "busy"}         \* stillSettled
\* The truth: every thread at t's place passes.
Calm(t) == \A u \in Threads : Place[EnvOf[u]] = Place[EnvOf[t]] => Cleanable(u)

CleanInit ==
  /\ status \in [Threads -> {"settled", "open"}]
  /\ procs = {} /\ live = Terminals
  /\ view = NoView
  /\ young = FALSE /\ stored = <<>>
  /\ job = [c \in Clients |-> NoJob]
  /\ starts = 0 /\ turns = 0 /\ asked = 0
  /\ sent = <<>> /\ shown = <<>> /\ known = {}

-----------------------------------------------------------------------------
calls == <<view, young, stored, job, asked, sent, shown, known>>

\* A process starts, with a pid no process has; it is later than any that had the pid.
Begin(t, pid) ==
  /\ starts < MaxStarts /\ starts' = starts + 1
  /\ \A p \in procs : p.pid # pid
  /\ procs' = procs \cup {[pid |-> pid, startedAt |-> starts', ports |-> {1}, cwd |-> Place[EnvOf[t]].path, names |-> {t}, own |-> FALSE]}
  /\ UNCHANGED <<status, live, turns, calls>>
Exit(p) == procs' = procs \ {p} /\ UNCHANGED <<status, live, starts, turns, calls>>
Turn(t) ==
  /\ turns < MaxTurns /\ turns' = turns + 1
  /\ \E s \in {"settled", "busy", "open"} \ {status[t]} : status' = [status EXCEPT ![t] = s]
  /\ UNCHANGED <<procs, live, starts, calls>>
Age == young /\ young' = FALSE /\ UNCHANGED <<world, view, stored, job, asked, sent, shown, known>>
\* Two minutes pass for a preview.
Expire(token) ==
  /\ token \in DOMAIN stored /\ ~stored[token].expired
  /\ stored' = [stored EXCEPT ![token].expired = TRUE]
  /\ UNCHANGED <<world, view, young, job, asked, sent, shown, known>>
\* A restart ends every call; the previews are in the database.
Restart ==
  /\ \E c \in Clients : job[c] # NoJob
  /\ job' = [c \in Clients |-> NoJob]
  /\ young' = FALSE /\ view' = NoView
  /\ UNCHANGED <<world, stored, asked, sent, shown, known>>

-----------------------------------------------------------------------------
(***************************************************************************)
(* What every call uses.                                                   *)
(***************************************************************************)
At(c, kind, step) == job[c].kind = kind /\ job[c].step = step
Go(c, next) == job' = [job EXCEPT ![c] = next]
Step(c, step) == Go(c, [job[c] EXCEPT !.step = step])
Done(c) == job' = [job EXCEPT ![c] = NoJob]

\* eligibleThreads: bb may not say where some environments are.
Eligible(located) ==
  LET failing == {t \in Threads : ~Cleanable(t)} IN OmitSharedWorkspaces(Threads \ failing, failing, located, EnvOf)
Locations == {Envs, {}}

\* engine.read({ fresh: true }), and an environment's machine failing to answer.
Scanned(ok) ==
  [environments |-> IF ok THEN SnapshotEnvironments(Envs, [h \in {Host} |-> ScanListeners(procs, procs, {}, {Place[e].path : e \in Envs})], EnvOf)
                          ELSE view.environments,
   located |-> Envs, unresolved |-> {}, hosts |-> [h \in {Host} |-> IF ok THEN "ok" ELSE "failed"], complete |-> TRUE]
ReadView ==
  \/ young /\ UNCHANGED <<view, young, known>>
  \/ \E ok \in BOOLEAN :
       /\ ~young /\ view' = Scanned(ok) /\ young' = TRUE
       /\ known' = known \cup UNION {{t} \X OwnedPortTargets(view'.environments[EnvOf[t]], t) : t \in Threads}

-----------------------------------------------------------------------------
(***************************************************************************)
(* The ports call, and Clean's preview.                                    *)
(***************************************************************************)
Poll == ~young /\ ReadView /\ UNCHANGED <<world, stored, job, asked, sent, shown>>
Preview(c) ==
  /\ job[c] = NoJob /\ asked < MaxCalls /\ asked' = asked + 1
  /\ \E located \in Locations : Go(c, [NoJob EXCEPT !.kind = "preview", !.step = "read", !.scope = Eligible(located)])
  /\ UNCHANGED <<world, view, young, stored, sent, shown, known>>
PreviewRead(c) ==
  /\ At(c, "preview", "read")
  /\ ReadView
  /\ Step(c, "store")
  /\ UNCHANGED <<world, stored, asked, sent, shown>>
\* The threads with something to close, under a new token.
PreviewStore(c) ==
  /\ At(c, "preview", "store")
  /\ \E listing \in {{}, job[c].scope} :    \* whose terminals could be listed
       LET ports(t) == IF Scannable(view, EnvOf[t]) THEN OwnedPortTargets(view.environments[EnvOf[t]], t) ELSE {}
           terminals(t) == IF t \in listing THEN {x \in live : Terminal[x] = t} ELSE {}
           found == {[thread |-> t, terminals |-> terminals(t), ports |-> ports(t)] :
                       t \in {u \in job[c].scope : ports(u) # {} \/ terminals(u) # {}}}
           token == Len(shown) + 1
       IN /\ stored' = [k \in {token} \cup {j \in DOMAIN stored : ~stored[j].expired} |->
                          IF k = token THEN [threads |-> found, expired |-> FALSE] ELSE stored[k]]
          /\ shown' = Append(shown, found)
  /\ Done(c)
  /\ UNCHANGED <<world, view, young, asked, sent, known>>

-----------------------------------------------------------------------------
(***************************************************************************)
(* Clean's run.                                                            *)
(***************************************************************************)
\* The run goes on to its next thread.
NextEntry(c) == Go(c, [job[c] EXCEPT !.step = "next", !.entry = Nobody])
\* take: the token is spent either way.
Run(c, token) ==
  /\ job[c] = NoJob
  /\ token \in DOMAIN stored
  /\ stored' = [k \in DOMAIN stored \ {token} |-> stored[k]]
  /\ IF stored[token].expired THEN job' = job
     ELSE Go(c, [NoJob EXCEPT !.kind = "clean", !.step = "next", !.token = token, !.todo = stored[token].threads])
  /\ UNCHANGED <<world, view, young, asked, sent, shown, known>>
RunNext(c) ==
  /\ At(c, "clean", "next")
  /\ \/ \E x \in job[c].todo : Go(c, [job[c] EXCEPT !.step = "each", !.todo = @ \ {x}, !.entry = x])
     \/ job[c].todo = {} /\ Done(c)
  /\ UNCHANGED <<world, view, young, stored, asked, sent, shown, known>>
\* stillClean, before each terminal and each process.
Check(c) ==
  /\ At(c, "clean", "each") \/ At(c, "clean", "checkPort")
  /\ \E located \in Locations :
       IF job[c].entry.thread \in Eligible(located)
       THEN /\ job[c].step = "each" => job[c].entry.terminals # {}
            /\ Go(c, [job[c] EXCEPT !.step = IF @ = "each" THEN "close" ELSE "signal", !.calm = Calm(job[c].entry.thread)])
       ELSE NextEntry(c)
  /\ UNCHANGED <<world, view, young, stored, asked, sent, shown, known>>
CloseTerminal(c) ==
  /\ At(c, "clean", "close")
  /\ \E x \in job[c].entry.terminals :
       /\ Go(c, [job[c] EXCEPT !.step = "each", !.entry.terminals = @ \ {x}, !.calm = FALSE])
       /\ \/ /\ x \in live /\ live' = live \ {x}
             /\ sent' = Append(sent, [by |-> "clean", token |-> job[c].token, thread |-> job[c].entry.thread, what |-> <<"terminal", x, 0>>, calm |-> job[c].calm])
          \/ UNCHANGED <<live, sent>>    \* it is gone, or could not be closed
  /\ UNCHANGED <<status, procs, starts, turns, view, young, stored, asked, shown, known>>
RunRead(c) ==
  /\ At(c, "clean", "each") /\ job[c].entry.terminals = {}
  /\ IF job[c].entry.ports = {} THEN NextEntry(c) /\ UNCHANGED <<view, young, known>>
     ELSE /\ ReadView
          /\ IF Scannable(view', EnvOf[job[c].entry.thread])
             THEN Go(c, [job[c] EXCEPT !.step = "port", !.entry.ports =
                    {x \in DistinctProcesses(@) : OwnedListener(view'.environments[EnvOf[job[c].entry.thread]], job[c].entry.thread, x)}])
             ELSE NextEntry(c)
  /\ UNCHANGED <<world, stored, asked, sent, shown>>
RunPort(c) ==
  /\ At(c, "clean", "port")
  /\ \/ \E x \in job[c].entry.ports :
          Go(c, [job[c] EXCEPT !.step = "checkPort", !.target = x, !.entry.ports = @ \ {x}])
     \/ job[c].entry.ports = {} /\ NextEntry(c)
  /\ UNCHANGED <<world, view, young, stored, asked, sent, shown, known>>

-----------------------------------------------------------------------------
(***************************************************************************)
(* Close and Stop.                                                         *)
(***************************************************************************)
Close(c, t) ==
  /\ job[c] = NoJob /\ asked < MaxCalls /\ asked' = asked + 1
  /\ \E wanted \in SUBSET {pair[2] : pair \in {k \in known : k[1] = t}} :
       /\ wanted # {}
       /\ StillSettled(t)
       /\ Go(c, [NoJob EXCEPT !.kind = "close", !.step = "read", !.entry = [Nobody EXCEPT !.thread = t, !.ports = wanted]])
  /\ UNCHANGED <<world, view, young, stored, sent, shown, known>>
CloseRead(c) ==
  /\ At(c, "close", "read")
  /\ ReadView
  /\ LET t == job[c].entry.thread
     IN IF Scannable(view', EnvOf[t])
        THEN Go(c, [job[c] EXCEPT !.step = "port", !.entry.ports =
               DistinctProcesses({x \in @ : OwnedListener(view'.environments[EnvOf[t]], t, x)})])
        ELSE Done(c)
  /\ UNCHANGED <<world, stored, asked, sent, shown>>
\* stillSettled, before each process; one that fails it is passed over.
ClosePort(c) ==
  /\ At(c, "close", "port")
  /\ \/ \E x \in job[c].entry.ports :
          IF StillSettled(job[c].entry.thread)
          THEN Go(c, [job[c] EXCEPT !.step = "signal", !.target = x, !.entry.ports = @ \ {x}, !.calm = TRUE])
          ELSE Go(c, [job[c] EXCEPT !.entry.ports = @ \ {x}])
     \/ job[c].entry.ports = {} /\ Done(c)
  /\ UNCHANGED <<world, view, young, stored, asked, sent, shown, known>>
\* Stop takes the snapshot of the last thirty seconds.
Stop(c, t) ==
  /\ job[c] = NoJob /\ asked < MaxCalls /\ asked' = asked + 1
  /\ \E x \in {pair[2] : pair \in {k \in known : k[1] = t}} :
       /\ ListedListener(view.environments[EnvOf[t]], x)
       /\ Go(c, [NoJob EXCEPT !.kind = "stop", !.step = "signal", !.target = x, !.entry = [Nobody EXCEPT !.thread = t], !.calm = TRUE])
  /\ UNCHANGED <<world, view, young, stored, sent, shown, known>>

-----------------------------------------------------------------------------
(***************************************************************************)
(* signalListener, on the machine.                                         *)
(***************************************************************************)
After(c) == [job[c] EXCEPT !.step = IF job[c].kind = "stop" THEN "answer" ELSE "port", !.calm = FALSE]
Look(c) ==
  /\ job[c].kind # "none" /\ job[c].step = "signal"
  /\ Go(c, IF HoldsPort(procs, job[c].target, {Place[EnvOf[job[c].entry.thread]].path}) THEN [job[c] EXCEPT !.step = "kill"] ELSE After(c))
  /\ UNCHANGED <<world, view, young, stored, asked, sent, shown, known>>
Kill(c) ==
  /\ job[c].kind # "none" /\ job[c].step = "kill"
  /\ Go(c, After(c))
  /\ \/ \E p \in procs :
          /\ p.pid = job[c].target.pid /\ IsTarget(procs, job[c].target)
          /\ sent' = Append(sent, [by |-> job[c].kind, token |-> job[c].token, thread |-> job[c].entry.thread,
                                   what |-> <<"process", p.pid, p.startedAt>>, calm |-> job[c].calm])
          /\ procs' \in {procs \ {p}, procs}    \* it may take its time, or not mind
     \/ UNCHANGED <<procs, sent>>    \* it changed, or could not be signalled
  /\ UNCHANGED <<status, live, starts, turns, view, young, stored, asked, shown, known>>
\* Every call but a run that sent nothing ends by reading the ports again.
Answer(c) ==
  /\ job[c].kind = "stop" /\ job[c].step = "answer"
  /\ Done(c)
  /\ UNCHANGED <<world, view, young, stored, asked, sent, shown, known>>

CleanNext ==
  \/ Age \/ Restart
  \/ "close" \in Kinds /\ Poll
  \/ \E t \in Threads : Turn(t) \/ \E pid \in Pids : Begin(t, pid)
  \/ \E p \in procs : Exit(p)
  \/ \E token \in DOMAIN stored : Expire(token)
  \/ \E c \in Clients :
       \/ "clean" \in Kinds /\ (Preview(c) \/ \E token \in DOMAIN stored : Run(c, token))
       \/ PreviewRead(c) \/ PreviewStore(c)
       \/ RunNext(c) \/ Check(c) \/ CloseTerminal(c) \/ RunRead(c) \/ RunPort(c)
       \/ \E t \in Threads : "close" \in Kinds /\ (Close(c, t) \/ Stop(c, t))
       \/ CloseRead(c) \/ ClosePort(c) \/ Look(c) \/ Kill(c) \/ Answer(c)

CleanSpec == CleanInit /\ [][CleanNext]_cleanVars

-----------------------------------------------------------------------------
\* Clean stops only what its preview listed for that thread, each once for a token, and only
\* after it found, since its last stop, every thread at the thread's place settled; whoever
\* asks, a process whose pid is used again is never the one stopped.
Listed(s) ==
  \E x \in shown[s.token] :
    /\ x.thread = s.thread
    /\ s.what[1] = "terminal" => s.what[2] \in x.terminals
    /\ s.what[1] = "process" => \E p \in x.ports : p.pid = s.what[2] /\ p.startedAt = s.what[3]
StopsOnlyWhatWasShown ==
  /\ \A i \in DOMAIN sent : sent[i].calm
  /\ \A i \in DOMAIN sent : sent[i].by = "clean" => Listed(sent[i])
  /\ \A i \in DOMAIN sent : sent[i].by # "clean" =>
       \E k \in known : k[1] = sent[i].thread /\ k[2].pid = sent[i].what[2] /\ k[2].startedAt = sent[i].what[3]
  /\ \A i, j \in DOMAIN sent : i < j /\ sent[i].by = "clean" /\ sent[i].token = sent[j].token => sent[i].what # sent[j].what

-----------------------------------------------------------------------------
(***************************************************************************)
(* What the code's steps keep, from which the property follows.            *)
(***************************************************************************)
CleanAssumption == RulesAssumption /\ EnvOf \in [Threads -> Envs] /\ Terminal \in [Terminals -> Threads]

Targets == [port : Nat, pid : Pids \cup {Unknown}, startedAt : Nat]
Processes == [pid : Pids, startedAt : Nat, ports : SUBSET Nat, cwd : {Place[e].path : e \in Envs},
              names : SUBSET Threads, own : BOOLEAN]
Listeners == [port : Nat, pid : Pids \cup {Unknown}, startedAt : Nat, owner : Threads \cup {NoThread}]
Entries == [thread : Threads \cup {NoThread}, terminals : SUBSET Terminals, ports : SUBSET Targets]
Signals == [by : {"clean", "close", "stop"}, token : Nat, thread : Threads \cup {NoThread},
            what : {"terminal", "process"} \X (Terminals \cup Pids) \X Nat, calm : BOOLEAN]
Jobs == [kind : {"none", "preview", "clean", "close", "stop"},
         step : {"none", "read", "store", "next", "each", "close", "port", "checkPort", "signal", "kill", "answer"},
         scope : SUBSET Threads, token : Nat, todo : SUBSET Entries, entry : Entries, target : Targets, calm : BOOLEAN]

Types ==
  /\ procs \subseteq Processes /\ live \subseteq Terminals /\ starts \in Nat
  /\ view.environments \in [Envs -> SUBSET Listeners]
  /\ \A k \in DOMAIN stored : stored[k].threads \subseteq Entries
  /\ job \in [Clients -> Jobs]
  /\ sent \in Seq(Signals) /\ shown \in Seq(SUBSET Entries)
  /\ known \subseteq Threads \X Targets

SameProcess(x, y) == x.pid = y.pid /\ x.startedAt = y.startedAt

\* A pid is one process's, and what a snapshot lists of a process is one thread's.
OneEach ==
  /\ \A p, q \in procs : p.pid = q.pid => p = q
  /\ \A t, u \in Threads : \A x \in OwnedPortTargets(view.environments[EnvOf[t]], t),
                              y \in OwnedPortTargets(view.environments[EnvOf[u]], u) : SameProcess(x, y) => t = u

\* A preview lists each thread once, and no terminal or process below two.
OneEntry(found) ==
  \A x \in found :
    /\ x.thread \in Threads
    /\ \A y \in found : /\ x.thread = y.thread => x = y
                        /\ \A p \in x.ports, q \in y.ports : SameProcess(p, q) => x = y
    /\ \A m \in x.terminals : Terminal[m] = x.thread

\* A token that is kept has been spent by no run.
Spent(token) == \E i \in DOMAIN sent : sent[i].by = "clean" /\ sent[i].token = token
Previews ==
  /\ \A k \in DOMAIN shown : OneEntry(shown[k])
  /\ \A k \in DOMAIN stored : k \in DOMAIN shown /\ stored[k].threads = shown[k] /\ ~Spent(k)
  /\ \A i \in DOMAIN sent : sent[i].by = "clean" => sent[i].token \in DOMAIN shown

\* What a run has yet to close is what its preview listed and it has not closed.
SentTo(token, thread, kind, x, y) ==
  \E i \in DOMAIN sent : sent[i].by = "clean" /\ sent[i].token = token /\ sent[i].thread = thread
                           /\ sent[i].what = <<kind, x, y>>
FromPreview(j, x) ==
  /\ x \notin j.todo /\ j.entry.thread = x.thread
  /\ j.entry.terminals \subseteq x.terminals /\ j.entry.ports \subseteq x.ports
  /\ j.step \in {"checkPort", "signal", "kill"} => j.target \in x.ports
Unsent(j) ==
  /\ \A y \in j.todo : \A i \in DOMAIN sent : sent[i].by = "clean" /\ sent[i].token = j.token => sent[i].thread # y.thread
  /\ \A m \in j.entry.terminals : ~SentTo(j.token, j.entry.thread, "terminal", m, 0)
  /\ \A p \in j.entry.ports : ~SentTo(j.token, j.entry.thread, "process", p.pid, p.startedAt)
  /\ j.step \in {"port", "checkPort", "signal", "kill"} =>
       \A p, q \in j.entry.ports : SameProcess(p, q) => p = q
  /\ j.step \in {"checkPort", "signal", "kill"} =>
       /\ \A p \in j.entry.ports : ~SameProcess(p, j.target)
       /\ ~SentTo(j.token, j.entry.thread, "process", j.target.pid, j.target.startedAt)
Cleans(j) ==
  /\ j.token \in DOMAIN shown /\ j.token \notin DOMAIN stored
  /\ j.todo \subseteq shown[j.token]
  /\ j.entry = Nobody \/ \E x \in shown[j.token] : FromPreview(j, x)
  /\ j.step \in {"next", "each", "close", "port", "checkPort", "signal", "kill"}
  /\ j.step \in {"each", "close", "port", "checkPort", "signal", "kill"} => j.entry # Nobody
  /\ Unsent(j)
  /\ j.step \in {"close", "signal", "kill"} => j.calm
\* What Close and Stop were asked for is what a window saw.
Stops(j) ==
  /\ j.token = 0 /\ j.step \in {"read", "port", "signal", "kill", "answer"}
  /\ \A x \in j.entry.ports : <<j.entry.thread, x>> \in known
  /\ j.step \in {"signal", "kill"} => <<j.entry.thread, j.target>> \in known /\ j.calm

JobInv(c) ==
  /\ job[c].kind = "clean" => Cleans(job[c])
  /\ job[c].kind \in {"close", "stop"} => Stops(job[c])
  /\ job[c].kind \in {"none", "preview"} => job[c].step \in {"none", "read", "store"}
  /\ \A d \in Clients \ {c} : job[c].kind = "clean" /\ job[d].kind = "clean" => job[c].token # job[d].token
JobsInv == \A c \in Clients : JobInv(c)

IInv == Types /\ OneEach /\ Previews /\ JobsInv /\ StopsOnlyWhatWasShown

-----------------------------------------------------------------------------
(***************************************************************************)
(* Snapshots.                                                              *)
(***************************************************************************)
\* What a listing says of a process is of the one that has its pid.
LEMMA Scanning ==
  ASSUME Types, NEW paths, NEW l \in ScanListeners(procs, procs, {}, paths)
  PROVE  \E p \in procs : l.pid = p.pid /\ l.startedAt = p.startedAt /\ l.owner = OwnerOf(p) /\ l.port \in Nat
<1>1. PICK s \in Sockets(procs, paths) : \E p \in {q \in procs : q.pid = s.proc.pid /\ ~q.own} :
        l = [port |-> s.port, pid |-> s.proc.pid, startedAt |-> p.startedAt,
             path |-> MatchWorkspace(s.proc.cwd, paths), owner |-> OwnerOf(p)]
  BY DEF ScanListeners
<1>5. PICK p \in {q \in procs : q.pid = s.proc.pid /\ ~q.own} :
        l = [port |-> s.port, pid |-> s.proc.pid, startedAt |-> p.startedAt,
             path |-> MatchWorkspace(s.proc.cwd, paths), owner |-> OwnerOf(p)]
  BY <1>1
<1>2. p \in procs /\ p.pid = s.proc.pid OBVIOUS
<1>3. s.proc \in procs /\ s.port \in s.proc.ports BY DEF Sockets
<1>4. s.port \in Nat BY <1>3 DEF Types, Processes
<1> QED BY <1>2, <1>4, <1>5

LEMMA Snapshots ==
  ASSUME CleanAssumption, Types, OneEach, NEW ok \in BOOLEAN
  PROVE  LET new == Scanned(ok).environments
         IN  /\ new \in [Envs -> SUBSET Listeners]
             /\ \A t, u \in Threads : \A x \in OwnedPortTargets(new[EnvOf[t]], t), y \in OwnedPortTargets(new[EnvOf[u]], u) :
                  SameProcess(x, y) => t = u
<1> DEFINE paths == {Place[e].path : e \in Envs}
           listed == ScanListeners(procs, procs, {}, paths)
           new == SnapshotEnvironments(Envs, [h \in {Host} |-> listed], EnvOf)
<1>1. CASE ~ok
  <2>1. Scanned(ok).environments = view.environments BY <1>1 DEF Scanned
  <2> QED BY <2>1 DEF Types, OneEach
<1>2. CASE ok
  <2>1. Scanned(ok).environments = new BY <1>2 DEF Scanned
  <2>2. \A l \in listed : \E p \in procs : l.pid = p.pid /\ l.startedAt = p.startedAt /\ l.owner = OwnerOf(p) /\ l.port \in Nat
    BY Scanning
  <2>3. ASSUME NEW e \in Envs, NEW x \in new[e]
        PROVE  /\ x \in Listeners
               /\ \E p \in procs : x.pid = p.pid /\ x.startedAt = p.startedAt /\ x.owner \in {OwnerOf(p), NoThread}
    <3> HIDE DEF listed
    <3>1. PICK l \in listed : x = [port |-> l.port, pid |-> l.pid, startedAt |-> l.startedAt,
                                   owner |-> OwnerInEnvironment(l.owner, e, EnvOf)]
      BY <2>3 DEF SnapshotEnvironments
    <3>2. PICK p \in procs : l.pid = p.pid /\ l.startedAt = p.startedAt /\ l.owner = OwnerOf(p) /\ l.port \in Nat BY <2>2
    <3>3. x.owner \in {OwnerOf(p), NoThread} /\ x.owner \in Threads \cup {NoThread}
      BY <3>1, <3>2 DEF OwnerInEnvironment, CleanAssumption
    <3>4. p \in Processes BY DEF Types
    <3> QED BY <3>1, <3>2, <3>3, <3>4 DEF Listeners, Processes
  <2>4. new \in [Envs -> SUBSET Listeners]
    <3>1. DOMAIN new = Envs /\ new = [e \in Envs |-> new[e]] BY DEF SnapshotEnvironments
    <3>2. \A e \in Envs : new[e] \subseteq Listeners BY <2>3
    <3> HIDE DEF new
    <3> QED BY <3>1, <3>2
  <2>5. ASSUME NEW t \in Threads, NEW u \in Threads, NEW x \in OwnedPortTargets(new[EnvOf[t]], t),
               NEW y \in OwnedPortTargets(new[EnvOf[u]], u), SameProcess(x, y)
        PROVE  t = u
    <3> HIDE DEF new
    <3>1. EnvOf[t] \in Envs /\ EnvOf[u] \in Envs /\ t # NoThread /\ u # NoThread BY DEF CleanAssumption, RulesAssumption
    <3>2. PICK k \in new[EnvOf[t]] : k.owner = t /\ k.pid = x.pid /\ k.startedAt = x.startedAt BY DEF OwnedPortTargets
    <3>3. PICK m \in new[EnvOf[u]] : m.owner = u /\ m.pid = y.pid /\ m.startedAt = y.startedAt BY DEF OwnedPortTargets
    <3>4. PICK p \in procs : k.pid = p.pid /\ k.startedAt = p.startedAt /\ k.owner \in {OwnerOf(p), NoThread} BY <2>3, <3>1
    <3>5. PICK q \in procs : m.pid = q.pid /\ m.startedAt = q.startedAt /\ m.owner \in {OwnerOf(q), NoThread} BY <2>3, <3>1
    <3>6. p = q BY <2>5, <3>2, <3>3, <3>4, <3>5 DEF SameProcess, OneEach
    <3> QED BY <3>1, <3>2, <3>3, <3>4, <3>5, <3>6
  <2> HIDE DEF new
  <2> QED BY <2>1, <2>4, <2>5
<1> QED BY <1>1, <1>2

\* The targets taken from a snapshot are of their types.
LEMMA OwnedTyped ==
  ASSUME NEW S \in SUBSET Listeners, NEW t
  PROVE  OwnedPortTargets(S, t) \subseteq Targets
BY DEF OwnedPortTargets, Listeners, Targets

\* Reading keeps what snapshots keep.
LEMMA ReadKeeps ==
  ASSUME CleanAssumption, Types, OneEach, ReadView, UNCHANGED procs
  PROVE  /\ view'.environments \in [Envs -> SUBSET Listeners]
         /\ OneEach'
         /\ known \subseteq known' /\ known' \subseteq Threads \X Targets
<1>1. CASE UNCHANGED <<view, young, known>> BY <1>1 DEF Types, OneEach
<1>2. CASE ~young
  <2>1. PICK ok \in BOOLEAN : view' = Scanned(ok) BY <1>2 DEF ReadView
  <2>2. known' = known \cup UNION {{t} \X OwnedPortTargets(view'.environments[EnvOf[t]], t) : t \in Threads}
    BY <1>2 DEF ReadView
  <2>3. /\ view'.environments \in [Envs -> SUBSET Listeners]
        /\ \A t, u \in Threads : \A x \in OwnedPortTargets(view'.environments[EnvOf[t]], t),
             y \in OwnedPortTargets(view'.environments[EnvOf[u]], u) : SameProcess(x, y) => t = u
    BY <2>1, Snapshots
  <2>4. OneEach' BY <2>3 DEF OneEach, SameProcess
  <2>5. \A t \in Threads : EnvOf[t] \in Envs BY DEF CleanAssumption
  <2>6. \A t \in Threads : OwnedPortTargets(view'.environments[EnvOf[t]], t) \subseteq Targets BY <2>3, <2>5, OwnedTyped
  <2>7. known' \subseteq Threads \X Targets BY <2>2, <2>6 DEF Types
  <2> QED BY <2>2, <2>3, <2>4, <2>7
<1> QED BY <1>1, <1>2 DEF ReadView

\* One target for each process.
LEMMA Distinct ==
  ASSUME NEW S \in SUBSET Targets
  PROVE  /\ DistinctProcesses(S) \subseteq S
         /\ \A p, q \in DistinctProcesses(S) : SameProcess(p, q) => p = q
<1>1. DistinctProcesses(S) \subseteq S BY DEF DistinctProcesses
<1> SUFFICES ASSUME NEW p \in DistinctProcesses(S), NEW q \in DistinctProcesses(S), SameProcess(p, q) PROVE p = q
  BY <1>1
<1>2. p \in Targets /\ q \in Targets BY <1>1
<1>3. p.port <= q.port /\ q.port <= p.port BY <1>1 DEF DistinctProcesses, SameProcess
<1>4. p.port = q.port BY <1>2, <1>3 DEF Targets
<1>5. p = [port |-> p.port, pid |-> p.pid, startedAt |-> p.startedAt] /\ q = [port |-> q.port, pid |-> q.pid, startedAt |-> q.startedAt]
  BY <1>2 DEF Targets
<1> QED BY <1>4, <1>5 DEF SameProcess

-----------------------------------------------------------------------------
(***************************************************************************)
(* What changes beside the job of one caller.                              *)
(***************************************************************************)
LEMMA NoJobIs ==
  /\ Nobody \in Entries /\ Nobody.ports = {} /\ Nobody.terminals = {}
  /\ NoTarget \in Targets
  /\ NoJob \in Jobs /\ NoJob.kind = "none" /\ NoJob.step = "none" /\ NoJob.entry = Nobody
<1>1. Nobody \in Entries /\ Nobody.ports = {} /\ Nobody.terminals = {} BY DEF Nobody, Entries
<1>2. NoTarget \in Targets BY DEF NoTarget, Targets, Unknown
<1> QED BY <1>1, <1>2 DEF NoJob, Jobs

\* What a run of the token relies on, beside its own job, is as it was.
Stays(k) ==
  /\ k \in DOMAIN shown' /\ shown'[k] = shown[k] /\ k \notin DOMAIN stored'
  /\ \A i \in DOMAIN sent' : sent'[i].by = "clean" /\ sent'[i].token = k => i \in DOMAIN sent /\ sent'[i] = sent[i]

LEMMA CleansStays ==
  ASSUME NEW j, Cleans(j), Stays(j.token)
  PROVE  Cleans(j)'
<1>1. ASSUME NEW thread, NEW kind, NEW x, NEW y, SentTo(j.token, thread, kind, x, y)' PROVE SentTo(j.token, thread, kind, x, y)
  BY <1>1 DEF SentTo, Stays
<1>2. Unsent(j)
  BY DEF Cleans
<1>3. \A y \in j.todo : \A i \in DOMAIN sent' : sent'[i].by = "clean" /\ sent'[i].token = j.token => sent'[i].thread # y.thread
  BY <1>2 DEF Unsent, Stays
<1>4. Unsent(j)' BY <1>1, <1>2, <1>3 DEF Unsent
<1> QED BY <1>4 DEF Cleans, Stays

LEMMA CleansSame ==
  ASSUME NEW d, NEW j, job[d]' = j, Cleans(j)'
  PROVE  Cleans(job[d])'
BY DEF Cleans, Unsent, FromPreview, SentTo

LEMMA CleansLater ==
  ASSUME NEW d, job[d]' = job[d], Cleans(job[d]), Stays(job[d].token)
  PROVE  Cleans(job[d])'
<1>1. PICK j : j = job[d] OBVIOUS
<1>2. Cleans(j) /\ Stays(j.token) BY <1>1
<1>3. Cleans(j)' BY <1>2, CleansStays
<1>4. job[d]' = j BY <1>1
<1> QED BY <1>3, <1>4, CleansSame

LEMMA StopsSame ==
  ASSUME NEW d, NEW j, job[d]' = j, Stops(j)'
  PROVE  Stops(job[d])'
BY DEF Stops

LEMMA StopsLater ==
  ASSUME NEW d, job[d]' = job[d], Stops(job[d]), known \subseteq known'
  PROVE  Stops(job[d])'
BY DEF Stops

\* One caller's job changes.
LEMMA JobsChange ==
  ASSUME JobsInv, NEW c \in Clients, NEW j \in Jobs, job \in [Clients -> Jobs], job' = [job EXCEPT ![c] = j],
         known \subseteq known',
         \A d \in Clients \ {c} : job[d].kind = "clean" => Stays(job[d].token) /\ (j.kind = "clean" => j.token # job[d].token),
         j.kind = "clean" => Cleans(j)',
         j.kind \in {"close", "stop"} => Stops(j)',
         j.kind \in {"none", "preview"} => j.step \in {"none", "read", "store"}
  PROVE  JobsInv' /\ job' \in [Clients -> Jobs]
<1>1. \A d \in Clients : job'[d] = IF d = c THEN j ELSE job[d] OBVIOUS
<1>2. ASSUME NEW d \in Clients PROVE JobInv(d)'
  <2>1. CASE d = c
    <3>1. job[d]' = j BY <1>1, <2>1
    <3>2. \A e \in Clients \ {d} : job[e]' = job[e] BY <1>1, <2>1
    <3>3. job[d]'.kind = "clean" => Cleans(job[d])' BY <3>1, CleansSame
    <3>4. job[d]'.kind \in {"close", "stop"} => Stops(job[d])' BY <3>1, StopsSame
    <3> QED BY <2>1, <3>1, <3>2, <3>3, <3>4 DEF JobInv
  <2>2. CASE d # c
    <3>1. job[d]' = job[d] BY <1>1, <2>2
    <3>2. job[d].kind = "clean" => Cleans(job[d]) /\ Stays(job[d].token) BY <2>2 DEF JobsInv, JobInv
    <3>3. job[d].kind \in {"close", "stop"} => Stops(job[d]) BY <2>2 DEF JobsInv, JobInv
    <3>4. \A e \in Clients \ {d} : job[d]'.kind = "clean" /\ job[e]'.kind = "clean" => job[d]'.token # job[e]'.token
      BY <1>1, <2>2, <3>1 DEF JobsInv, JobInv
    <3>5. job[d]'.kind = "clean" => Cleans(job[d])' BY <3>1, <3>2, CleansLater
    <3>6. job[d]'.kind \in {"close", "stop"} => Stops(job[d])' BY <3>1, <3>3, StopsLater
    <3> QED BY <2>2, <3>1, <3>4, <3>5, <3>6 DEF JobInv, JobsInv
  <2> QED BY <2>1, <2>2
<1>3. job' \in [Clients -> Jobs] OBVIOUS
<1>4. JobsInv' BY <1>2 DEF JobsInv
<1> QED BY <1>3, <1>4

\* While nothing is sent, and no preview stored, other runs rely on what they relied on.
LEMMA NothingSent ==
  ASSUME JobsInv, NEW d \in Clients, job[d].kind = "clean", UNCHANGED <<sent, shown>>, DOMAIN stored' \subseteq DOMAIN stored
  PROVE  Stays(job[d].token)
BY DEF JobsInv, JobInv, Cleans, Stays

LEMMA StopsKeeps ==
  ASSUME IInv, UNCHANGED sent, known \subseteq known', \A k \in DOMAIN shown : k \in DOMAIN shown' /\ shown'[k] = shown[k]
  PROVE  StopsOnlyWhatWasShown'
<1>1. \A i \in DOMAIN sent : sent[i].by = "clean" => Listed(sent[i])'
  <2> SUFFICES ASSUME NEW i \in DOMAIN sent, sent[i].by = "clean" PROVE Listed(sent[i])'
    OBVIOUS
  <2>1. Listed(sent[i]) /\ sent[i].token \in DOMAIN shown BY DEF IInv, StopsOnlyWhatWasShown, Previews
  <2> QED BY <2>1 DEF Listed
<1>2. StopsOnlyWhatWasShown BY DEF IInv
<1> QED BY <1>1, <1>2 DEF StopsOnlyWhatWasShown

\* A signal is sent, or a terminal closed.
LEMMA Sending ==
  ASSUME IInv, NEW s \in Signals, sent' = Append(sent, s)
  PROVE  /\ sent' \in Seq(Signals)
         /\ DOMAIN sent' = DOMAIN sent \cup {Len(sent) + 1} /\ Len(sent) + 1 \notin DOMAIN sent
         /\ \A i \in DOMAIN sent : i < Len(sent) + 1 /\ sent'[i] = sent[i]
         /\ sent'[Len(sent) + 1] = s
         /\ DOMAIN sent \subseteq Nat /\ Len(sent) \in Nat
<1>1. sent \in Seq(Signals) BY DEF IInv, Types
<1> QED BY <1>1

LEMMA SignalKeeps ==
  ASSUME IInv, NEW s \in Signals, sent' = Append(sent, s), UNCHANGED <<shown, stored, known>>,
         s.calm,
         s.by = "clean" => /\ Listed(s) /\ s.token \in DOMAIN shown /\ s.token \notin DOMAIN stored
                           /\ \A i \in DOMAIN sent : sent[i].by = "clean" /\ sent[i].token = s.token => sent[i].what # s.what,
         s.by # "clean" => s.token = 0 /\ \E k \in known : k[1] = s.thread /\ k[2].pid = s.what[2] /\ k[2].startedAt = s.what[3]
  PROVE  Previews' /\ StopsOnlyWhatWasShown'
<1> DEFINE new == Len(sent) + 1
<1>1. /\ DOMAIN sent' = DOMAIN sent \cup {new} /\ new \notin DOMAIN sent
      /\ \A i \in DOMAIN sent : i < new /\ sent'[i] = sent[i]
      /\ sent'[new] = s
      /\ DOMAIN sent \subseteq Nat /\ new \in Nat
  BY Sending
<1> HIDE DEF new
<1>2. Previews /\ StopsOnlyWhatWasShown BY DEF IInv
<1>3. \A i \in DOMAIN sent' : (i \in DOMAIN sent /\ sent'[i] = sent[i]) \/ (i = new /\ sent'[i] = s) BY <1>1
<1>4. \A k \in DOMAIN shown : OneEntry(shown[k])' BY <1>2 DEF Previews, OneEntry
<1>5. \A k \in DOMAIN stored : ~Spent(k)' BY <1>2, <1>3 DEF Previews, Spent
<1>6. Previews' BY <1>2, <1>3, <1>4, <1>5 DEF Previews
<1>7. \A i \in DOMAIN sent' : sent'[i].calm BY <1>2, <1>3 DEF StopsOnlyWhatWasShown
<1>8. ASSUME NEW i \in DOMAIN sent', sent'[i].by = "clean" PROVE Listed(sent[i])'
  <2>1. CASE i \in DOMAIN sent /\ sent'[i] = sent[i]
    <3>1. Listed(sent[i]) BY <1>2, <1>8, <2>1 DEF StopsOnlyWhatWasShown
    <3> QED BY <2>1, <3>1 DEF Listed
  <2>2. CASE sent'[i] = s
    <3>1. Listed(s) BY <1>8, <2>2
    <3> QED BY <2>2, <3>1 DEF Listed
  <2> QED BY <1>3, <2>1, <2>2
<1>9. \A i \in DOMAIN sent' : sent'[i].by # "clean" =>
        \E k \in known : k[1] = sent'[i].thread /\ k[2].pid = sent'[i].what[2] /\ k[2].startedAt = sent'[i].what[3]
  BY <1>2, <1>3 DEF StopsOnlyWhatWasShown
<1>10. ASSUME NEW i \in DOMAIN sent', NEW j \in DOMAIN sent', i < j, sent'[i].by = "clean", sent'[i].token = sent'[j].token
       PROVE  sent'[i].what # sent'[j].what
  <2>1. CASE j \in DOMAIN sent
    <3>1. i \in DOMAIN sent BY <1>1, <1>10, <2>1
    <3> QED BY <1>1, <1>2, <1>10, <2>1, <3>1 DEF StopsOnlyWhatWasShown
  <2>2. CASE j = new
    <3>1. i \in DOMAIN sent BY <1>1, <1>10, <2>2
    <3>2. 0 \notin DOMAIN shown BY DEF IInv, Types
    <3>3. sent[i].token \in DOMAIN shown BY <1>1, <1>2, <1>10, <3>1 DEF Previews
    <3> QED BY <1>1, <1>10, <2>2, <3>1, <3>2, <3>3
  <2> QED BY <1>1, <2>1, <2>2
<1>11. StopsOnlyWhatWasShown' BY <1>7, <1>8, <1>9, <1>10 DEF StopsOnlyWhatWasShown
<1> QED BY <1>6, <1>11

-----------------------------------------------------------------------------
(***************************************************************************)
(* The steps of the world, and of a caller that sends nothing.             *)
(***************************************************************************)
LEMMA WorldKeeps ==
  ASSUME IInv, UNCHANGED <<live, view, stored, job, sent, shown, known>>,
         procs' \subseteq Processes, starts' \in Nat, \A p, q \in procs' : p.pid = q.pid => p = q
  PROVE  IInv'
<1>1. Types' BY DEF IInv, Types
<1>2. OneEach' BY DEF IInv, OneEach, SameProcess
<1>3. Previews' BY DEF IInv, Previews, Spent
<1>4. JobsInv'
  <2>1. \A d \in Clients : JobInv(d) BY DEF IInv, JobsInv
  <2>2. \A d \in Clients : JobInv(d)' BY <2>1 DEF JobInv, Cleans, Unsent, FromPreview, SentTo, Stops
  <2> QED BY <2>2 DEF JobsInv
<1>5. StopsOnlyWhatWasShown' BY StopsKeeps
<1> QED BY <1>1, <1>2, <1>3, <1>4, <1>5 DEF IInv

LEMMA BeginKeeps ==
  ASSUME CleanAssumption, IInv, NEW t \in Threads, NEW pid \in Pids, Begin(t, pid)
  PROVE  IInv'
<1>1. starts \in Nat /\ starts' = starts + 1 /\ procs \subseteq Processes BY DEF Begin, IInv, Types
<1> DEFINE p == [pid |-> pid, startedAt |-> starts', ports |-> {1}, cwd |-> Place[EnvOf[t]].path, names |-> {t}, own |-> FALSE]
<1>2. p \in Processes /\ p.pid = pid BY <1>1 DEF Processes, CleanAssumption
<1>3. procs' = procs \cup {p} /\ \A q \in procs : q.pid # pid BY DEF Begin
<1>4. \A q, r \in procs : q.pid = r.pid => q = r BY DEF IInv, OneEach
<1>5. UNCHANGED <<live, view, stored, job, sent, shown, known>> BY DEF Begin, calls
<1> HIDE DEF p
<1>6. \A q, r \in procs' : q.pid = r.pid => q = r BY <1>2, <1>3, <1>4
<1> QED BY <1>1, <1>2, <1>3, <1>5, <1>6, WorldKeeps

LEMMA ExitKeeps ==
  ASSUME IInv, procs' \subseteq procs, UNCHANGED <<live, starts, view, stored, job, sent, shown, known>>
  PROVE  IInv'
<1>1. procs' \subseteq Processes /\ starts' \in Nat BY DEF IInv, Types
<1>2. \A p, q \in procs' : p.pid = q.pid => p = q BY DEF IInv, OneEach
<1> QED BY <1>1, <1>2, WorldKeeps

\* A caller goes on: it sends nothing, and no preview comes.
LEMMA GoKeeps ==
  ASSUME IInv, NEW c \in Clients, NEW j \in Jobs, Go(c, j), UNCHANGED <<procs, live, starts, sent, shown>>,
         view'.environments \in [Envs -> SUBSET Listeners], OneEach',
         known \subseteq known', known' \subseteq Threads \X Targets,
         DOMAIN stored' \subseteq DOMAIN stored, \A k \in DOMAIN stored' : stored'[k].threads = stored[k].threads,
         \A d \in Clients \ {c} : job[d].kind = "clean" /\ j.kind = "clean" => j.token # job[d].token,
         j.kind = "clean" => Cleans(j)',
         j.kind \in {"close", "stop"} => Stops(j)',
         j.kind \in {"none", "preview"} => j.step \in {"none", "read", "store"}
  PROVE  IInv'
<1>1. JobsInv /\ job \in [Clients -> Jobs] BY DEF IInv, Types
<1>2. job' = [job EXCEPT ![c] = j] BY DEF Go
<1>3. \A d \in Clients \ {c} : job[d].kind = "clean" => Stays(job[d].token) BY <1>1, NothingSent
<1>4. JobsInv' /\ job' \in [Clients -> Jobs] BY <1>1, <1>2, <1>3, JobsChange
<1>5. Types' BY <1>4 DEF IInv, Types
<1>6. Previews' BY DEF IInv, Previews, Spent
<1>7. StopsOnlyWhatWasShown' BY StopsKeeps
<1> QED BY <1>4, <1>5, <1>6, <1>7 DEF IInv

\* As GoKeeps, for a step that changes nothing but the caller's job, and goes on with its call.
LEMMA StepKeeps ==
  ASSUME IInv, NEW c \in Clients, NEW j \in Jobs, Go(c, j), UNCHANGED <<procs, live, starts, sent, shown, view, stored, known>>,
         j.kind = "clean" => job[c].kind = "clean" /\ j.token = job[c].token /\ Cleans(j),
         j.kind \in {"close", "stop"} => Stops(j),
         j.kind \in {"none", "preview"} => j.step \in {"none", "read", "store"}
  PROVE  IInv'
<1>1. view'.environments \in [Envs -> SUBSET Listeners] /\ known' \subseteq Threads \X Targets BY DEF IInv, Types
<1>2. OneEach' BY DEF IInv, OneEach, SameProcess
<1>3. j.kind = "clean" => Cleans(j)' BY DEF Cleans, Unsent, FromPreview, SentTo
<1>4. j.kind \in {"close", "stop"} => Stops(j)' BY DEF Stops
<1>5. \A d \in Clients \ {c} : job[d].kind = "clean" /\ j.kind = "clean" => j.token # job[d].token
  BY DEF IInv, JobsInv, JobInv
<1> QED BY <1>1, <1>2, <1>3, <1>4, <1>5, GoKeeps

\* As GoKeeps, for a step that reads the ports.
LEMMA ReadingKeeps ==
  ASSUME CleanAssumption, IInv, NEW c \in Clients, NEW j \in Jobs, Go(c, j), UNCHANGED <<procs, live, starts, sent, shown, stored>>, ReadView,
         j.kind = "clean" => job[c].kind = "clean" /\ j.token = job[c].token /\ Cleans(j),
         j.kind \in {"close", "stop"} => Stops(j),
         j.kind \in {"none", "preview"} => j.step \in {"none", "read", "store"}
  PROVE  IInv'
<1>1. Types /\ OneEach BY DEF IInv
<1>2. /\ view'.environments \in [Envs -> SUBSET Listeners] /\ OneEach'
      /\ known \subseteq known' /\ known' \subseteq Threads \X Targets
  BY <1>1, ReadKeeps
<1>3. j.kind = "clean" => Cleans(j)' BY DEF Cleans, Unsent, FromPreview, SentTo
<1>4. j.kind \in {"close", "stop"} => Stops(j)' BY <1>2 DEF Stops
<1>5. \A d \in Clients \ {c} : job[d].kind = "clean" /\ j.kind = "clean" => j.token # job[d].token
  BY DEF IInv, JobsInv, JobInv
<1> QED BY <1>2, <1>3, <1>4, <1>5, GoKeeps

LEMMA PollKeeps ==
  ASSUME CleanAssumption, IInv, Poll
  PROVE  IInv'
<1>1. UNCHANGED <<procs, live, starts, stored, job, sent, shown>> /\ ReadView BY DEF Poll, world
<1>2. Types /\ OneEach BY DEF IInv
<1>3. /\ view'.environments \in [Envs -> SUBSET Listeners] /\ OneEach'
      /\ known \subseteq known' /\ known' \subseteq Threads \X Targets
  BY <1>1, <1>2, ReadKeeps
<1>4. Types' BY <1>1, <1>2, <1>3 DEF Types
<1>5. Previews' BY <1>1 DEF IInv, Previews, Spent
<1>6. JobsInv'
  <2>1. \A d \in Clients : JobInv(d) BY DEF IInv, JobsInv
  <2>2. \A d \in Clients : JobInv(d)' BY <1>1, <1>3, <2>1 DEF JobInv, Cleans, Unsent, FromPreview, SentTo, Stops
  <2> QED BY <2>2 DEF JobsInv
<1>7. StopsOnlyWhatWasShown' BY <1>1, <1>3, StopsKeeps
<1> QED BY <1>3, <1>4, <1>5, <1>6, <1>7 DEF IInv

LEMMA ExpireKeeps ==
  ASSUME IInv, NEW token \in DOMAIN stored, Expire(token)
  PROVE  IInv'
<1>1. /\ UNCHANGED <<procs, live, starts, view, job, sent, shown, known>> /\ DOMAIN stored' = DOMAIN stored
      /\ \A k \in DOMAIN stored : stored'[k].threads = stored[k].threads
  BY DEF Expire, world
<1>2. Types' BY <1>1 DEF IInv, Types
<1>3. OneEach' BY <1>1 DEF IInv, OneEach, SameProcess
<1>4. Previews' BY <1>1 DEF IInv, Previews, Spent
<1>5. JobsInv'
  <2>1. \A d \in Clients : JobInv(d) BY DEF IInv, JobsInv
  <2>2. \A d \in Clients : JobInv(d)' BY <1>1, <2>1 DEF JobInv, Cleans, Unsent, FromPreview, SentTo, Stops
  <2> QED BY <2>2 DEF JobsInv
<1>6. StopsOnlyWhatWasShown' BY <1>1, StopsKeeps
<1> QED BY <1>2, <1>3, <1>4, <1>5, <1>6 DEF IInv

LEMMA RestartKeeps ==
  ASSUME CleanAssumption, IInv, Restart
  PROVE  IInv'
<1>1. /\ UNCHANGED <<procs, live, starts, stored, sent, shown, known>>
      /\ job' = [d \in Clients |-> NoJob] /\ view' = NoView
  BY DEF Restart, world
<1>2. \A d \in Clients : job[d]' = NoJob BY <1>1
<1>3. view'.environments = [e \in Envs |-> {}] BY <1>1 DEF NoView
<1>4. Types' BY <1>1, <1>3, NoJobIs DEF IInv, Types
<1>5. OneEach'
  <2>1. \A t \in Threads : view'.environments[EnvOf[t]] = {} BY <1>3 DEF CleanAssumption
  <2>2. \A t \in Threads : OwnedPortTargets(view'.environments[EnvOf[t]], t) = {} BY <2>1 DEF OwnedPortTargets
  <2> QED BY <1>1, <2>2 DEF IInv, OneEach
<1>6. Previews' BY <1>1 DEF IInv, Previews, Spent
<1>7. JobsInv' BY <1>2, NoJobIs DEF JobsInv, JobInv
<1>8. StopsOnlyWhatWasShown' BY <1>1, StopsKeeps
<1> QED BY <1>4, <1>5, <1>6, <1>7, <1>8 DEF IInv

-----------------------------------------------------------------------------
(***************************************************************************)
(* Previews, and the steps of a run.                                       *)
(***************************************************************************)
LEMMA Eligibles == ASSUME NEW located PROVE Eligible(located) \subseteq Threads
  BY DEF Eligible, OmitSharedWorkspaces

\* eligibleThreads holds those alone at their place: the truth, as bb has it now.
LEMMA EligibleIsCalm ==
  ASSUME CleanAssumption, NEW located \in Locations, NEW t \in Eligible(located)
  PROVE  t \in Threads /\ Calm(t)
<1>1. /\ t \in Threads /\ Cleanable(t) /\ EnvOf[t] \in located
      /\ \A u \in Threads : ~Cleanable(u) => /\ EnvOf[u] # EnvOf[t]
                                             /\ EnvOf[u] \in located => Place[EnvOf[u]] # Place[EnvOf[t]]
  BY DEF Eligible, OmitSharedWorkspaces
<1>2. located = Envs BY <1>1 DEF Locations
<1>3. \A u \in Threads : EnvOf[u] \in Envs BY DEF CleanAssumption
<1> QED BY <1>1, <1>2, <1>3 DEF Calm

LEMMA PreviewKeeps ==
  ASSUME IInv, NEW c \in Clients, Preview(c)
  PROVE  IInv'
<1>1. PICK located \in Locations : Go(c, [NoJob EXCEPT !.kind = "preview", !.step = "read", !.scope = Eligible(located)])
  BY DEF Preview
<1> DEFINE j == [NoJob EXCEPT !.kind = "preview", !.step = "read", !.scope = Eligible(located)]
<1>2. j \in Jobs /\ j.kind = "preview" /\ j.step = "read" BY NoJobIs, Eligibles DEF Jobs
<1>3. UNCHANGED <<procs, live, starts, sent, shown, view, stored, known>> BY DEF Preview, world
<1> HIDE DEF j
<1> QED BY <1>1, <1>2, <1>3, StepKeeps DEF j

LEMMA PreviewReadKeeps ==
  ASSUME CleanAssumption, IInv, NEW c \in Clients, PreviewRead(c)
  PROVE  IInv'
<1> DEFINE j == [job[c] EXCEPT !.step = "store"]
<1>1. job[c] \in Jobs /\ job[c].kind = "preview" BY DEF IInv, Types, PreviewRead, At
<1>2. j \in Jobs /\ j.kind = "preview" /\ j.step = "store" BY <1>1 DEF Jobs
<1>3. Go(c, j) /\ ReadView /\ UNCHANGED <<procs, live, starts, sent, shown, stored>> BY DEF PreviewRead, Step, world
<1> HIDE DEF j
<1> QED BY <1>2, <1>3, ReadingKeeps

\* What is listed of the threads is theirs.
LEMMA Found ==
  ASSUME CleanAssumption, IInv, NEW scope \in SUBSET Threads, NEW listing, NEW found \in SUBSET Entries,
         \A x \in found : /\ x.thread \in scope
                          /\ \A m \in x.terminals : Terminal[m] = x.thread
                          /\ x.ports \subseteq OwnedPortTargets(view.environments[EnvOf[x.thread]], x.thread),
         \A x, y \in found : x.thread = y.thread => x = y
  PROVE  OneEntry(found)
BY DEF IInv, OneEach, OneEntry

LEMMA PreviewStoreKeeps ==
  ASSUME CleanAssumption, IInv, NEW c \in Clients, PreviewStore(c)
  PROVE  IInv'
<1>1. job[c] \in Jobs /\ job[c].scope \subseteq Threads BY DEF IInv, Types, Jobs
<1> DEFINE ports(t) == IF Scannable(view, EnvOf[t]) THEN OwnedPortTargets(view.environments[EnvOf[t]], t) ELSE {}
           terminals(listing, t) == IF t \in listing THEN {x \in live : Terminal[x] = t} ELSE {}
           entries(listing) == {[thread |-> t, terminals |-> terminals(listing, t), ports |-> ports(t)] :
                                  t \in {u \in job[c].scope : ports(u) # {} \/ terminals(listing, u) # {}}}
           token == Len(shown) + 1
<1>2. PICK listing \in {{}, job[c].scope} :
        /\ stored' = [k \in {token} \cup {j \in DOMAIN stored : ~stored[j].expired} |->
                        IF k = token THEN [threads |-> entries(listing), expired |-> FALSE] ELSE stored[k]]
        /\ shown' = Append(shown, entries(listing))
  BY DEF PreviewStore
<1> DEFINE found == entries(listing)
<1>3. found \in SUBSET Entries /\ OneEntry(found)
  <2>1. \A t \in Threads : EnvOf[t] \in Envs BY DEF CleanAssumption
  <2>2. \A t \in Threads : ports(t) \subseteq Targets /\ ports(t) \subseteq OwnedPortTargets(view.environments[EnvOf[t]], t)
    BY <2>1, OwnedTyped DEF IInv, Types
  <2>3. \A t : terminals(listing, t) \subseteq Terminals /\ \A m \in terminals(listing, t) : Terminal[m] = t
    BY DEF IInv, Types
  <2> HIDE DEF ports, terminals
  <2>4. found \in SUBSET Entries BY <1>1, <2>2, <2>3 DEF Entries
  <2>5. \A x \in found : /\ x.thread \in job[c].scope
                         /\ \A m \in x.terminals : Terminal[m] = x.thread
                         /\ x.ports \subseteq OwnedPortTargets(view.environments[EnvOf[x.thread]], x.thread)
    BY <1>1, <2>2, <2>3
  <2>6. \A x, y \in found : x.thread = y.thread => x = y OBVIOUS
  <2> HIDE DEF found
  <2> QED BY <1>1, <2>4, <2>5, <2>6, Found
<1>4. /\ stored' = [k \in {token} \cup {j \in DOMAIN stored : ~stored[j].expired} |->
                      IF k = token THEN [threads |-> found, expired |-> FALSE] ELSE stored[k]]
      /\ shown' = Append(shown, found)
  BY <1>2
<1>5. /\ Go(c, NoJob)
      /\ UNCHANGED <<procs, live, starts, view, sent, known>>
  BY DEF PreviewStore, Done, Go, world
<1> HIDE DEF found
<1>6. shown \in Seq(SUBSET Entries) /\ sent \in Seq(Signals) BY DEF IInv, Types
<1>7. /\ shown' \in Seq(SUBSET Entries) /\ DOMAIN shown' = DOMAIN shown \cup {token} /\ token \notin DOMAIN shown
      /\ shown'[token] = found /\ \A k \in DOMAIN shown : shown'[k] = shown[k]
  BY <1>3, <1>4, <1>6
<1> HIDE DEF token
<1>8. Previews BY DEF IInv
<1>9. token \notin DOMAIN stored /\ ~Spent(token) BY <1>7, <1>8 DEF Previews, Spent
<1>10. /\ DOMAIN stored' \subseteq DOMAIN stored \cup {token} /\ stored'[token].threads = found /\ token \in DOMAIN stored'
       /\ \A k \in DOMAIN stored' : k # token => k \in DOMAIN stored /\ stored'[k] = stored[k]
  BY <1>4
<1>11. Previews'
  <2>1. \A k \in DOMAIN shown' : OneEntry(shown[k])' BY <1>3, <1>7, <1>8 DEF Previews, OneEntry, SameProcess
  <2>2. \A k \in DOMAIN stored' : k \in DOMAIN shown' /\ stored'[k].threads = shown'[k] /\ ~Spent(k)'
    BY <1>5, <1>7, <1>8, <1>9, <1>10 DEF Previews, Spent
  <2>3. \A i \in DOMAIN sent' : sent'[i].by = "clean" => sent'[i].token \in DOMAIN shown'
    BY <1>5, <1>7, <1>8 DEF Previews
  <2> QED BY <2>1, <2>2, <2>3 DEF Previews
<1>12. JobsInv' /\ job' \in [Clients -> Jobs]
  <2>1. \A d \in Clients \ {c} : job[d].kind = "clean" => Stays(job[d].token)
    <3> SUFFICES ASSUME NEW d \in Clients, job[d].kind = "clean" PROVE Stays(job[d].token)
      OBVIOUS
    <3>1. job[d].token \in DOMAIN shown /\ job[d].token \notin DOMAIN stored BY DEF IInv, JobsInv, JobInv, Cleans
    <3> QED BY <1>5, <1>7, <1>10, <3>1 DEF Stays
  <2>2. JobsInv /\ job \in [Clients -> Jobs] /\ job' = [job EXCEPT ![c] = NoJob] /\ known \subseteq known' BY <1>5 DEF IInv, Types, Go
  <2> QED BY <2>1, <2>2, NoJobIs, JobsChange
<1>13. Types' BY <1>3, <1>5, <1>7, <1>10, <1>12 DEF IInv, Types
<1>14. OneEach' BY <1>5 DEF IInv, OneEach, SameProcess
<1>15. StopsOnlyWhatWasShown' BY <1>5, <1>7, StopsKeeps
<1> QED BY <1>11, <1>12, <1>13, <1>14, <1>15 DEF IInv

\* A run begins: its token is spent.
LEMMA RunKeeps ==
  ASSUME IInv, NEW c \in Clients, NEW token \in DOMAIN stored, Run(c, token)
  PROVE  IInv'
<1>1. /\ stored' = [k \in DOMAIN stored \ {token} |-> stored[k]] /\ job[c] = NoJob
      /\ UNCHANGED <<procs, live, starts, view, sent, shown, known>>
  BY DEF Run, world
<1>2. token \in DOMAIN shown /\ stored[token].threads = shown[token] /\ ~Spent(token) /\ token \in Nat
      /\ stored[token].threads \subseteq Entries
  BY DEF IInv, Previews, Types
<1>3. PICK j : j = [NoJob EXCEPT !.kind = "clean", !.step = "next", !.token = token, !.todo = stored[token].threads]
  OBVIOUS
<1>4. j \in Jobs /\ j.kind = "clean" /\ j.step = "next" /\ j.token = token /\ j.todo = shown[token] /\ j.entry = Nobody
  BY <1>2, <1>3, NoJobIs DEF Jobs
<1>5. Go(c, NoJob) \/ Go(c, j)
  <2>1. job = [job EXCEPT ![c] = job[c]] BY DEF IInv, Types
  <2> QED BY <1>1, <1>3, <2>1 DEF Run, Go
<1>6. Cleans(j)'
  <2>1. Unsent(j)' BY <1>1, <1>2, <1>4, NoJobIs DEF Unsent, Spent
  <2> QED BY <1>1, <1>2, <1>4, <2>1 DEF Cleans
<1>7. \A d \in Clients \ {c} : job[d].kind = "clean" => j.token # job[d].token
  BY <1>4 DEF IInv, JobsInv, JobInv, Cleans
<1>8. view'.environments \in [Envs -> SUBSET Listeners] /\ known' \subseteq Threads \X Targets BY <1>1 DEF IInv, Types
<1>9. OneEach' BY <1>1 DEF IInv, OneEach, SameProcess
<1>10. DOMAIN stored' \subseteq DOMAIN stored /\ \A k \in DOMAIN stored' : stored'[k].threads = stored[k].threads BY <1>1
<1>11. CASE Go(c, NoJob) BY <1>1, <1>8, <1>9, <1>10, <1>11, NoJobIs, GoKeeps
<1>12. CASE Go(c, j) BY <1>1, <1>4, <1>6, <1>7, <1>8, <1>9, <1>10, <1>12, GoKeeps
<1> QED BY <1>5, <1>11, <1>12

LEMMA NobodyIsNone == CleanAssumption => Nobody.thread \notin Threads
  BY DEF CleanAssumption, RulesAssumption, Nobody

\* What a run's job is, while it is one.
LEMMA RunOf ==
  ASSUME IInv, NEW c \in Clients, job[c].kind = "clean"
  PROVE  /\ job[c] \in Jobs /\ Cleans(job[c]) /\ OneEntry(shown[job[c].token])
         /\ job[c].entry \in Entries /\ job[c].todo \subseteq Entries
         /\ job[c].entry # Nobody => \E x \in shown[job[c].token] : FromPreview(job[c], x)
<1>1. job[c] \in Jobs BY DEF IInv, Types
<1>2. Cleans(job[c]) BY DEF IInv, JobsInv, JobInv
<1>3. OneEntry(shown[job[c].token]) BY <1>2 DEF Cleans, IInv, Previews
<1> QED BY <1>1, <1>2, <1>3 DEF Jobs, Cleans

\* A run that goes on to its next thread.
LEMMA NextEntryKeeps ==
  ASSUME IInv, NEW c \in Clients, job[c].kind = "clean"
  PROVE  LET j == [job[c] EXCEPT !.step = "next", !.entry = Nobody]
         IN j \in Jobs /\ j.kind = "clean" /\ j.token = job[c].token /\ Cleans(j)
<1> DEFINE j == [job[c] EXCEPT !.step = "next", !.entry = Nobody]
<1>1. job[c] \in Jobs /\ Cleans(job[c]) BY RunOf
<1>2. j \in Jobs /\ j.kind = "clean" /\ j.token = job[c].token /\ j.todo = job[c].todo /\ j.entry = Nobody /\ j.step = "next"
  BY <1>1, NoJobIs DEF Jobs
<1> HIDE DEF j
<1>3. Unsent(j) BY <1>1, <1>2, NoJobIs DEF Cleans, Unsent
<1>4. Cleans(j) BY <1>1, <1>2, <1>3 DEF Cleans
<1> QED BY <1>2, <1>4 DEF j

LEMMA RunNextKeeps ==
  ASSUME CleanAssumption, IInv, NEW c \in Clients, RunNext(c)
  PROVE  IInv'
<1>1. job[c].kind = "clean" /\ job[c].step = "next" /\ UNCHANGED <<procs, live, starts, sent, shown, view, stored, known>>
  BY DEF RunNext, At, world
<1>2. job[c] \in Jobs /\ Cleans(job[c]) /\ OneEntry(shown[job[c].token]) BY <1>1, RunOf
<1>3. CASE Done(c)
  <2>1. Go(c, NoJob) BY <1>3 DEF Done, Go
  <2> QED BY <1>1, <2>1, NoJobIs, StepKeeps
<1>4. ASSUME NEW x \in job[c].todo, Go(c, [job[c] EXCEPT !.step = "each", !.todo = @ \ {x}, !.entry = x])
      PROVE  IInv'
  <2> DEFINE j == [job[c] EXCEPT !.step = "each", !.todo = @ \ {x}, !.entry = x]
  <2>1. x \in Entries /\ x \in shown[job[c].token] BY <1>2 DEF Jobs, Cleans
  <2>2. /\ j \in Jobs /\ j.kind = "clean" /\ j.token = job[c].token /\ j.step = "each"
        /\ j.todo = job[c].todo \ {x} /\ j.entry = x
    BY <1>1, <1>2, <2>1 DEF Jobs
  <2> HIDE DEF j
  <2>3. FromPreview(j, x) BY <2>2 DEF FromPreview
  <2>4. Unsent(j) BY <1>2, <2>2 DEF Cleans, Unsent, SentTo
  <2>5. j.entry # Nobody
    <3>1. x.thread \in Threads BY <1>2, <2>1 DEF OneEntry
    <3> QED BY <2>2, <3>1, NobodyIsNone
  <2>6. Cleans(j) BY <1>2, <2>1, <2>2, <2>3, <2>4, <2>5 DEF Cleans
  <2>7. Go(c, j) BY <1>4 DEF j
  <2> QED BY <1>1, <2>2, <2>6, <2>7, StepKeeps
<1> QED BY <1>3, <1>4 DEF RunNext

\* stillClean before a terminal or a process.
LEMMA CheckKeeps ==
  ASSUME CleanAssumption, IInv, NEW c \in Clients, Check(c)
  PROVE  IInv'
<1>1. /\ job[c].kind = "clean" /\ job[c].step \in {"each", "checkPort"}
      /\ UNCHANGED <<procs, live, starts, sent, shown, view, stored, known>>
  BY DEF Check, At, world
<1>2. job[c] \in Jobs /\ Cleans(job[c]) BY <1>1, RunOf
<1>3. CASE NextEntry(c)
  <2> DEFINE j == [job[c] EXCEPT !.step = "next", !.entry = Nobody]
  <2>1. j \in Jobs /\ j.kind = "clean" /\ j.token = job[c].token /\ Cleans(j) BY <1>1, NextEntryKeeps
  <2>2. Go(c, j) BY <1>3 DEF NextEntry
  <2> HIDE DEF j
  <2> QED BY <1>1, <2>1, <2>2, StepKeeps
<1>4. ASSUME NEW located \in Locations, job[c].entry.thread \in Eligible(located),
             Go(c, [job[c] EXCEPT !.step = IF @ = "each" THEN "close" ELSE "signal", !.calm = Calm(job[c].entry.thread)])
      PROVE  IInv'
  <2> DEFINE j == [job[c] EXCEPT !.step = IF @ = "each" THEN "close" ELSE "signal", !.calm = Calm(job[c].entry.thread)]
  <2>1. Calm(job[c].entry.thread) BY <1>4, EligibleIsCalm
  <2>2. /\ j \in Jobs /\ j.kind = "clean" /\ j.token = job[c].token /\ j.todo = job[c].todo /\ j.entry = job[c].entry
        /\ j.calm /\ j.target = job[c].target
        /\ \/ job[c].step = "each" /\ j.step = "close"
           \/ job[c].step = "checkPort" /\ j.step = "signal"
    BY <1>1, <1>2, <2>1 DEF Jobs
  <2> HIDE DEF j
  <2>3. Unsent(j) BY <1>2, <2>2 DEF Cleans, Unsent
  <2>4. \A x : FromPreview(job[c], x) => FromPreview(j, x) BY <2>2 DEF FromPreview
  <2>5. Cleans(j) BY <1>1, <1>2, <2>2, <2>3, <2>4 DEF Cleans
  <2>6. Go(c, j) BY <1>4 DEF j
  <2> QED BY <1>1, <2>2, <2>5, <2>6, StepKeeps
<1> QED BY <1>3, <1>4 DEF Check

LEMMA RunReadKeeps ==
  ASSUME CleanAssumption, IInv, NEW c \in Clients, RunRead(c)
  PROVE  IInv'
<1>1. /\ job[c].kind = "clean" /\ job[c].step = "each" /\ job[c].entry.terminals = {}
      /\ UNCHANGED <<procs, live, starts, sent, shown, stored>>
  BY DEF RunRead, At, world
<1>2. job[c] \in Jobs /\ Cleans(job[c]) /\ job[c].entry \in Entries BY <1>1, RunOf
<1>3. CASE NextEntry(c)
  <2> DEFINE j == [job[c] EXCEPT !.step = "next", !.entry = Nobody]
  <2>1. j \in Jobs /\ j.kind = "clean" /\ j.token = job[c].token /\ Cleans(j) BY <1>1, NextEntryKeeps
  <2>2. Go(c, j) BY <1>3 DEF NextEntry
  <2>3. ReadView \/ UNCHANGED <<view, young, known>> BY DEF RunRead
  <2> HIDE DEF j
  <2> QED BY <1>1, <2>1, <2>2, <2>3, StepKeeps, ReadingKeeps
<1> DEFINE kept == {x \in DistinctProcesses(job[c].entry.ports) :
                      OwnedListener(view'.environments[EnvOf[job[c].entry.thread]], job[c].entry.thread, x)}
<1>4. CASE ReadView /\ Go(c, [job[c] EXCEPT !.step = "port", !.entry.ports = kept])
  <2>1. PICK ports : ports = kept OBVIOUS
  <2> DEFINE j == [job[c] EXCEPT !.step = "port", !.entry.ports = ports]
  <2>2. job[c].entry.ports \subseteq Targets BY <1>2 DEF Entries
  <2>3. /\ ports \subseteq job[c].entry.ports
        /\ \A p, q \in ports : SameProcess(p, q) => p = q
    BY <2>1, <2>2, Distinct
  <2>4. Go(c, j) BY <1>4, <2>1
  <2> HIDE DEF kept
  <2>5. /\ j \in Jobs /\ j.kind = "clean" /\ j.token = job[c].token /\ j.todo = job[c].todo /\ j.step = "port"
        /\ j.entry \in Entries /\ j.entry.thread = job[c].entry.thread /\ j.entry.ports = ports
        /\ j.entry.terminals = job[c].entry.terminals
    BY <1>1, <1>2, <2>2, <2>3 DEF Jobs, Entries
  <2> HIDE DEF j
  <2>6. Unsent(j) BY <1>2, <2>3, <2>5 DEF Cleans, Unsent
  <2>7. PICK x \in shown[job[c].token] : FromPreview(job[c], x) BY <1>1, <1>2 DEF Cleans
  <2>8. FromPreview(j, x) BY <2>3, <2>5, <2>7 DEF FromPreview
  <2>9. j.entry # Nobody
    <3>1. x.thread \in Threads /\ j.entry.thread = x.thread BY <1>1, <2>5, <2>7, RunOf DEF OneEntry, FromPreview
    <3> QED BY <3>1, NobodyIsNone
  <2>10. Cleans(j) BY <1>2, <2>5, <2>6, <2>7, <2>8, <2>9 DEF Cleans
  <2> QED BY <1>1, <1>4, <2>4, <2>5, <2>10, ReadingKeeps
<1> QED BY <1>3, <1>4 DEF RunRead

LEMMA RunPortKeeps ==
  ASSUME CleanAssumption, IInv, NEW c \in Clients, RunPort(c)
  PROVE  IInv'
<1>1. /\ job[c].kind = "clean" /\ job[c].step = "port"
      /\ UNCHANGED <<procs, live, starts, sent, shown, view, stored, known>>
  BY DEF RunPort, At, world
<1>2. job[c] \in Jobs /\ Cleans(job[c]) /\ job[c].entry \in Entries BY <1>1, RunOf
<1>3. CASE NextEntry(c)
  <2> DEFINE j == [job[c] EXCEPT !.step = "next", !.entry = Nobody]
  <2>1. j \in Jobs /\ j.kind = "clean" /\ j.token = job[c].token /\ Cleans(j) BY <1>1, NextEntryKeeps
  <2>2. Go(c, j) BY <1>3 DEF NextEntry
  <2> HIDE DEF j
  <2> QED BY <1>1, <2>1, <2>2, StepKeeps
<1>4. ASSUME NEW p \in job[c].entry.ports, Go(c, [job[c] EXCEPT !.step = "checkPort", !.target = p, !.entry.ports = @ \ {p}])
      PROVE  IInv'
  <2> DEFINE j == [job[c] EXCEPT !.step = "checkPort", !.target = p, !.entry.ports = @ \ {p}]
  <2>1. job[c].entry.ports \subseteq Targets BY <1>2 DEF Entries
  <2>2. /\ j \in Jobs /\ j.kind = "clean" /\ j.token = job[c].token /\ j.todo = job[c].todo /\ j.step = "checkPort"
        /\ j.entry \in Entries /\ j.entry.thread = job[c].entry.thread /\ j.entry.ports = job[c].entry.ports \ {p}
        /\ j.entry.terminals = job[c].entry.terminals /\ j.target = p
    BY <1>1, <1>2, <2>1 DEF Jobs, Entries
  <2> HIDE DEF j
  <2>3. Unsent(j) BY <1>1, <1>2, <2>2 DEF Cleans, Unsent
  <2>4. PICK x \in shown[job[c].token] : FromPreview(job[c], x) BY <1>1, <1>2 DEF Cleans
  <2>5. FromPreview(j, x) BY <2>2, <2>4 DEF FromPreview
  <2>6. j.entry # Nobody
    <3>1. x.thread \in Threads /\ j.entry.thread = x.thread BY <1>1, <2>2, <2>4, RunOf DEF OneEntry, FromPreview
    <3> QED BY <3>1, NobodyIsNone
  <2>7. Cleans(j) BY <1>2, <2>2, <2>3, <2>4, <2>5, <2>6 DEF Cleans
  <2>8. Go(c, j) BY <1>4 DEF j
  <2> QED BY <1>1, <2>2, <2>7, <2>8, StepKeeps
<1> QED BY <1>3, <1>4 DEF RunPort

-----------------------------------------------------------------------------
(***************************************************************************)
(* The steps of Close and Stop.                                            *)
(***************************************************************************)
LEMMA CloseKeeps ==
  ASSUME IInv, NEW c \in Clients, NEW t \in Threads, Close(c, t)
  PROVE  IInv'
<1>1. UNCHANGED <<procs, live, starts, sent, shown, view, stored, known>> BY DEF Close, world
<1>2. PICK wanted \in SUBSET {pair[2] : pair \in {k \in known : k[1] = t}} :
        Go(c, [NoJob EXCEPT !.kind = "close", !.step = "read", !.entry = [Nobody EXCEPT !.thread = t, !.ports = wanted]])
  BY DEF Close
<1>3. known \subseteq Threads \X Targets BY DEF IInv, Types
<1>4. \A x \in wanted : <<t, x>> \in known /\ x \in Targets BY <1>3
<1> DEFINE e == [Nobody EXCEPT !.thread = t, !.ports = wanted]
           j == [NoJob EXCEPT !.kind = "close", !.step = "read", !.entry = e]
<1>5. e \in Entries /\ e.thread = t /\ e.ports = wanted BY <1>4, NoJobIs DEF Entries
<1> HIDE DEF e
<1>6. j \in Jobs /\ j.kind = "close" /\ j.step = "read" /\ j.entry = e /\ j.token = 0
  <2>1. NoJob.token = 0 BY DEF NoJob
  <2> QED BY <1>5, <2>1, NoJobIs DEF Jobs
<1>7. Go(c, j) BY <1>2 DEF e
<1> HIDE DEF j
<1>8. Stops(j) BY <1>4, <1>5, <1>6 DEF Stops
<1> QED BY <1>1, <1>6, <1>7, <1>8, StepKeeps

\* What a call to close's or stop's job is.
LEMMA CallOf ==
  ASSUME IInv, NEW c \in Clients, job[c].kind \in {"close", "stop"}
  PROVE  job[c] \in Jobs /\ Stops(job[c]) /\ job[c].entry \in Entries /\ job[c].entry.ports \subseteq Targets
<1>1. job[c] \in Jobs BY DEF IInv, Types
<1> QED BY <1>1 DEF IInv, JobsInv, JobInv, Jobs, Entries

LEMMA DoneKeeps ==
  ASSUME IInv, NEW c \in Clients, Done(c), UNCHANGED <<procs, live, starts, sent, shown, view, stored, known>>
  PROVE  IInv'
<1>1. Go(c, NoJob) BY DEF Done, Go
<1> QED BY <1>1, NoJobIs, StepKeeps

LEMMA CloseReadKeeps ==
  ASSUME CleanAssumption, IInv, NEW c \in Clients, CloseRead(c)
  PROVE  IInv'
<1>1. /\ job[c].kind = "close" /\ ReadView /\ UNCHANGED <<procs, live, starts, sent, shown, stored>>
  BY DEF CloseRead, At, world
<1>2. job[c] \in Jobs /\ Stops(job[c]) /\ job[c].entry \in Entries /\ job[c].entry.ports \subseteq Targets BY <1>1, CallOf
<1>3. CASE Done(c)
  <2>1. Go(c, NoJob) BY <1>3 DEF Done, Go
  <2> QED BY <1>1, <2>1, NoJobIs, ReadingKeeps
<1> DEFINE t == job[c].entry.thread
           owned == {x \in job[c].entry.ports : OwnedListener(view'.environments[EnvOf[t]], t, x)}
<1>4. CASE Go(c, [job[c] EXCEPT !.step = "port", !.entry.ports = DistinctProcesses(owned)])
  <2>1. PICK ports : ports = DistinctProcesses(owned) OBVIOUS
  <2>2. owned \subseteq job[c].entry.ports /\ owned \subseteq Targets BY <1>2
  <2> HIDE DEF owned
  <2>3. ports \subseteq job[c].entry.ports BY <2>1, <2>2, Distinct
  <2> DEFINE j == [job[c] EXCEPT !.step = "port", !.entry.ports = ports]
  <2>4. Go(c, j) BY <1>4, <2>1
  <2>5. /\ j \in Jobs /\ j.kind = "close" /\ j.step = "port" /\ j.token = job[c].token
        /\ j.entry.thread = job[c].entry.thread /\ j.entry.ports = ports
    BY <1>1, <1>2, <2>3 DEF Jobs, Entries
  <2> HIDE DEF j
  <2>6. Stops(j) BY <1>2, <2>3, <2>5 DEF Stops
  <2> QED BY <1>1, <2>4, <2>5, <2>6, ReadingKeeps
<1> QED BY <1>3, <1>4 DEF CloseRead

LEMMA ClosePortKeeps ==
  ASSUME IInv, NEW c \in Clients, ClosePort(c)
  PROVE  IInv'
<1>1. /\ job[c].kind = "close" /\ job[c].step = "port" /\ UNCHANGED <<procs, live, starts, sent, shown, view, stored, known>>
  BY DEF ClosePort, At, world
<1>2. job[c] \in Jobs /\ Stops(job[c]) /\ job[c].entry \in Entries /\ job[c].entry.ports \subseteq Targets BY <1>1, CallOf
<1>3. CASE Done(c) BY <1>1, <1>3, DoneKeeps
<1>4. ASSUME NEW x \in job[c].entry.ports,
             Go(c, [job[c] EXCEPT !.step = "signal", !.target = x, !.entry.ports = @ \ {x}, !.calm = TRUE])
      PROVE  IInv'
  <2> DEFINE j == [job[c] EXCEPT !.step = "signal", !.target = x, !.entry.ports = @ \ {x}, !.calm = TRUE]
  <2>1. /\ j \in Jobs /\ j.kind = "close" /\ j.step = "signal" /\ j.token = job[c].token /\ j.calm /\ j.target = x
        /\ j.entry.thread = job[c].entry.thread /\ j.entry.ports = job[c].entry.ports \ {x}
    BY <1>1, <1>2 DEF Jobs, Entries
  <2> HIDE DEF j
  <2>2. Stops(j) BY <1>2, <2>1 DEF Stops
  <2>3. Go(c, j) BY <1>4 DEF j
  <2> QED BY <1>1, <2>1, <2>2, <2>3, StepKeeps
<1>5. ASSUME NEW x \in job[c].entry.ports, Go(c, [job[c] EXCEPT !.entry.ports = @ \ {x}])
      PROVE  IInv'
  <2> DEFINE j == [job[c] EXCEPT !.entry.ports = @ \ {x}]
  <2>1. /\ j \in Jobs /\ j.kind = "close" /\ j.step = "port" /\ j.token = job[c].token
        /\ j.entry.thread = job[c].entry.thread /\ j.entry.ports = job[c].entry.ports \ {x}
    BY <1>1, <1>2 DEF Jobs, Entries
  <2> HIDE DEF j
  <2>2. Stops(j) BY <1>2, <2>1 DEF Stops
  <2>3. Go(c, j) BY <1>5 DEF j
  <2> QED BY <1>1, <2>1, <2>2, <2>3, StepKeeps
<1> QED BY <1>3, <1>4, <1>5 DEF ClosePort

LEMMA StopKeeps ==
  ASSUME IInv, NEW c \in Clients, NEW t \in Threads, Stop(c, t)
  PROVE  IInv'
<1>1. UNCHANGED <<procs, live, starts, sent, shown, view, stored, known>> BY DEF Stop, world
<1>2. PICK x \in {pair[2] : pair \in {k \in known : k[1] = t}} :
        Go(c, [NoJob EXCEPT !.kind = "stop", !.step = "signal", !.target = x, !.entry = [Nobody EXCEPT !.thread = t], !.calm = TRUE])
  BY DEF Stop
<1>3. known \subseteq Threads \X Targets BY DEF IInv, Types
<1>4. <<t, x>> \in known /\ x \in Targets BY <1>3
<1> DEFINE e == [Nobody EXCEPT !.thread = t]
           j == [NoJob EXCEPT !.kind = "stop", !.step = "signal", !.target = x, !.entry = e, !.calm = TRUE]
<1>5. e \in Entries /\ e.thread = t /\ e.ports = {} BY NoJobIs DEF Entries
<1> HIDE DEF e
<1>6. j \in Jobs /\ j.kind = "stop" /\ j.step = "signal" /\ j.entry = e /\ j.token = 0 /\ j.target = x /\ j.calm
  <2>1. NoJob.token = 0 BY DEF NoJob
  <2> QED BY <1>4, <1>5, <2>1, NoJobIs DEF Jobs
<1>7. Go(c, j) BY <1>2 DEF e
<1> HIDE DEF j
<1>8. Stops(j) BY <1>4, <1>5, <1>6 DEF Stops
<1> QED BY <1>1, <1>6, <1>7, <1>8, StepKeeps

-----------------------------------------------------------------------------
(***************************************************************************)
(* The signal.                                                             *)
(***************************************************************************)
\* The job after a signal was sent, or was not.
LEMMA AfterIs ==
  ASSUME IInv, NEW c \in Clients, job[c].step \in {"signal", "kill"}
  PROVE  /\ job[c].kind \in {"clean", "close", "stop"}
         /\ After(c) \in Jobs /\ After(c).kind = job[c].kind /\ After(c).token = job[c].token
         /\ After(c).todo = job[c].todo /\ After(c).entry = job[c].entry /\ After(c).target = job[c].target
         /\ After(c).step = IF job[c].kind = "stop" THEN "answer" ELSE "port"
<1>1. job[c] \in Jobs BY DEF IInv, Types
<1>2. job[c].kind \notin {"none", "preview"} BY DEF IInv, JobsInv, JobInv
<1> QED BY <1>1, <1>2 DEF After, Jobs

LEMMA AfterFits ==
  ASSUME IInv, NEW c \in Clients, job[c].step \in {"signal", "kill"}
  PROVE  /\ job[c].kind = "clean" => Cleans(After(c))
         /\ job[c].kind \in {"close", "stop"} => Stops(After(c))
<1> DEFINE j == After(c)
<1>1. /\ job[c].kind \in {"clean", "close", "stop"} /\ j.kind = job[c].kind /\ j.token = job[c].token
      /\ j.todo = job[c].todo /\ j.entry = job[c].entry /\ j.target = job[c].target
      /\ j.step = IF job[c].kind = "stop" THEN "answer" ELSE "port"
  BY AfterIs
<1> HIDE DEF j
<1>2. CASE job[c].kind = "clean"
  <2>1. Cleans(job[c]) BY <1>2, RunOf
  <2>2. Unsent(j) BY <1>1, <1>2, <2>1 DEF Cleans, Unsent
  <2>3. \A x : FromPreview(job[c], x) => FromPreview(j, x) BY <1>1, <1>2 DEF FromPreview
  <2>4. Cleans(j) BY <1>1, <1>2, <2>1, <2>2, <2>3 DEF Cleans
  <2> QED BY <1>2, <2>4 DEF j
<1>3. CASE job[c].kind \in {"close", "stop"}
  <2>1. Stops(job[c]) BY <1>3, CallOf
  <2>2. Stops(j) BY <1>1, <1>3, <2>1 DEF Stops
  <2> QED BY <1>3, <2>2 DEF j
<1> QED BY <1>1, <1>2, <1>3

LEMMA AfterKeeps ==
  ASSUME IInv, NEW c \in Clients, job[c].step \in {"signal", "kill"}, Go(c, After(c)),
         UNCHANGED <<procs, live, starts, sent, shown, view, stored, known>>
  PROVE  IInv'
BY AfterIs, AfterFits, StepKeeps

LEMMA LookKeeps ==
  ASSUME IInv, NEW c \in Clients, Look(c)
  PROVE  IInv'
<1>1. job[c].step = "signal" /\ UNCHANGED <<procs, live, starts, sent, shown, view, stored, known>> BY DEF Look, world
<1>2. CASE Go(c, After(c)) BY <1>1, <1>2, AfterKeeps
<1>3. CASE Go(c, [job[c] EXCEPT !.step = "kill"])
  <2> DEFINE j == [job[c] EXCEPT !.step = "kill"]
  <2>1. job[c] \in Jobs /\ job[c].kind \in {"clean", "close", "stop"} BY <1>1, AfterIs DEF IInv, Types
  <2>2. /\ j \in Jobs /\ j.kind = job[c].kind /\ j.token = job[c].token /\ j.todo = job[c].todo /\ j.entry = job[c].entry
        /\ j.target = job[c].target /\ j.calm = job[c].calm /\ j.step = "kill"
    BY <2>1 DEF Jobs
  <2>3. Go(c, j) BY <1>3
  <2> HIDE DEF j
  <2>4. CASE job[c].kind = "clean"
    <3>1. Cleans(job[c]) BY <2>4, RunOf
    <3>2. Unsent(j) BY <1>1, <2>2, <3>1 DEF Cleans, Unsent
    <3>3. \A x : FromPreview(job[c], x) => FromPreview(j, x) BY <1>1, <2>2 DEF FromPreview
    <3>4. Cleans(j) BY <1>1, <2>2, <3>1, <3>2, <3>3 DEF Cleans
    <3> QED BY <1>1, <2>2, <2>3, <2>4, <3>4, StepKeeps
  <2>5. CASE job[c].kind \in {"close", "stop"}
    <3>1. Stops(job[c]) BY <2>5, CallOf
    <3>2. Stops(j) BY <1>1, <2>2, <2>5, <3>1 DEF Stops
    <3> QED BY <1>1, <2>2, <2>3, <2>5, <3>2, StepKeeps
  <2> QED BY <2>1, <2>4, <2>5
<1> QED BY <1>2, <1>3 DEF Look

LEMMA AnswerKeeps ==
  ASSUME IInv, NEW c \in Clients, Answer(c)
  PROVE  IInv'
<1>1. Done(c) /\ UNCHANGED <<procs, live, starts, sent, shown, view, stored, known>> BY DEF Answer, world
<1> QED BY <1>1, DoneKeeps

LEMMA SentKeeps ==
  ASSUME IInv, NEW c \in Clients, NEW j \in Jobs, NEW s \in Signals, Go(c, j), sent' = Append(sent, s),
         UNCHANGED <<starts, view, stored, shown, known>>, procs' \subseteq procs, live' \subseteq live,
         s.calm, s.by = job[c].kind, s.token = job[c].token,
         s.by = "clean" => /\ Listed(s)
                           /\ \A i \in DOMAIN sent : sent[i].by = "clean" /\ sent[i].token = s.token => sent[i].what # s.what,
         s.by # "clean" => \E k \in known : k[1] = s.thread /\ k[2].pid = s.what[2] /\ k[2].startedAt = s.what[3],
         j.kind = job[c].kind, j.token = job[c].token,
         j.kind = "clean" => Cleans(j)',
         j.kind \in {"close", "stop"} => Stops(j)
  PROVE  IInv'
<1>1. /\ job \in [Clients -> Jobs] /\ s.by \in {"clean", "close", "stop"} /\ s.calm \in BOOLEAN
      /\ JobInv(c) /\ JobsInv
  BY DEF IInv, Types, Signals, JobsInv
<1>2. s.by = "clean" => s.token \in DOMAIN shown /\ s.token \notin DOMAIN stored BY <1>1 DEF JobInv, Cleans
<1>3. s.by # "clean" => s.token = 0 BY <1>1 DEF JobInv, Stops
<1>4. Previews' /\ StopsOnlyWhatWasShown' BY <1>2, <1>3, SignalKeeps
<1>5. \A d \in Clients \ {c} : job[d].kind = "clean" => Stays(job[d].token) /\ (j.kind = "clean" => j.token # job[d].token)
  <2> SUFFICES ASSUME NEW d \in Clients \ {c}, job[d].kind = "clean"
               PROVE  Stays(job[d].token) /\ (j.kind = "clean" => j.token # job[d].token)
    OBVIOUS
  <2>1. Cleans(job[d]) BY <1>1 DEF JobsInv, JobInv
  <2>2. job[c].kind = "clean" => job[c].token # job[d].token BY <1>1 DEF JobInv
  <2>3. \A i \in DOMAIN sent' : (i \in DOMAIN sent /\ sent'[i] = sent[i]) \/ sent'[i] = s BY Sending
  <2>4. \A i \in DOMAIN sent' : sent'[i].by = "clean" /\ sent'[i].token = job[d].token => i \in DOMAIN sent /\ sent'[i] = sent[i]
    BY <2>2, <2>3
  <2> QED BY <2>1, <2>2, <2>4 DEF Stays, Cleans
<1>6. j.kind \in {"close", "stop"} => Stops(j)' BY DEF Stops
<1>7. known \subseteq known' /\ job' = [job EXCEPT ![c] = j] BY DEF Go
<1>8. JobsInv' /\ job' \in [Clients -> Jobs] BY <1>1, <1>5, <1>6, <1>7, JobsChange
<1>9. sent' \in Seq(Signals) BY Sending
<1>10. Types' BY <1>8, <1>9 DEF IInv, Types
<1>11. OneEach' BY DEF IInv, OneEach, SameProcess
<1> QED BY <1>4, <1>8, <1>10, <1>11 DEF IInv

\* What a run has not closed of one thread, it has not closed of another.
LEMMA Fresh ==
  ASSUME IInv, NEW c \in Clients, job[c].kind = "clean",
         NEW x \in shown[job[c].token], FromPreview(job[c], x),
         NEW kind \in {"terminal", "process"}, NEW m, NEW n,
         kind = "terminal" => m \in x.terminals,
         kind = "process" => \E p \in x.ports : p.pid = m /\ p.startedAt = n,
         ~SentTo(job[c].token, job[c].entry.thread, kind, m, n)
  PROVE  \A i \in DOMAIN sent : sent[i].by = "clean" /\ sent[i].token = job[c].token => sent[i].what # <<kind, m, n>>
<1> SUFFICES ASSUME NEW i \in DOMAIN sent, sent[i].by = "clean", sent[i].token = job[c].token, sent[i].what = <<kind, m, n>>
             PROVE  FALSE
  OBVIOUS
<1>1. OneEntry(shown[job[c].token]) BY RunOf
<1>2. PICK y \in shown[job[c].token] :
        /\ y.thread = sent[i].thread
        /\ kind = "terminal" => m \in y.terminals
        /\ kind = "process" => \E p \in y.ports : p.pid = m /\ p.startedAt = n
  <2>1. Listed(sent[i]) BY DEF IInv, StopsOnlyWhatWasShown
  <2> QED BY <2>1 DEF Listed
<1>3. y.thread = x.thread BY <1>1, <1>2 DEF OneEntry, SameProcess
<1>4. sent[i].thread = job[c].entry.thread BY <1>2, <1>3 DEF FromPreview
<1> QED BY <1>4 DEF SentTo

LEMMA CloseTerminalKeeps ==
  ASSUME CleanAssumption, IInv, NEW c \in Clients, CloseTerminal(c)
  PROVE  IInv'
<1>1. /\ job[c].kind = "clean" /\ job[c].step = "close" /\ UNCHANGED <<procs, starts, shown, view, stored, known>>
  BY DEF CloseTerminal, At, world
<1>2. job[c] \in Jobs /\ Cleans(job[c]) /\ job[c].entry \in Entries /\ OneEntry(shown[job[c].token]) BY <1>1, RunOf
<1>3. PICK m \in job[c].entry.terminals :
        /\ Go(c, [job[c] EXCEPT !.step = "each", !.entry.terminals = @ \ {m}, !.calm = FALSE])
        /\ \/ /\ m \in live /\ live' = live \ {m}
              /\ sent' = Append(sent, [by |-> "clean", token |-> job[c].token, thread |-> job[c].entry.thread,
                                       what |-> <<"terminal", m, 0>>, calm |-> job[c].calm])
           \/ UNCHANGED <<live, sent>>
  BY DEF CloseTerminal
<1>4. PICK j : j = [job[c] EXCEPT !.step = "each", !.entry.terminals = @ \ {m}, !.calm = FALSE] OBVIOUS
<1>5. /\ j \in Jobs /\ j.kind = "clean" /\ j.token = job[c].token /\ j.todo = job[c].todo /\ j.step = "each"
      /\ j.entry \in Entries /\ j.entry.thread = job[c].entry.thread /\ j.entry.ports = job[c].entry.ports
      /\ j.entry.terminals = job[c].entry.terminals \ {m}
  BY <1>1, <1>2, <1>4 DEF Jobs, Entries
<1>6. Go(c, j) BY <1>3, <1>4
<1>7. PICK x \in shown[job[c].token] : FromPreview(job[c], x) BY <1>1, <1>2 DEF Cleans
<1>8. FromPreview(j, x) BY <1>5, <1>7 DEF FromPreview
<1>9. j.entry # Nobody
  <2>1. x.thread \in Threads /\ j.entry.thread = x.thread BY <1>2, <1>5, <1>7 DEF OneEntry, FromPreview
  <2> QED BY <2>1, NobodyIsNone
<1>10. Unsent(job[c]) /\ job[c].calm BY <1>1, <1>2 DEF Cleans
<1>11. Unsent(j) BY <1>5, <1>10 DEF Unsent
<1>12. CASE UNCHANGED <<live, sent>>
  <2>1. Cleans(j) BY <1>2, <1>5, <1>7, <1>8, <1>9, <1>11 DEF Cleans
  <2> QED BY <1>1, <1>5, <1>6, <1>12, <2>1, StepKeeps
<1> DEFINE s == [by |-> "clean", token |-> job[c].token, thread |-> job[c].entry.thread, what |-> <<"terminal", m, 0>>, calm |-> job[c].calm]
<1>13. CASE live' = live \ {m} /\ sent' = Append(sent, s)
  <2>1. /\ s \in Signals /\ s.by = "clean" /\ s.token = job[c].token /\ s.thread = job[c].entry.thread
        /\ s.what = <<"terminal", m, 0>> /\ s.calm = job[c].calm
    BY <1>2 DEF Signals, Jobs, Entries
  <2>2. PICK r : r = s OBVIOUS
  <2>3. sent' = Append(sent, r) BY <1>13, <2>2
  <2>4. /\ r \in Signals /\ r.by = "clean" /\ r.token = job[c].token /\ r.thread = job[c].entry.thread
        /\ r.what = <<"terminal", m, 0>> /\ r.calm
    BY <1>10, <2>1, <2>2
  <2> HIDE DEF s
  <2>5. m \in x.terminals BY <1>7 DEF FromPreview
  <2>6. Listed(r) BY <1>7, <2>4, <2>5 DEF Listed, FromPreview
  <2>7. ~SentTo(job[c].token, job[c].entry.thread, "terminal", m, 0) BY <1>10 DEF Unsent
  <2>8. \A i \in DOMAIN sent : sent[i].by = "clean" /\ sent[i].token = job[c].token => sent[i].what # <<"terminal", m, 0>>
    BY <1>1, <1>7, <2>5, <2>7, Fresh
  <2>9. \A i \in DOMAIN sent' : (i \in DOMAIN sent /\ sent'[i] = sent[i]) \/ sent'[i] = r BY <2>3, <2>4, Sending
  <2>10. Unsent(j)'
    <3>1. \A y \in j.todo : y.thread # job[c].entry.thread
      <4> SUFFICES ASSUME NEW y \in job[c].todo, y.thread = x.thread PROVE FALSE
        BY <1>5, <1>7 DEF FromPreview
      <4>1. y \in shown[job[c].token] BY <1>2 DEF Cleans
      <4>2. y = x BY <1>2, <4>1 DEF OneEntry
      <4> QED BY <1>7, <4>2 DEF FromPreview
    <3>2. \A y \in j.todo : \A i \in DOMAIN sent' : sent'[i].by = "clean" /\ sent'[i].token = j.token => sent'[i].thread # y.thread
      BY <1>5, <1>11, <2>4, <2>9, <3>1 DEF Unsent
    <3>3. \A n \in j.entry.terminals : ~SentTo(j.token, j.entry.thread, "terminal", n, 0)'
      BY <1>5, <1>11, <2>4, <2>9 DEF Unsent, SentTo
    <3>4. \A p \in j.entry.ports : ~SentTo(j.token, j.entry.thread, "process", p.pid, p.startedAt)'
      BY <1>5, <1>11, <2>4, <2>9 DEF Unsent, SentTo
    <3> QED BY <1>5, <3>2, <3>3, <3>4 DEF Unsent
  <2>11. Cleans(j)' BY <1>1, <1>2, <1>5, <1>7, <1>8, <1>9, <2>10 DEF Cleans, FromPreview
  <2> QED BY <1>1, <1>5, <1>6, <1>13, <2>3, <2>4, <2>6, <2>8, <2>11, SentKeeps
<1> QED BY <1>3, <1>12, <1>13

LEMMA KillKeeps ==
  ASSUME CleanAssumption, IInv, NEW c \in Clients, Kill(c)
  PROVE  IInv'
<1>1. /\ job[c].step = "kill" /\ Go(c, After(c)) /\ UNCHANGED <<live, starts, shown, view, stored, known>>
  BY DEF Kill
<1>2. CASE UNCHANGED <<procs, sent>> BY <1>1, <1>2, AfterKeeps
<1>3. ASSUME NEW p \in procs, p.pid = job[c].target.pid, IsTarget(procs, job[c].target),
             sent' = Append(sent, [by |-> job[c].kind, token |-> job[c].token, thread |-> job[c].entry.thread,
                                   what |-> <<"process", p.pid, p.startedAt>>, calm |-> job[c].calm]),
             procs' \in {procs \ {p}, procs}
      PROVE  IInv'
  <2>1. job[c] \in Jobs /\ p \in Processes BY DEF IInv, Types
  <2>2. job[c].kind \in {"clean", "close", "stop"} /\ After(c) \in Jobs BY <1>1, AfterIs
  <2>3. p.startedAt = job[c].target.startedAt
    <3>1. PICK q \in procs : q.pid = job[c].target.pid /\ q.startedAt = job[c].target.startedAt BY <1>3 DEF IsTarget
    <3>2. p = q BY <1>3, <3>1 DEF IInv, OneEach
    <3> QED BY <3>1, <3>2
  <2> DEFINE s == [by |-> job[c].kind, token |-> job[c].token, thread |-> job[c].entry.thread,
                   what |-> <<"process", p.pid, p.startedAt>>, calm |-> job[c].calm]
  <2>4. /\ s \in Signals /\ s.by = job[c].kind /\ s.token = job[c].token /\ s.thread = job[c].entry.thread
        /\ s.what = <<"process", job[c].target.pid, job[c].target.startedAt>> /\ s.calm = job[c].calm
    BY <1>3, <2>1, <2>2, <2>3 DEF Signals, Jobs, Entries, Processes
  <2>5. PICK r : r = s OBVIOUS
  <2>6. sent' = Append(sent, r) BY <1>3, <2>5
  <2>7. /\ r \in Signals /\ r.by = job[c].kind /\ r.token = job[c].token /\ r.thread = job[c].entry.thread
        /\ r.what = <<"process", job[c].target.pid, job[c].target.startedAt>> /\ r.calm = job[c].calm
    BY <2>4, <2>5
  <2> HIDE DEF s
  <2>8. PICK j : j = After(c) OBVIOUS
  <2>9. /\ j \in Jobs /\ j.kind = job[c].kind /\ j.token = job[c].token /\ j.todo = job[c].todo /\ j.entry = job[c].entry
        /\ j.target = job[c].target /\ j.step = IF job[c].kind = "stop" THEN "answer" ELSE "port"
        /\ Go(c, j)
    BY <1>1, <2>8, AfterIs
  <2>10. /\ job[c].kind = "clean" => Cleans(j)
         /\ job[c].kind \in {"close", "stop"} => Stops(j)
    BY <1>1, <2>8, AfterFits
  <2>11. procs' \subseteq procs BY <1>3
  <2>12. CASE job[c].kind \in {"close", "stop"}
    <3>1. Stops(job[c]) BY <2>12, CallOf
    <3>2. <<job[c].entry.thread, job[c].target>> \in known /\ job[c].calm BY <1>1, <3>1 DEF Stops
    <3>3. \E k \in known : k[1] = r.thread /\ k[2].pid = r.what[2] /\ k[2].startedAt = r.what[3] BY <2>7, <3>2
    <3> QED BY <1>1, <2>6, <2>7, <2>9, <2>10, <2>11, <2>12, <3>2, <3>3, SentKeeps
  <2>13. CASE job[c].kind = "clean"
    <3>1. Cleans(job[c]) /\ OneEntry(shown[job[c].token]) BY <2>13, RunOf
    <3>2. Unsent(job[c]) /\ job[c].calm BY <1>1, <3>1 DEF Cleans
    <3>3. PICK x \in shown[job[c].token] : FromPreview(job[c], x) BY <1>1, <3>1 DEF Cleans
    <3>4. job[c].target \in x.ports /\ x.thread = job[c].entry.thread BY <1>1, <3>3 DEF FromPreview
    <3>5. Listed(r) BY <2>7, <3>3, <3>4 DEF Listed
    <3>6. ~SentTo(job[c].token, job[c].entry.thread, "process", job[c].target.pid, job[c].target.startedAt)
      BY <1>1, <3>2 DEF Unsent
    <3>7. \A i \in DOMAIN sent : sent[i].by = "clean" /\ sent[i].token = job[c].token =>
            sent[i].what # <<"process", job[c].target.pid, job[c].target.startedAt>>
      BY <2>13, <3>3, <3>4, <3>6, Fresh
    <3>8. \A i \in DOMAIN sent' : (i \in DOMAIN sent /\ sent'[i] = sent[i]) \/ sent'[i] = r BY <2>6, <2>7, Sending
    <3>9. Cleans(j) BY <2>10, <2>13
    <3>10. Unsent(j)'
      <4>1. \A y \in j.todo : y.thread # job[c].entry.thread
        <5> SUFFICES ASSUME NEW y \in job[c].todo, y.thread = x.thread PROVE FALSE
          BY <2>9, <3>4
        <5>1. y \in shown[job[c].token] BY <3>1 DEF Cleans
        <5>2. y = x BY <3>1, <5>1 DEF OneEntry
        <5> QED BY <3>3, <5>2 DEF FromPreview
      <4>2. Unsent(j) BY <3>9 DEF Cleans
      <4>3. \A y \in j.todo : \A i \in DOMAIN sent' : sent'[i].by = "clean" /\ sent'[i].token = j.token => sent'[i].thread # y.thread
        BY <2>7, <2>9, <3>8, <4>1, <4>2 DEF Unsent
      <4>4. \A n \in j.entry.terminals : ~SentTo(j.token, j.entry.thread, "terminal", n, 0)'
        BY <2>7, <2>9, <3>8, <4>2 DEF Unsent, SentTo
      <4>5. \A q \in j.entry.ports : ~SameProcess(q, job[c].target) BY <1>1, <2>9, <3>2 DEF Unsent
      <4>6. \A q \in j.entry.ports : ~SentTo(j.token, j.entry.thread, "process", q.pid, q.startedAt)'
        BY <2>7, <2>9, <3>8, <4>2, <4>5 DEF Unsent, SentTo, SameProcess
      <4>7. \A q, t \in j.entry.ports : SameProcess(q, t) => q = t BY <2>9, <2>13, <4>2 DEF Unsent
      <4> QED BY <2>9, <2>13, <4>3, <4>4, <4>6, <4>7 DEF Unsent, SameProcess
    <3>11. Cleans(j)' BY <1>1, <2>9, <2>13, <3>9, <3>10 DEF Cleans, FromPreview
    <3> QED BY <1>1, <2>6, <2>7, <2>9, <2>11, <2>13, <3>2, <3>5, <3>7, <3>11, SentKeeps
  <2> QED BY <2>2, <2>12, <2>13
<1> QED BY <1>2, <1>3 DEF Kill

-----------------------------------------------------------------------------
LEMMA InitInv == CleanAssumption /\ CleanInit => IInv
<1> SUFFICES ASSUME CleanAssumption, CleanInit PROVE IInv
  OBVIOUS
<1>1. view.environments = [e \in Envs |-> {}] BY DEF CleanInit, NoView
<1>2. Types BY <1>1, NoJobIs DEF CleanInit, Types
<1>3. OneEach
  <2>1. \A t \in Threads : view.environments[EnvOf[t]] = {} BY <1>1 DEF CleanAssumption
  <2>2. \A t \in Threads : OwnedPortTargets(view.environments[EnvOf[t]], t) = {} BY <2>1 DEF OwnedPortTargets
  <2> QED BY <2>2 DEF CleanInit, OneEach
<1>4. Previews BY DEF CleanInit, Previews
<1>5. \A c \in Clients : job[c] = NoJob BY DEF CleanInit
<1>6. JobsInv BY <1>5, NoJobIs DEF JobsInv, JobInv
<1>7. StopsOnlyWhatWasShown BY DEF CleanInit, StopsOnlyWhatWasShown
<1> QED BY <1>2, <1>3, <1>4, <1>6, <1>7 DEF IInv

LEMMA NextInv == CleanAssumption /\ IInv /\ [CleanNext]_cleanVars => IInv'
<1> SUFFICES ASSUME CleanAssumption, IInv, [CleanNext]_cleanVars PROVE IInv'
  OBVIOUS
<1>1. ASSUME UNCHANGED <<procs, live, starts, view, stored, job, sent, shown, known>> PROVE IInv'
  BY <1>1, ExitKeeps
<1>2. CASE Age \/ UNCHANGED cleanVars BY <1>1, <1>2 DEF Age, world, cleanVars
<1>3. ASSUME NEW t \in Threads, Turn(t) PROVE IInv' BY <1>1, <1>3 DEF Turn, calls
<1>4. ASSUME NEW p \in procs, Exit(p) PROVE IInv' BY <1>4, ExitKeeps DEF Exit, calls
<1> QED
  BY <1>2, <1>3, <1>4, BeginKeeps, RestartKeeps, PollKeeps, ExpireKeeps, PreviewKeeps, RunKeeps, PreviewReadKeeps,
     PreviewStoreKeeps, RunNextKeeps, CheckKeeps, CloseTerminalKeeps, RunReadKeeps, RunPortKeeps, CloseKeeps, StopKeeps,
     CloseReadKeeps, ClosePortKeeps, LookKeeps, KillKeeps, AnswerKeeps
  DEF CleanNext

\* Clean, Close and Stop signal only what was listed to whoever asked, each once, and Clean only what its check found
\* settled (run of clean.ts, signalListener of host/scan.ts), however many ask, whatever wakes, ends or takes a pid.
THEOREM StopsNoOther == CleanAssumption => (CleanSpec => []StopsOnlyWhatWasShown)
<1> SUFFICES ASSUME CleanAssumption PROVE CleanSpec => []StopsOnlyWhatWasShown
  OBVIOUS
<1>1. CleanInit => IInv BY InitInv
<1>2. IInv /\ [CleanNext]_cleanVars => IInv' BY NextInv
<1>3. IInv => StopsOnlyWhatWasShown BY DEF IInv
<1> QED BY <1>1, <1>2, <1>3, PTL DEF CleanSpec
=============================================================================
