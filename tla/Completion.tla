----------------------------- MODULE Completion -----------------------------
(***************************************************************************)
(* How the OpenAI-inference plugin's host entry answers an AI task: it asks *)
(* an OpenAI-compatible server with some optional fields, drops those the   *)
(* server refuses and asks again, and remembers for the URL and model what  *)
(* was dropped when an answer succeeds. Tasks run at the same time and      *)
(* share what was learned, the servers change, the list of Endpoints        *)
(* changes, and bb stops the worker, which then reads what it saved.        *)
(***************************************************************************)
EXTENDS Naturals, FiniteSets

CONSTANTS
  Optional,     \* the optional fields
  Places,       \* the URLs, each with its one model
  Tasks,        \* the tasks that can run at once
  Unread,       \* the worker has not read the file yet
  MaxTroubles,  \* bound: other errors, lost writes, stops of the worker
  MaxServers,   \* bound: changes of a server
  MaxTasks,     \* bound: tasks sent
  MaxLists      \* bound: lists of Endpoints sent

CompletionAssumption ==
  /\ \A n \in {MaxTroubles, MaxServers, MaxTasks, MaxLists} : n \in Nat
  /\ IsFiniteSet(Optional)
  /\ Unread \notin [Places -> SUBSET Optional]

VARIABLES
  fields,   \* what each place refused, as the worker knows it
  file,     \* the same, as saved
  tasks,    \* the tasks that run
  refuses,  \* the fields the server at a place refuses
  version,  \* how often the server at a place changed
  source,   \* the server's version that taught what is known of a place; 0 is
            \* not known
  troubles, begun, lists

cvars == <<fields, file, tasks, refuses, version, source, troubles, begun, lists>>

NoTask == [step |-> "none"]

\* A 400 or 422 that is not about a field, such as a spent budget, may name
\* any field or none; so may a refusal.
Names == SUBSET Optional

CompletionInit ==
  /\ fields = Unread
  /\ file = [p \in Places |-> {}]
  /\ tasks = [t \in Tasks |-> NoTask]
  /\ refuses \in [Places -> SUBSET Optional]
  /\ version = [p \in Places |-> 1]
  /\ source = [p \in Places |-> 0]
  /\ troubles = 0 /\ begun = 0 /\ lists = 0

Known == IF fields = Unread THEN file ELSE fields

Trouble == troubles < MaxTroubles /\ troubles' = troubles + 1

\* `first` tells the request with what was learned from those after it.
BeginTask(t) ==
  /\ tasks[t] = NoTask
  /\ begun < MaxTasks
  /\ begun' = begun + 1
  /\ fields' = Known
  /\ \E p \in Places :
       tasks' = [tasks EXCEPT ![t] =
                   [step |-> "asks", place |-> p, learned |-> Known[p],
                    dropped |-> Known[p], first |-> TRUE, changed |-> FALSE, asked |-> 1]]
  /\ UNCHANGED <<file, refuses, version, source, troubles, lists>>

\* A task that changed what is known saves it before it answers.
Ending(task) == IF task.changed THEN [task EXCEPT !.step = "saves"] ELSE NoTask

Sent(task) == Optional \ task.dropped

\* What the next request leaves out. It is nothing again when the first
\* request is told of a field it did not send: the server has changed.
ForgetsAgain(task, named) ==  \* mutant: not only at the first request
  named \cap task.learned # {}

Forgets(task, named) == task.first /\ named \cap task.learned # {}

DropNext(task, named) ==
  LET told == named \cap Sent(task)
  IN IF Forgets(task, named) THEN {}
     ELSE task.dropped \cup (IF told = {} THEN Sent(task) ELSE told)

\* The server refuses the request. It is sent again with less, or the task
\* ends when nothing optional is left.
RefusedAnswer(t, named) ==
  LET task == tasks[t]
      gives_up == ~Forgets(task, named) /\ Sent(task) = {}
      again == [task EXCEPT !.dropped = DropNext(task, named), !.first = FALSE,
                            !.asked = @ + 1,
                            !.changed = @ \/ Forgets(task, named)]
  IN /\ tasks' = [tasks EXCEPT ![t] = IF gives_up THEN Ending(task) ELSE again]
     /\ fields' = IF Forgets(task, named) THEN [fields EXCEPT ![task.place] = {}]
                  ELSE fields
     /\ source' = IF Forgets(task, named)
                  THEN [source EXCEPT ![task.place] = version[task.place]]
                  ELSE source

Refuse(t) ==
  /\ tasks[t].step = "asks"
  /\ Sent(tasks[t]) \cap refuses[tasks[t].place] # {}
  /\ \E named \in Names : RefusedAnswer(t, named)
  /\ UNCHANGED <<file, refuses, version, troubles, begun, lists>>

RefuseOtherwise(t) ==
  /\ tasks[t].step = "asks"
  /\ Trouble
  /\ \E named \in Names : RefusedAnswer(t, named)
  /\ UNCHANGED <<file, refuses, version, begun, lists>>

LearnedFromFailure(t) ==  \* mutant: what a failed task dropped is kept
  [fields EXCEPT ![tasks[t].place] = tasks[t].dropped]

AfterFailure(t) == fields

\* Another error, a lost connection or a cancelled task.
Fail(t) ==
  /\ tasks[t].step = "asks"
  /\ Trouble
  /\ fields' = AfterFailure(t)
  /\ source' = IF fields' = fields THEN source
               ELSE [source EXCEPT ![tasks[t].place] = version[tasks[t].place]]
  /\ tasks' = [tasks EXCEPT ![t] = Ending(tasks[t])]
  /\ UNCHANGED <<file, refuses, version, begun, lists>>

\* The server answers. What was left out beyond what was learned is learned.
Learns(t) == ~tasks[t].first

LearnedBy(t) == [fields EXCEPT ![tasks[t].place] = tasks[t].dropped]

Succeed(t) ==
  LET task == tasks[t]
      p == task.place
  IN /\ task.step = "asks"
     /\ Sent(task) \cap refuses[p] = {}
     /\ fields' = IF Learns(t) THEN LearnedBy(t) ELSE fields
     /\ source' = IF Learns(t) THEN [source EXCEPT ![p] = version[p]] ELSE source
     /\ tasks' = [tasks EXCEPT ![t] = Ending([task EXCEPT !.changed = @ \/ Learns(t)])]
     /\ UNCHANGED <<file, refuses, version, troubles, begun, lists>>

\* Each save writes all that is known then; one that fails is passed over.
Save(t) ==
  /\ tasks[t].step = "saves"
  /\ \/ file' = fields /\ UNCHANGED troubles
     \/ Trouble /\ UNCHANGED file
  /\ tasks' = [tasks EXCEPT ![t] = NoTask]
  /\ UNCHANGED <<fields, refuses, version, source, begun, lists>>

\* The Endpoints' list: what is known of URLs it does not have is forgotten,
\* unless it is empty.
Configure ==
  /\ lists < MaxLists
  /\ lists' = lists + 1
  /\ \E listed \in SUBSET Places, others \in BOOLEAN :
       LET next == [p \in Places |-> IF p \in listed \/ (listed = {} /\ ~others)
                                     THEN Known[p] ELSE {}]
       IN /\ fields' = next
          /\ source' = [p \in Places |-> IF next[p] = Known[p] THEN source[p]
                                                               ELSE version[p]]
          /\ file' = IF next # Known THEN next ELSE file
  /\ UNCHANGED <<tasks, refuses, version, troubles, begun>>

\* bb stops the worker, and the tasks in it end.
StopWorker ==
  /\ Trouble
  /\ fields # Unread
  /\ fields' = Unread
  /\ tasks' = [t \in Tasks |-> NoTask]
  /\ source' = [p \in Places |-> IF file[p] = fields[p] THEN source[p] ELSE 0]
  /\ UNCHANGED <<file, refuses, version, begun, lists>>

ServerChanges ==
  /\ \E p \in Places :
       /\ version[p] <= MaxServers
       /\ version' = [version EXCEPT ![p] = @ + 1]
       /\ \E set \in SUBSET Optional : refuses' = [refuses EXCEPT ![p] = set]
  /\ UNCHANGED <<fields, file, tasks, source, troubles, begun, lists>>

Answers(t) == Refuse(t) \/ Succeed(t) \/ Fail(t) \/ RefuseOtherwise(t)

CompletionNext ==
  \/ \E t \in Tasks : BeginTask(t) \/ Answers(t) \/ Save(t)
  \/ Configure \/ StopWorker \/ ServerChanges

CompletionSpec == CompletionInit /\ [][CompletionNext]_cvars

----------------------------------------------------------------------------
\* What is kept as refused by a URL, and was taught by the server as it is,
\* holds every field that server refuses, so that the next task is answered
\* at the first request. A failed answer teaches nothing, whatever it names
\* and whichever tasks run beside it (complete.ts, complete; handlers.ts).
KnowsTheServer ==
  fields # Unread =>
    \A p \in Places :
      fields[p] # {} /\ source[p] = version[p] =>
        refuses[p] \subseteq fields[p]

\* A task asks no more often than once for what was learned, once with every
\* field and once for each field it drops, whatever the server names in its
\* refusals (complete.ts's loop).
TasksEnd ==
  \A t \in Tasks : tasks[t] # NoTask => tasks[t].asked <= Cardinality(Optional) + 2
=============================================================================
