----------------------------- MODULE Endpoints -----------------------------
(***************************************************************************)
(* The OpenAI-inference plugin's Endpoints and their literal keys: the      *)
(* stored list, which never holds a key, and the primary host's key file,   *)
(* which keeps each key with the URL it was typed for.                      *)
(*                                                                          *)
(* A change to an Endpoint is two writes on two machines, the key file      *)
(* first and the list second, and either may fail, or the server may stop   *)
(* between them. Requests to the Endpoints go on all the while. The copy of *)
(* what version 0.3 kept in its settings is one more change, tried again    *)
(* until it succeeds.                                                       *)
(*                                                                          *)
(* A key is named by the URL it was typed for: all that matters of its text *)
(* is where it may be sent.                                                 *)
(***************************************************************************)
EXTENDS Naturals, TLC

CONSTANTS
  Ids,          \* the ids Endpoints can have
  Urls,         \* the URLs typed
  Unset,        \* the variables bb's environment on the host lacks
  Variables,    \* the variables a key can refer to
  NoEndpoint,   \* there is no Endpoint with this id
  NoKey,        \* the key file has no key for this id
  Idle,         \* no operation runs
  Legacy,       \* what 0.3 saved: id -> [url, key], a literal key or NoKey
  MaxChanges,   \* bound: calls of the page and the command
  MaxRequests,  \* bound: AI tasks sent
  MaxFailures   \* bound: failed steps and restarts

\* What an operation can be: Idle is none of them.
Operations ==
  [kind : {"save", "remove", "copy"}, id : Ids,
   next : [Ids -> {NoEndpoint} \cup
             [url : Urls \cup {Legacy[i].url : i \in DOMAIN Legacy}, model : BOOLEAN,
              key : {[kind |-> "none"]} \cup [kind : {"literal"}, set : BOOLEAN]
                      \cup [kind : {"variable"}, name : Variables]]],
   file : {"keep", "put", "remove"}, url : Urls \cup {Legacy[i].url : i \in DOMAIN Legacy} \cup {""},
   puts : SUBSET Ids, step : {"file", "write", "undo"}]

EndpointsAssumption ==
  /\ Idle \notin Operations
  /\ Unset \subseteq Variables
  /\ DOMAIN Legacy \subseteq Ids
  /\ \A i \in DOMAIN Legacy : Legacy[i].key \in BOOLEAN /\ Legacy[i].model \in BOOLEAN
  /\ \A url \in Urls \cup {Legacy[i].url : i \in DOMAIN Legacy} : [url |-> url, key |-> url] # NoKey
  /\ \A n \in {MaxChanges, MaxRequests, MaxFailures} : n \in Nat

VARIABLES
  saved,      \* the list in the plugin's storage
  keys,       \* the key file on the primary host
  op,         \* the operation that runs: they run one at a time
  endpoints,  \* the list as the server has it in memory
  report,     \* the Endpoints last sent to the host, and how that went
  request,    \* the AI task on its way to the host, with its Endpoint
  sent,       \* the last request the host sent on: its URL and its key
  copying,    \* where the copy of the old settings is
  old,        \* the old settings: whether they can be read and hold keys
  copied,     \* the stored mark that the copy is done
  told,       \* ids whose last change failed or was cut off
  changes, requests, failures

vars == <<saved, keys, op, endpoints, report, request, sent, copying, old,
          copied, told, changes, requests, failures>>

None == [kind |-> "none"]
Literal(set) == [kind |-> "literal", set |-> set]
Variable(name) == [kind |-> "variable", name |-> name]

\* What a card or the command can hold for the key: a literal key that is
\* not typed again is blank.
KeyDrafts == {None, [kind |-> "blank"], [kind |-> "typed"]}
               \cup {Variable(v) : v \in Variables}

Keep == "keep"
Put == "put"
Remove == "remove"

----------------------------------------------------------------------------
\* The rules

HoldsLiteralKey(e) ==
  /\ e # NoEndpoint
  /\ e.key.kind = "literal"
  /\ e.key.set

ClearsLiteralKey(e, url) == HoldsLiteralKey(e) /\ e.url # url

\* What saving a draft stores and does to the key file. The other field
\* errors, of the id's and the URL's shape, change nothing and are left out.
StoredKeySet(e, url, key) ==  \* mutant: a changed URL keeps the key set
  CASE key.kind = "typed" -> Literal(TRUE)
    [] key.kind = "blank" -> Literal(TRUE)
    [] OTHER -> key

StoredKey(e, url, key) ==
  CASE key.kind = "typed" -> Literal(TRUE)
    [] key.kind = "blank" -> Literal(~ClearsLiteralKey(e, url))
    [] OTHER -> key

KeyFileAction(e, url, key) ==
  CASE key.kind = "typed" -> Put
    [] key.kind = "blank" -> IF ClearsLiteralKey(e, url) THEN Remove ELSE Keep
    [] OTHER -> IF HoldsLiteralKey(e) THEN Remove ELSE Keep

Refused(e, key, create) ==
  \/ create /= (e = NoEndpoint)
  \/ key.kind = "blank" /\ ~HoldsLiteralKey(e)

\* What the command sends to save: it never types, changes or clears a
\* literal key.
CommandKey(e, given) ==
  CASE given # None -> given
    [] e = NoEndpoint -> None
    [] e.key.kind = "literal" -> [kind |-> "blank"]
    [] OTHER -> e.key

MissingOf(e) == IF e.key.kind = "variable" THEN {e.key.name} \cap Unset ELSE {}

Ready(e, missing) ==
  /\ e.model
  /\ ~(e.key.kind = "literal" /\ ~e.key.set)
  /\ missing = {}

\* An old Endpoint as the copy stores it; one saved before 0.2 has no model.
FromLegacy(id) ==
  [url |-> Legacy[id].url,
   model |-> Legacy[id].model,
   key |-> IF Legacy[id].key /\ old.keys THEN Literal(TRUE) ELSE None]

----------------------------------------------------------------------------
EndpointsInit ==
  /\ saved = [i \in Ids |-> NoEndpoint]
  /\ keys = [i \in Ids |-> NoKey]
  /\ op = Idle
  /\ endpoints = saved
  /\ report = [list |-> endpoints, state |-> "sent"]
  /\ request = Idle
  /\ sent = Idle
  /\ copied = FALSE
  /\ old \in [readable: BOOLEAN, keys: {TRUE}]
  /\ copying = "read"
  /\ told = {}
  /\ changes = 0 /\ requests = 0 /\ failures = 0

\* The list is stored: the services are registered again, and the host is
\* sent the list so that it says what it lacks.
Changed(next) ==
  /\ saved' = next
  /\ endpoints' = next
  /\ report' = [list |-> next, state |-> "sent"]

NotChanged == UNCHANGED <<saved, endpoints, report>>

Fails == failures < MaxFailures /\ failures' = failures + 1

\* An operation begins with the list as it is then. The key file's step, if
\* any, comes before the list is written.
Start(kind, id, next, file, url) ==
  /\ op' = [kind |-> kind, id |-> id, next |-> next, file |-> file,
            url |-> url, puts |-> {},
            step |-> IF file = Keep THEN "write" ELSE "file"]
  /\ UNCHANGED <<saved, keys, endpoints, report, request, sent, copying, old,
                 copied, told, requests, failures>>

SaveNow(id, url, key, create) ==
  LET e == saved[id]
      stored == [url |-> url, model |-> TRUE, key |-> StoredKey(e, url, key)]
  IN /\ ~Refused(e, key, create)
     /\ Start("save", id, [saved EXCEPT ![id] = stored],
              KeyFileAction(e, url, key), url)

Calls == op = Idle /\ changes < MaxChanges /\ changes' = changes + 1

SaveCard ==
  /\ Calls
  /\ \E id \in Ids, url \in Urls, key \in KeyDrafts, create \in BOOLEAN :
       SaveNow(id, url, key, create)

\* The command refuses a URL that would clear a literal key.
SetByCommand ==
  /\ Calls
  /\ \E id \in Ids, url \in Urls, given \in {None} \cup {Variable(v) : v \in Variables} :
       /\ ~ClearsLiteralKey(saved[id], url)
       /\ SaveNow(id, url, CommandKey(saved[id], given), saved[id] = NoEndpoint)

RemoveEndpoint ==
  /\ Calls
  /\ \E id \in Ids :
       /\ saved[id] # NoEndpoint
       /\ Start("remove", id, [saved EXCEPT ![id] = NoEndpoint],
                IF saved[id].key.kind = "literal" THEN Remove ELSE Keep,
                saved[id].url)

\* The copy adds what is not here yet. Its keys are put one by one, then the
\* list is written; with nothing to add it ends at once.
Copy ==
  LET fresh == {i \in DOMAIN Legacy : saved[i] = NoEndpoint}
      puts == {i \in fresh : Legacy[i].key /\ old.keys}
  IN /\ op = Idle
     /\ copying = "read"
     /\ old.readable
     /\ IF fresh = {}
        THEN copying' = "clear" /\ UNCHANGED op
        ELSE /\ copying' = "copying"
             /\ op' = [kind |-> "copy", id |-> CHOOSE i \in fresh : TRUE,
                       next |-> [i \in Ids |-> IF i \in fresh THEN FromLegacy(i)
                                                              ELSE saved[i]],
                       file |-> Put, url |-> "", puts |-> puts,
                       step |-> IF puts = {} THEN "write" ELSE "file"]
     /\ UNCHANGED <<saved, keys, endpoints, report, request, sent, old, copied,
                    told, changes, requests, failures>>

----------------------------------------------------------------------------
\* The steps of an operation

FileChange(i) ==
  IF op.file = Remove THEN NoKey
  ELSE IF op.kind = "copy" THEN [url |-> Legacy[i].url, key |-> Legacy[i].url]
       ELSE [url |-> op.url, key |-> op.url]

Targets == IF op.kind = "copy" THEN op.puts ELSE {op.id}

WriteFile ==
  /\ op # Idle /\ op.step = "file"
  /\ \E i \in Targets :
       /\ keys' = [keys EXCEPT ![i] = FileChange(i)]
       /\ op' = [op EXCEPT !.puts = @ \ {i},
                           !.step = IF Targets = {i} THEN "write" ELSE "file"]
  /\ NotChanged
  /\ UNCHANGED <<request, sent, copying, old, copied, told, changes, requests, failures>>

\* The operation ends with an error, which the page shows and the copy's
\* loop answers by waiting and trying again.
EndFailed ==
  /\ op' = Idle
  /\ told' = told \cup (IF op.kind = "copy" THEN {} ELSE {op.id})
  /\ copying' = IF op.kind = "copy" THEN "wait" ELSE copying

\* The host's answer is an error, or is lost after the host made the change.
FailFile ==
  /\ op # Idle /\ op.step = "file"
  /\ Fails
  /\ \E i \in Targets, made \in BOOLEAN :
       keys' = IF made THEN [keys EXCEPT ![i] = FileChange(i)] ELSE keys
  /\ EndFailed
  /\ NotChanged
  /\ UNCHANGED <<request, sent, old, copied, changes, requests>>

\* A key kept through a later save is not made good by it: a failed change
\* that lost the key leaves the Endpoint as one whose key is set.
Kept == IF op.file = Keep THEN {i \in Ids : HoldsLiteralKey(op.next[i])} ELSE {}

WriteList ==
  /\ op # Idle /\ op.step = "write"
  /\ Changed(op.next)
  /\ op' = Idle
  /\ told' = told \ {i \in Ids : op.next[i] # saved[i] /\ i \notin Kept}
  /\ copying' = IF op.kind = "copy" THEN "clear" ELSE copying
  /\ UNCHANGED <<keys, request, sent, old, copied, changes, requests, failures>>

\* A key put for an Endpoint that could not be stored is taken out again when
\* the Endpoint held none before.
FailList ==
  /\ op # Idle /\ op.step = "write"
  /\ Fails
  /\ IF op.kind = "save" /\ op.file = Put /\ ~HoldsLiteralKey(saved[op.id])
     THEN op' = [op EXCEPT !.step = "undo"] /\ UNCHANGED <<told, copying>>
     ELSE EndFailed
  /\ NotChanged
  /\ UNCHANGED <<keys, request, sent, old, copied, changes, requests>>

\* The undo's own failure is passed over.
UndoPut ==
  /\ op # Idle /\ op.step = "undo"
  /\ \/ /\ keys' = [keys EXCEPT ![op.id] = NoKey]
        /\ UNCHANGED failures
     \/ Fails /\ UNCHANGED keys
  /\ EndFailed
  /\ NotChanged
  /\ UNCHANGED <<request, sent, old, copied, changes, requests>>

----------------------------------------------------------------------------
\* The copy's loop beside the operations: once the Endpoints are copied the
\* old keys are cleared, the mark is stored and the plugin loads again
\* without the old settings.

ClearOldKeys ==
  /\ copying = "clear"
  /\ \/ /\ old' = [old EXCEPT !.keys = FALSE]
        /\ copying' = "flag"
        /\ UNCHANGED failures
     \/ Fails /\ copying' = "wait" /\ UNCHANGED old
  /\ NotChanged
  /\ UNCHANGED <<keys, op, request, sent, copied, told, changes, requests>>

StoreCopied ==
  /\ copying = "flag"
  /\ \/ copied' = TRUE /\ copying' = "done" /\ UNCHANGED failures
     \/ Fails /\ copying' = "wait" /\ UNCHANGED copied
  /\ NotChanged
  /\ UNCHANGED <<keys, op, request, sent, old, told, changes, requests>>

\* The wait is over, by its time or because a person saved the old setting.
Again ==
  /\ \/ copying = "wait" /\ UNCHANGED old
     \/ /\ copying = "read" /\ ~old.readable
        /\ old' = [old EXCEPT !.readable = TRUE]
  /\ copying' = "read"
  /\ NotChanged
  /\ UNCHANGED <<keys, op, request, sent, copied, told, changes, requests, failures>>

\* The server stops: what it did so far stays, and a call on its way to the
\* host is made or lost. It starts again with the list as stored.
Restart ==
  /\ Fails
  /\ \/ UNCHANGED keys
     \/ /\ op # Idle /\ op.step = "file"
        /\ \E i \in Targets : keys' = [keys EXCEPT ![i] = FileChange(i)]
  /\ told' = told \cup (IF op # Idle /\ op.kind # "copy" THEN {op.id} ELSE {})
  /\ op' = Idle
  /\ endpoints' = saved
  /\ report' = [list |-> saved, state |-> "sent"]
  /\ copying' = IF copied THEN "done" ELSE "read"
  /\ request' = Idle
  /\ UNCHANGED <<saved, sent, old, copied, changes, requests>>

----------------------------------------------------------------------------
\* The AI tasks

\* The host says which variables it lacks for the list it was sent.
ReportArrives ==
  /\ report.state = "sent"
  /\ \/ report' = [report EXCEPT !.state = "answered"] /\ UNCHANGED failures
     \/ Fails /\ report' = [report EXCEPT !.state = "failed"]
  /\ UNCHANGED <<saved, keys, op, endpoints, request, sent, copying, old, copied,
                 told, changes, requests>>

\* A status read sends the list again when the last send failed.
SendAgain ==
  /\ report.state = "failed"
  /\ report' = [list |-> endpoints, state |-> "sent"]
  /\ UNCHANGED <<saved, keys, op, endpoints, request, sent, copying, old, copied,
                 told, changes, requests, failures>>

\* bb asks an Endpoint's status before every AI task; a ready one is sent the
\* task with the Endpoint as the server has it then.
SendTask ==
  /\ request = Idle
  /\ requests < MaxRequests
  /\ report.state = "answered"
  /\ \E id \in Ids :
       /\ endpoints[id] # NoEndpoint
       /\ Ready(endpoints[id],
                IF report.list[id] = NoEndpoint THEN {} ELSE MissingOf(report.list[id]))
       /\ request' = [id |-> id, e |-> endpoints[id]]
  /\ requests' = requests + 1
  /\ UNCHANGED <<saved, keys, op, endpoints, report, sent, copying, old, copied,
                 told, changes, failures>>

\* The key the host would use: the one it holds for the Endpoint's URL.
HeldKeyAny(id, e) ==  \* mutant: whatever URL the key was typed for
  IF e.key.kind = "literal" /\ keys[id] # NoKey THEN keys[id].key ELSE NoKey

HeldKey(id, e) ==
  IF e.key.kind = "literal" /\ keys[id] # NoKey /\ keys[id].url = e.url
  THEN keys[id].key ELSE NoKey

\* The host sends the task on, or refuses it: its literal key is not held for
\* its URL, or a variable is missing.
HandleTask ==
  /\ request # Idle
  /\ LET e == request.e
         key == HeldKey(request.id, e)
     IN sent' = IF /\ Ready(e, MissingOf(e))
                   /\ ~(e.key.kind = "literal" /\ key = NoKey)
                THEN [url |-> e.url, key |-> key]
                ELSE Idle
  /\ request' = Idle
  /\ UNCHANGED <<saved, keys, op, endpoints, report, copying, old, copied, told,
                 changes, requests, failures>>

EndpointsNext ==
  \/ SaveCard \/ SetByCommand \/ RemoveEndpoint \/ Copy
  \/ WriteFile \/ FailFile \/ WriteList \/ FailList \/ UndoPut
  \/ ClearOldKeys \/ StoreCopied \/ Again \/ Restart
  \/ ReportArrives \/ SendAgain \/ SendTask \/ HandleTask

EndpointsSpec == EndpointsInit /\ [][EndpointsNext]_vars

----------------------------------------------------------------------------
\* A literal key reaches no server but the one it was typed for, however far
\* a change of the Endpoint has got and wherever it was cut off: a task sent
\* with the Endpoint as it was meets a key file already changed, and one sent
\* after it one not yet changed (handlers.ts, complete; manage.ts, saveNow).
KeyStaysHome == sent # Idle /\ sent.key # NoKey => sent.key = sent.url

\* An Endpoint listed as having its key has it on the host, for its URL, once
\* no operation runs, unless a change of it was reported as failed or was cut
\* off by a stop and no key was put or given up since (manage.ts, saveNow, set, remove and copy).
SetMeansHeld ==
  op = Idle =>
    \A i \in Ids : HoldsLiteralKey(saved[i]) /\ i \notin told =>
                     keys[i] # NoKey /\ keys[i].url = saved[i].url
=============================================================================
