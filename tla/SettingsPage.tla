---------------------------- MODULE SettingsPage ----------------------------
(***************************************************************************)
(* Thread-glance's settings, from the page where they are typed to the     *)
(* record on the server and back: the page's autosave                      *)
(* (features/settings/model/autosave.ts, edits.ts), the record             *)
(* (server/settings-store.ts, shared/settings.ts), the versioned channel   *)
(* it is published on (server/versioned.ts) and the window's copy of it    *)
(* with the browser's cache (sync/plugin-data.ts, sync/versioned.ts,       *)
(* storage/device-state.ts).  Another window, or the command line, writes  *)
(* the same record.                                                        *)
(*                                                                         *)
(* A field's value is one of Values or Bad, which its schema refuses.  The *)
(* messages of a restarted server's earlier life are lost with it, and the *)
(* page is opened again only once what the last visit sent was answered.   *)
(***************************************************************************)
EXTENDS Integers, Sequences

CONSTANTS
  Fields, Values, Default, Bad, NoCopy, NoCall,
  MaxEdits, MaxOthers, MaxFaults, MaxSyncs    \* bounds

Records == [Fields -> Values]
\* A copy: a record with its epoch, its version, and, as history, how many records the server had had.
Copies == [epoch : Nat, version : Nat, value : Records, at : Nat]

ASSUME SettingsAssumption == Default \in Values /\ Bad \notin Values
ASSUME NullsAssumption == NoCopy \notin Copies /\ NoCopy \notin Records

VARIABLES
  stored,     \* the record in the key-value store
  epoch, version,
  publishing, \* whether a stored change is still to be published, and for which caller
  calls,      \* the writes that wait their turn
  inbox,      \* answers and signals on their way to the window
  held,       \* the window's copy
  device,     \* what the browser has cached of it
  page,       \* the page: its edits, its timer, the save in flight
  open,       \* whether the page is
  edited, others, faults, syncs,
  \* history
  log,        \* the records the server has had
  typed       \* every field with every value someone has asked for

serverVars == <<stored, epoch, version, publishing, calls, log>>
windowVars == <<held, device>>
pageVars == <<page, open>>
counters == <<edited, others, faults, syncs>>
settingsVars == <<serverVars, inbox, windowVars, pageVars, counters, typed>>

Defaults == [f \in Fields |-> Default]

-----------------------------------------------------------------------------
(***************************************************************************)
(* The rules.  A patch is a function from the fields it sets.              *)
(***************************************************************************)
\* readSettings: a field stored invalid is its default.
ReadSettings(kept) == [f \in Fields |-> IF kept[f] \in Values THEN kept[f] ELSE Default]
NoEdits == [f \in {} |-> Default]
Only(f, value) == [g \in {f} |-> value]
ApplyPatch(now, patch) ==
  [f \in DOMAIN now \cup DOMAIN patch |-> IF f \in DOMAIN patch THEN patch[f] ELSE now[f]]
Without(edits, fields) == [f \in DOMAIN edits \ fields |-> edits[f]]

\* isNewer: within one epoch a higher version, and a new epoch always.
IsNewerAny(copy, incoming) == TRUE    \* mutant: whatever comes last is kept
IsNewer(copy, incoming) == copy = NoCopy \/ copy.epoch # incoming.epoch \/ incoming.version > copy.version
\* A copy read from the cache gives way to anything the server sends.
Newer(copy, incoming) ==
  IF IsNewer(IF copy # NoCopy /\ copy.epoch = 0 THEN NoCopy ELSE copy, incoming) THEN incoming ELSE copy
Shown(copy) == IF copy = NoCopy THEN Defaults ELSE copy.value

\* assessEdits: what to send, and what the server has already.
AssessWhole(server, edits) ==    \* mutant: the page sends every field as it shows it
  LET valid == {f \in DOMAIN edits : edits[f] \in Values}
      changed == {f \in valid : edits[f] # server[f]}
  IN [patch |-> IF changed = {} THEN NoEdits ELSE [f \in Fields |-> IF f \in changed THEN edits[f] ELSE server[f]],
      unchanged |-> valid \ changed]
AssessEdits(server, edits) ==
  LET valid == {f \in DOMAIN edits : edits[f] \in Values}
      changed == {f \in valid : edits[f] # server[f]}
  IN [patch |-> [f \in changed |-> edits[f]], unchanged |-> valid \ changed]

\* send, up to the call: what is unchanged is no longer an edit; the call waits its turn.
NewPage == [edits |-> NoEdits, timer |-> FALSE, sending |-> NoCall, again |-> FALSE, status |-> "idle"]
Send(p, server) ==
  LET found == AssessEdits(server, p.edits)
  IN IF DOMAIN found.patch = {}
     THEN [p EXCEPT !.again = FALSE, !.sending = NoCall, !.edits = Without(@, found.unchanged),
                    !.status = IF @ = "saving" THEN "idle" ELSE @]
     ELSE [p EXCEPT !.again = FALSE, !.sending = [patch |-> found.patch, unchanged |-> found.unchanged]]
\* run: one save at a time, and one more after it.
Run(p, server) == IF p.sending # NoCall THEN [p EXCEPT !.again = TRUE] ELSE Send(p, server)
\* send, from the answer: a field typed again while the save ran stays an edit.
Saved(p) ==
  LET same == {f \in DOMAIN p.edits \cap DOMAIN p.sending.patch : p.edits[f] = p.sending.patch[f]}
  IN [p EXCEPT !.edits = Without(@, same \cup p.sending.unchanged), !.status = IF p.timer \/ p.again THEN "saving" ELSE "saved"]
Failed(p) == [p EXCEPT !.status = "failed"]
\* run's loop, when a save ends.
Loop(p, server) == IF p.again THEN Send(p, server) ELSE [p EXCEPT !.sending = NoCall]
\* A page that has begun a save has a call to make.
Calls(before, after) ==
  IF after.sending # NoCall /\ after.sending # before.sending
  THEN calls \cup {[from |-> "page", patch |-> after.sending.patch]} ELSE calls

-----------------------------------------------------------------------------
SettingsInit ==
  /\ stored \in [Fields -> {Default, Bad}]
  /\ epoch = 1 /\ version = 1 /\ publishing = NoCall
  /\ calls = {} /\ inbox = {}
  /\ held = NoCopy /\ device = NoCopy
  /\ page = NewPage /\ open = TRUE
  /\ edited = 0 /\ others = 0 /\ faults = 0 /\ syncs = 0
  /\ log = <<ReadSettings(stored)>> /\ typed = {}

-----------------------------------------------------------------------------
(***************************************************************************)
(* The page.                                                               *)
(***************************************************************************)
Edit(f, value) ==
  /\ open /\ edited < MaxEdits
  /\ LET edits == ApplyPatch(page.edits, Only(f, value))
         sends == DOMAIN AssessEdits(Shown(held), edits).patch # {}
     IN page' = [page EXCEPT !.edits = edits, !.timer = TRUE,
                             !.status = IF sends \/ @ = "saving" THEN "saving" ELSE "idle"]
  /\ edited' = edited + 1 /\ typed' = typed \cup {<<f, value>>}
  /\ UNCHANGED <<serverVars, inbox, windowVars, open, others, faults, syncs>>

\* The 500 ms are over, or the page is left (flush): what waits is sent.
RunPage(leaves) ==
  /\ IF page.timer THEN page' = Run([page EXCEPT !.timer = FALSE], Shown(held)) ELSE leaves /\ page' = page
  /\ calls' = Calls(page, page')
  /\ UNCHANGED <<stored, epoch, version, publishing, log, inbox, windowVars, counters, typed>>
TimerFires == page.timer /\ RunPage(FALSE) /\ open' = open
Leave == open /\ RunPage(TRUE) /\ open' = FALSE
\* The page is mounted again, once the save of its last visit is over.
Return ==
  /\ ~open /\ page.sending = NoCall
  /\ open' = TRUE /\ page' = NewPage
  /\ UNCHANGED <<serverVars, inbox, windowVars, counters, typed>>
\* "Saved" has shown for two seconds.
Fade ==
  /\ page.status = "saved" /\ page' = [page EXCEPT !.status = "idle"]
  /\ UNCHANGED <<serverVars, inbox, windowVars, open, counters, typed>>

\* An answer to the page's save, or its failure: it is over, and the next one begins.
Answer(m) ==
  /\ m \in inbox /\ m.to = "page" /\ page.sending # NoCall
  /\ inbox' = inbox \ {m}
  /\ held' = IF m.ok THEN Newer(held, m.copy) ELSE held
  /\ page' = Loop(IF m.ok THEN Saved(page) ELSE Failed(page), Shown(held'))
  /\ calls' = Calls([page EXCEPT !.sending = NoCall], page')
  /\ UNCHANGED <<stored, epoch, version, publishing, log, device, open, counters, typed>>

-----------------------------------------------------------------------------
(***************************************************************************)
(* The server: the writes of every window and of the command line, one at  *)
(* a time.                                                                 *)
(***************************************************************************)
\* Another window's save, or `bb thread-glance prefs set` and `reset`.
OtherWrites(f, value) ==
  /\ others < MaxOthers /\ others' = others + 1
  /\ calls' = calls \cup {[from |-> "other", patch |-> Only(f, value)]}
  /\ typed' = typed \cup {<<f, value>>}
  /\ UNCHANGED <<stored, epoch, version, publishing, log, inbox, windowVars, pageVars, edited, faults, syncs>>

Copy(value) == [epoch |-> epoch, version |-> version, value |-> value, at |-> Len(log)]
Reply(call, ok) == IF call.from = "page" THEN {[to |-> "page", ok |-> ok, copy |-> Copy(log[Len(log)])]} ELSE {}
\* write: a patch with an invalid field is refused whole; one that changes nothing is answered and not published.
Refuse(call) ==
  /\ call \in calls /\ publishing = NoCall
  /\ \E f \in DOMAIN call.patch : call.patch[f] \notin Values
  /\ calls' = calls \ {call} /\ inbox' = inbox \cup Reply(call, FALSE)
  /\ UNCHANGED <<stored, epoch, version, publishing, log, windowVars, pageVars, counters, typed>>
Store(call) ==
  /\ call \in calls /\ publishing = NoCall
  /\ \A f \in DOMAIN call.patch : call.patch[f] \in Values
  /\ calls' = calls \ {call}
  /\ LET next == ApplyPatch(ReadSettings(stored), call.patch)
     IN \/ /\ next = ReadSettings(stored) /\ inbox' = inbox \cup Reply(call, TRUE)
           /\ UNCHANGED <<stored, publishing, log, faults>>
        \/ /\ next # ReadSettings(stored) /\ stored' = next /\ log' = Append(log, next) /\ publishing' = call
           /\ UNCHANGED <<inbox, faults>>
        \/ \* it could not be stored
           /\ next # ReadSettings(stored) /\ faults < MaxFaults /\ faults' = faults + 1
           /\ inbox' = inbox \cup Reply(call, FALSE)
           /\ UNCHANGED <<stored, publishing, log>>
  /\ UNCHANGED <<epoch, version, windowVars, pageVars, edited, others, syncs, typed>>
\* publish: the next version goes out as a signal and is the answer.
Publish ==
  /\ publishing # NoCall /\ publishing' = NoCall
  /\ version' = version + 1
  /\ LET copy == [epoch |-> epoch, version |-> version + 1, value |-> log[Len(log)], at |-> Len(log)]
     IN inbox' = inbox \cup {[to |-> "window", ok |-> TRUE, copy |-> copy]}
                       \cup (IF publishing.from = "page" THEN {[to |-> "page", ok |-> TRUE, copy |-> copy]} ELSE {})
  /\ UNCHANGED <<stored, epoch, calls, log, windowVars, pageVars, counters, typed>>
\* The server dies and comes back: what was on its way is lost, and a save in flight fails.
Crash ==
  /\ faults < MaxFaults /\ faults' = faults + 1
  /\ epoch' = epoch + 1 /\ version' = 1 /\ publishing' = NoCall /\ calls' = {}
  /\ inbox' = IF page.sending = NoCall THEN {}
              ELSE {[to |-> "page", ok |-> FALSE, copy |-> [epoch |-> epoch + 1, version |-> 1, value |-> log[Len(log)], at |-> Len(log)]]}
  /\ UNCHANGED <<stored, log, windowVars, pageVars, edited, others, syncs, typed>>

-----------------------------------------------------------------------------
(***************************************************************************)
(* The window's copy.                                                      *)
(***************************************************************************)
\* A sync asks for the record as it is, under the last version published.
Sync ==
  /\ syncs < MaxSyncs /\ syncs' = syncs + 1
  /\ inbox' = inbox \cup {[to |-> "window", ok |-> TRUE, copy |-> Copy(ReadSettings(stored))]}
  /\ UNCHANGED <<serverVars, windowVars, pageVars, edited, others, faults, typed>>
Deliver(m) ==
  /\ m \in inbox /\ m.to = "window"
  /\ inbox' = inbox \ {m} /\ held' = Newer(held, m.copy)
  /\ UNCHANGED <<serverVars, device, pageVars, counters, typed>>
\* A signal sent while the connection is down is lost.
Lose(m) ==
  /\ m \in inbox /\ m.to = "window" /\ faults < MaxFaults /\ faults' = faults + 1
  /\ inbox' = inbox \ {m}
  /\ UNCHANGED <<serverVars, windowVars, pageVars, edited, others, syncs, typed>>
\* A second after it changed, the copy is cached.
Persist ==
  /\ held # NoCopy /\ held.epoch # 0 /\ device # held.value
  /\ device' = held.value
  /\ UNCHANGED <<serverVars, inbox, held, pageVars, counters, typed>>
\* The window is loaded again, with the page closed: it shows what was cached until an answer comes.
Hydrate ==
  /\ ~open /\ page.sending = NoCall
  /\ \A m \in inbox : m.to # "window"
  /\ held' = IF device = NoCopy THEN NoCopy ELSE [epoch |-> 0, version |-> 0, value |-> device, at |-> 0]
  /\ held' # held
  /\ UNCHANGED <<serverVars, inbox, device, pageVars, counters, typed>>

SettingsNext ==
  \/ \E f \in Fields, value \in Values \cup {Bad} : Edit(f, value) \/ OtherWrites(f, value)
  \/ TimerFires \/ Leave \/ Return \/ Fade
  \/ \E m \in inbox : Answer(m) \/ Deliver(m) \/ Lose(m)
  \/ \E call \in calls : Refuse(call) \/ Store(call)
  \/ Publish \/ Crash \/ Sync \/ Persist \/ Hydrate

SettingsSpec == SettingsInit /\ [][SettingsNext]_settingsVars

-----------------------------------------------------------------------------
\* Whatever the order of answers and signals, the window's copy follows the record forward (versioned.ts:10-13,
\* plugin-data.ts:188-193): the channel implements Follower.
TheCopy == INSTANCE Follower WITH
  Any <- Records, log <- log, at <- IF held = NoCopy THEN 0 ELSE held.at, shown <- Shown(held)
CopyFollows == TheCopy!Spec

\* A field of the record only ever takes a value someone asked for in that field: a page with an old copy does not
\* write back what it shows (edits.ts:43-58, settings-store.ts:74-80).
OnlyWhatWasAsked ==
  [][\A f \in Fields : ReadSettings(stored)'[f] # ReadSettings(stored)[f] => <<f, stored'[f]>> \in typed]_settingsVars

=============================================================================
