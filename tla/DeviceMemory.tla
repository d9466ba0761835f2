---------------------------- MODULE DeviceMemory ----------------------------
(***************************************************************************)
(* What thread-glance keeps on a device                                    *)
(* (features/thread-list/storage/device-storage.ts, device-state.ts): the  *)
(* browser's storage with its quota, which several windows and bb itself   *)
(* write; each window's copy of what the person set, written one key at a  *)
(* time (store/list-store.ts); the caches of what the server sent          *)
(* (sync/plugin-data.ts), evicted first; the stamps of when each thread    *)
(* was first seen working (model/working-since.ts); and the machine whose  *)
(* ports are linked (storage/port-link-machine.ts).                        *)
(*                                                                         *)
(* The pins stand for every list the storage keeps by id and cap           *)
(* (collapsed groups and worktrees change by the same rule), the open      *)
(* child lists for those whose order is of use.  A window reads its copy   *)
(* and starts to listen in one step.                                       *)
(***************************************************************************)
EXTENDS Integers, FiniteSets, Sequences, SequencesExt

CONSTANTS
  Windows,
  Projects,     \* what may be pinned
  Threads,      \* whose child lists may be open
  Workers,      \* those of them that may work
  Machines,     \* the machines the person may choose
  NoMachine,
  Cap,          \* CAPS
  Quota,        \* how much the browser's storage holds
  Pause, Confirm,   \* WORKING_PAUSE_MS, WORKING_CONFIRM_MS
  MaxDoings, MaxTime   \* bounds

DeviceAssumption ==
  /\ Workers \subseteq Threads /\ NoMachine \notin Machines /\ Cap \in Nat \ {0} /\ Quota \in Nat
  /\ Pause \in Nat /\ Confirm \in Nat /\ MaxDoings \in Nat /\ MaxTime \in Nat

VARIABLES
  stored,    \* the browser's storage, by key
  taken,     \* what others keep in it
  win,       \* each window's copy
  news,      \* the storage events under way to each window, by key
  time,
  work,      \* since when each thread works, -1 while it is idle
  rested,    \* history: when each thread's last idle stretch longer than Pause ended
  idle,      \* since when it is idle, -1 while it works
  did,       \* history: the key the last step was about, how, and the ids
  doings

deviceVars == <<stored, taken, win, news, time, work, rested, idle, did, doings>>

StateKeys == {"pins", "parents", "stamps", "machine"}
CacheKeys == <<"order", "appearance", "rows", "settings">>
Keys == StateKeys \cup ToSet(CacheKeys)

Absent == [held |-> FALSE, value |-> <<>>]
Held(value) == [held |-> TRUE, value |-> value]

-----------------------------------------------------------------------------
(***************************************************************************)
(* The browser's storage.                                                  *)
(***************************************************************************)
Fits(st) ==
  LET size[k \in Keys] == IF st[k].held THEN 1 + Len(st[k].value) ELSE 0
  IN FoldFunction(+, taken, size) <= Quota

\* write: the caches go first, least important first, each followed by a retry; a write that
\* still fails gives up its own key.
Evicted(st, key, n) ==
  LET others == SelectSeq(CacheKeys, LAMBDA k : k # key)
  IN [k \in Keys |-> IF k \in ToSet(SubSeq(others, 1, n)) THEN Absent ELSE st[k]]
Write(st, key, value) ==
  LET most == Len(SelectSeq(CacheKeys, LAMBDA k : k # key))
      tries == [n \in 0..most |-> [Evicted(st, key, n) EXCEPT ![key] = Held(value)]]
      good == {n \in 0..most : Fits(tries[n])}
  IN IF good = {} THEN [Evicted(st, key, most) EXCEPT ![key] = Absent]
     ELSE tries[CHOOSE n \in good : \A other \in good : n <= other]
Dropped(st, key) == [st EXCEPT ![key] = Absent]

\* The events of a step that left the storage at st; the window that wrote hears nothing.
Tell(w, st) ==
  news' = [x \in Windows |->
             IF x # w /\ win[x].open THEN news[x] \cup {k \in {"pins", "machine"} : st[k] # stored[k]} ELSE news[x]]

-----------------------------------------------------------------------------
(***************************************************************************)
(* The device's state.                                                     *)
(***************************************************************************)
Without(list, ids) == SelectSeq(list, LAMBDA id : id \notin ids)
LastCapped(list) == IF Len(list) > Cap THEN SubSeq(list, Len(list) - Cap + 1, Len(list)) ELSE list
\* withProjectPinned, and the groups that are collapsed.
WithListed(list, id, on) ==
  IF (id \in ToSet(list)) = on THEN list
  ELSE IF on THEN LastCapped(Append(list, id)) ELSE Without(list, {id})
\* withParentExpanded: opening makes it the most recent.
WithParent(list, id, on) ==
  IF on THEN LastCapped(Append(Without(list, {id}), id)) ELSE Without(list, {id})

Closed == [open |-> FALSE, pins |-> <<>>, parents |-> <<>>, stamps |-> <<>>, machine |-> NoMachine, follows |-> FALSE, looked |-> -1]

Step(w, key, how, ids) ==
  /\ doings < MaxDoings /\ win[w].open
  /\ doings' = doings + 1
  /\ did' = [key |-> key, how |-> how, ids |-> ids]

\* updateDevice, saveDeviceState: only the key that changed is written.
Saved(w, key, list) == Write(stored, key, list)

Pin(w, p, on) ==
  LET pins == WithListed(win[w].pins, p, on)
  IN /\ Step(w, "pins", "set", {p})
     /\ pins # win[w].pins
     /\ stored' = Saved(w, "pins", pins)
     /\ win' = [win EXCEPT ![w].pins = pins]
     /\ Tell(w, stored')
     /\ UNCHANGED <<taken, time, work, rested, idle>>
Expand(w, t, on) ==
  LET parents == WithParent(win[w].parents, t, on)
  IN /\ Step(w, "parents", "set", {t})
     /\ parents # win[w].parents
     /\ stored' = Saved(w, "parents", parents)
     /\ win' = [win EXCEPT ![w].parents = parents]
     /\ Tell(w, stored')
     /\ UNCHANGED <<taken, time, work, rested, idle>>

\* closeStoredParents: a settle's close takes its threads from what the storage holds now.
ClosedInCopy(w, ids) == Without(win[w].parents, ids)    \* mutant: from the window's copy
ClosedIn(w, ids) == Without(stored["parents"].value, ids)
SettleCloses(w, t) ==
  LET kept == ClosedIn(w, {t})
  IN /\ t \in ToSet(win[w].parents)
     /\ Step(w, "parents", "settle", {t})
     /\ win' = [win EXCEPT ![w].parents = Without(@, {t})]
     /\ stored' = IF kept = stored["parents"].value THEN stored ELSE Write(stored, "parents", kept)
     /\ Tell(w, stored')
     /\ UNCHANGED <<taken, time, work, rested, idle>>

\* persist: the caches of what changed, of one kind or of all at once.
Cache(w, kinds) ==
  LET After(st, k) == IF k \in kinds THEN Write(st, k, <<1>>) ELSE st
  IN /\ Step(w, "cache", "set", {})
     /\ stored' = FoldLeft(After, stored, <<"rows", "settings", "order", "appearance">>)
     /\ Tell(w, stored')
     /\ UNCHANGED <<taken, win, time, work, rested, idle>>

\* portLinkMachine: read once, followed while anything shows it.
Choose(w, m) ==
  /\ Step(w, "machine", "set", {})
  /\ win[w].machine # m
  /\ stored' = IF m = NoMachine THEN Dropped(stored, "machine") ELSE Write(stored, "machine", <<m>>)
  /\ win' = [win EXCEPT ![w].machine = m]
  /\ Tell(w, stored')
  /\ UNCHANGED <<taken, time, work, rested, idle>>
MachineOf(st) == IF st["machine"].held THEN Head(st["machine"].value) ELSE NoMachine
Follow(w) ==
  /\ Step(w, "machine", "follow", {})
  /\ win' = [win EXCEPT ![w].follows = ~@, ![w].machine = IF @ = NoMachine THEN MachineOf(stored) ELSE @]
  /\ UNCHANGED <<stored, taken, news, time, work, rested, idle>>

\* A storage event: the window reads what the storage holds by then.
Hear(w, k) ==
  /\ k \in news[w]
  /\ news' = [news EXCEPT ![w] = @ \ {k}]
  /\ win' = IF k = "pins" THEN [win EXCEPT ![w].pins = stored["pins"].value]
            ELSE IF win[w].follows THEN [win EXCEPT ![w].machine = MachineOf(stored)] ELSE win
  /\ did' = [key |-> "none", how |-> "hear", ids |-> {}]
  /\ UNCHANGED <<stored, taken, time, work, rested, idle, doings>>

Opened(st) == [open |-> TRUE, pins |-> st["pins"].value, parents |-> st["parents"].value, stamps |-> st["stamps"].value,
               machine |-> MachineOf(st), follows |-> TRUE, looked |-> -1]
Open(w) ==
  /\ ~win[w].open /\ doings < MaxDoings
  /\ win' = [win EXCEPT ![w] = Opened(stored)]
  /\ doings' = doings + 1 /\ did' = [key |-> "none", how |-> "open", ids |-> {}]
  /\ UNCHANGED <<stored, taken, news, time, work, rested, idle>>
Shut(w) ==
  /\ Step(w, "none", "shut", {})
  /\ win' = [win EXCEPT ![w] = Closed] /\ news' = [news EXCEPT ![w] = {}]
  /\ UNCHANGED <<stored, taken, time, work, rested, idle>>

-----------------------------------------------------------------------------
(***************************************************************************)
(* When each thread was first seen working.                                *)
(***************************************************************************)
\* observeWorking: a stamp not confirmed for longer than the pause starts again.
StampKept(held, t) ==    \* mutant: a stamp goes on however long ago it was confirmed
  IF held = {} THEN [id |-> t, since |-> time, seenAt |-> time]
  ELSE LET s == CHOOSE x \in held : TRUE
       IN IF time - s.seenAt >= Confirm THEN [s EXCEPT !.seenAt = time] ELSE s
StampFor(held, t) ==
  IF held = {} \/ \E s \in held : time - s.seenAt > Pause THEN [id |-> t, since |-> time, seenAt |-> time]
  ELSE LET s == CHOOSE x \in held : TRUE
       IN IF time - s.seenAt >= Confirm THEN [s EXCEPT !.seenAt = time] ELSE s
Observed(stamps) ==
  LET working == SetToSortSeq({t \in Workers : work[t] >= 0}, <)
  IN [i \in DOMAIN working |-> StampFor({s \in ToSet(stamps) : s.id = working[i]}, working[i])]
Observe(w) ==
  LET next == Observed(win[w].stamps)
  IN /\ win[w].open /\ win[w].looked # time
     /\ win' = [win EXCEPT ![w].stamps = next, ![w].looked = time]
     /\ stored' = IF next = win[w].stamps THEN stored
                  ELSE IF next = <<>> THEN Dropped(stored, "stamps") ELSE Write(stored, "stamps", next)
     /\ Tell(w, stored')
     /\ did' = [key |-> "stamps", how |-> IF next = <<>> THEN "remove" ELSE "set", ids |-> {}]
     /\ UNCHANGED <<taken, time, work, rested, idle, doings>>

StartsWork(t) ==
  /\ work[t] < 0
  /\ work' = [work EXCEPT ![t] = time] /\ idle' = [idle EXCEPT ![t] = -1]
  /\ rested' = [rested EXCEPT ![t] = IF time - idle[t] > Pause THEN time ELSE @]
  /\ win' = [w \in Windows |-> [win[w] EXCEPT !.looked = -1]]
  /\ UNCHANGED <<stored, taken, news, time, did, doings>>
StopsWork(t) ==
  /\ work[t] >= 0
  /\ work' = [work EXCEPT ![t] = -1] /\ idle' = [idle EXCEPT ![t] = time]
  /\ win' = [w \in Windows |-> [win[w] EXCEPT !.looked = -1]]
  /\ UNCHANGED <<stored, taken, news, time, rested, did, doings>>
Tick == time < MaxTime /\ time' = time + 1 /\ UNCHANGED <<stored, taken, win, news, work, rested, idle, did, doings>>

\* bb, or another plugin, keeps more or less of the storage.
Crowd(n) ==
  /\ taken' = n /\ taken' # taken /\ doings < MaxDoings /\ doings' = doings + 1
  /\ UNCHANGED <<stored, win, news, time, work, rested, idle, did>>

DeviceInit ==
  /\ stored = [k \in Keys |-> Absent] /\ taken = 0
  /\ win \in {[w \in Windows |-> Closed], [w \in Windows |-> Opened(stored)]} /\ news = [w \in Windows |-> {}]
  /\ time = 0 /\ work = [t \in Workers |-> -1] /\ rested = [t \in Workers |-> 0] /\ idle = [t \in Workers |-> 0]
  /\ did = [key |-> "none", how |-> "start", ids |-> {}] /\ doings = 0

DeviceNext ==
  \/ \E w \in Windows :
       \/ Open(w) \/ Shut(w) \/ Follow(w) \/ Observe(w)
       \/ \E p \in Projects, on \in BOOLEAN : Pin(w, p, on)
       \/ \E t \in Threads : SettleCloses(w, t) \/ \E on \in BOOLEAN : Expand(w, t, on)
       \/ \E m \in Machines \cup {NoMachine} : Choose(w, m)
       \/ \E kinds \in {{k} : k \in ToSet(CacheKeys)} \cup {ToSet(CacheKeys)} : Cache(w, kinds)
       \/ \E k \in {"pins", "machine"} : Hear(w, k)
  \/ \E t \in Workers : StartsWork(t) \/ StopsWork(t)
  \/ Tick
  \/ \E n \in {0, Quota} : Crowd(n)

DeviceSpec == DeviceInit /\ [][DeviceNext]_deviceVars

-----------------------------------------------------------------------------
(***************************************************************************)
(* Properties.                                                             *)
(***************************************************************************)
\* A step changes no key but the one it is about, whatever this window's copy of the others
\* is; a settle takes no open list but its own; and what the person set is given up only when
\* no cache is left that might have made room for it.
OthersAreKept ==
  \A k \in StateKeys : stored'[k] # stored[k] =>
       /\ k = did'.key
       /\ stored'[k].held /\ did'.how = "settle" => ToSet(stored[k].value) \ ToSet(stored'[k].value) \subseteq did'.ids
       /\ stored[k].held /\ ~stored'[k].held /\ k \in {"pins", "parents"} => \A c \in ToSet(CacheKeys) : ~stored'[c].held
    

\* A window that has looked shows no thread as working since before a pause it had.
StampsAreWork ==
  \A w \in Windows : win[w].open /\ win[w].looked = time =>
    \A s \in ToSet(win[w].stamps) : work[s.id] >= 0 /\ s.since >= rested[s.id]
=============================================================================
