----------------------------- MODULE ThreadMenu -----------------------------
(***************************************************************************)
(* The thread menu of a window (thread-glance features/thread-actions):    *)
(* which actions it offers of a thread, the snooze times it sends, what it *)
(* knows of bb's "Notify parent" setting and of bb's machines.  bb reads   *)
(* the menu's data once per registration, so all of it is shared and is    *)
(* forgotten when the last registration unmounts; answers still on their   *)
(* way then come back to a later stretch of use.                           *)
(*                                                                         *)
(* bb's setting of a thread is the number of changes made to it, so that a *)
(* value shown says which change it is from.  Time is counted in parts of  *)
(* a day; day 0 is a Monday.                                               *)
(***************************************************************************)
EXTENDS Integers, Sequences, FiniteSets

CONSTANTS
  Threads,
  Facts,       \* what a thread can be: records of the menu's flags (see Offered)
  Shortcuts,   \* the snooze shortcuts setting: entries, a preset or Invalid
  Defaults,    \* the presets of the default setting
  Invalid,
  Day,         \* the parts of a day
  Year,        \* the furthest ahead a wake time may lie
  MaxEntries,  \* the most entries read from the setting
  MaxTime, MaxMounts, MaxShows, MaxReads, MaxChanges, MaxPicks, MaxFaults  \* bounds

MenuAssumption ==
  /\ {Day, Year, MaxEntries} \subseteq Nat \ {0}
  /\ 8 * Day <= Year
  /\ {MaxTime, MaxMounts, MaxShows, MaxReads, MaxChanges, MaxPicks, MaxFaults} \subseteq Nat

VARIABLES
  time,       \* the real clock
  clock,      \* the minute clock the menus are drawn at
  mounted,    \* the registrations whose data is mounted
  facts,      \* what the window sees of each thread
  shown,      \* the threads the menus show
  requested,  \* those of them whose setting was asked for
  values,     \* the setting as the window knows it
  versions,   \* the latest read or write of each thread's setting
  epoch,      \* the stretch of use
  reads,      \* reads of the setting on their way
  writes,     \* writes of it on their way
  setting,    \* bb: the changes made to each thread's setting
  machines,   \* what the menus know of bb's machines
  looking,    \* listings of the machines on their way
  again,      \* the wait before the next listing runs
  picker,     \* the "Snooze until" dialog
  sent,       \* the last snooze sent: its time, and when it was sent
  mounts, shows, picks, faults

clockVars == <<time, clock>>
notifyVars == <<requested, values, versions, reads, writes, setting>>
machineVars == <<machines, looking, again>>
snoozeVars == <<picker, sent, picks>>
menuVars == <<clockVars, notifyVars, machineVars, snoozeVars, mounted, facts, shown, epoch, mounts, shows, faults>>

Unknown == -1
Pending == -2
NoTime == -1
Closed == [open |-> FALSE, until |-> NoTime, now |-> 0]

-----------------------------------------------------------------------------
(***************************************************************************)
(* What the menu offers (model/menu.ts) of a thread with these facts.      *)
(***************************************************************************)
Lifecycle(f) == ~f.archived /\ f.known

Offered(f) ==
  {"parent", "copyId"}
    \cup {a \in {"snooze"} : Lifecycle(f) /\ ~f.busy /\ ~f.woke}
    \cup {a \in {"wake"} : Lifecycle(f) /\ f.mark = "snoozed"}
    \cup {a \in {"park"} : Lifecycle(f) /\ ~f.busy /\ f.mark # "parked"}
    \cup {a \in {"resume"} : Lifecycle(f) /\ f.mark = "parked"}
    \cup {a \in {"settle"} : Lifecycle(f) /\ ~f.needsYou /\ ~f.waitingSettle /\ f.mark # "settled"}
    \cup {a \in {"cancelSettle"} : Lifecycle(f) /\ f.waitingSettle}
    \cup {a \in {"unsettle"} : Lifecycle(f) /\ f.mark = "settled"}
    \cup {a \in {"notify"} : f.known /\ f.notifiable}
    \cup {a \in {"copyBranch"} : f.known /\ f.branch}
    \cup {a \in {"project"} : f.project}

\* The machines decide whether a local path can be added: offered, greyed or left out.
AddPath == CASE machines = "failed" -> "greyed" [] machines = "none" -> "left out" [] OTHER -> "offered"

-----------------------------------------------------------------------------
(***************************************************************************)
(* Snooze times (shared/snooze.ts).                                        *)
(***************************************************************************)
Duration(p) == p.kind = "duration"
\* A duration runs from the shortest to a year; the time of a calendar entry is one of the day's.
ValidEntry(e) ==
  /\ e # Invalid
  /\ IF Duration(e) THEN e.length \in 1..Year ELSE e.at \in 0..Day - 1
Entries(text) == SelectSeq(text, ValidEntry)
ReadPresets(text) ==
  LET some(s) == SubSeq(s, 1, IF Len(s) < MaxEntries THEN Len(s) ELSE MaxEntries)
  IN IF Entries(text) = <<>> THEN some(Entries(Defaults)) ELSE some(Entries(text))

Weekday(d) == d % 7
AddDays(day, today) ==
  CASE day = "evening" -> 0
    [] day = "tomorrow" -> 1
    [] day = "next-week" -> IF Weekday(today) = 0 THEN 7 ELSE 7 - Weekday(today)
\* resolveSnoozePreset: the wake time of a preset picked at a time, or none when it has passed.
Resolve(p, at) ==
  LET today == at \div Day
      wake == IF Duration(p) THEN at + p.length ELSE (today + AddDays(p.day, today)) * Day + p.at
  IN IF wake > at THEN wake ELSE NoTime

\* snoozeTimeError
Settable(until, at) == until # NoTime /\ until > at /\ until - at <= Year
\* The days the calendar offers.
Pickable(day, at) == day >= at \div Day /\ day * Day <= at + Year

-----------------------------------------------------------------------------
MenuInit ==
  /\ time \in 0..Day - 1 /\ clock = time
  /\ mounted = 0 /\ epoch = 0
  /\ facts \in [Threads -> Facts] /\ shown = {}
  /\ requested = {} /\ values = [t \in Threads |-> Unknown]
  /\ versions = [t \in Threads |-> 0]
  /\ reads = {} /\ writes = {} /\ setting = [t \in Threads |-> 0]
  /\ machines = "loading" /\ looking = {} /\ again = FALSE
  /\ picker = Closed /\ sent = [until |-> NoTime, at |-> NoTime]
  /\ mounts = 0 /\ shows = 0 /\ picks = 0 /\ faults = 0

-----------------------------------------------------------------------------
(***************************************************************************)
(* "Notify parent" (notify-state.ts).                                      *)
(***************************************************************************)
Notifiable(threads, f) == {t \in threads : f[t].known /\ f[t].notifiable}

\* The effect after a drawing: a thread that just entered is read, all of them in one batch.
Request(threads, before) ==
  LET entering == threads \ before
  IN /\ requested' = threads
     /\ IF entering = {} THEN UNCHANGED <<versions, reads>>
        ELSE /\ Cardinality(reads) < MaxReads
             /\ versions' = [t \in Threads |-> versions[t] + IF t \in entering THEN 1 ELSE 0]
             /\ reads' = reads \cup {[epoch |-> epoch,
                                      version |-> [t \in entering |-> versions'[t]],
                                      got |-> [t \in entering |-> Pending]]}

\* bb answers one of a batch's reads: its setting as it is then, or nothing.
BbReads(r, t) ==
  /\ t \in DOMAIN r.got /\ r.got[t] = Pending
  /\ \E answer \in {setting[t], Unknown} :
       /\ reads' = (reads \ {r}) \cup {[r EXCEPT !.got[t] = answer]}
       /\ faults' = IF answer = Unknown THEN faults + 1 ELSE faults
  /\ faults' <= MaxFaults
  /\ UNCHANGED <<clockVars, requested, values, versions, writes, setting, machineVars, snoozeVars, mounted, facts, shown, epoch, mounts, shows>>

\* An answer is shown while it is the latest read or write of its thread, in the same stretch of use.
LatestOfAny(versionsNow, epochNow, e, version, t) == TRUE  \* mutant: whatever was asked since
Latest(versionsNow, epochNow, e, version, t) == e = epochNow /\ versionsNow[t] = version

ReadsAnswered(r) ==
  /\ \A t \in DOMAIN r.got : r.got[t] # Pending
  /\ values' = [t \in Threads |->
                  IF t \in DOMAIN r.got /\ r.got[t] # Unknown /\ Latest(versions, epoch, r.epoch, r.version[t], t)
                  THEN r.got[t] ELSE values[t]]
  /\ reads' = reads \ {r}
  /\ UNCHANGED <<clockVars, requested, versions, writes, setting, machineVars, snoozeVars, mounted, facts, shown, epoch, mounts, shows, faults>>

\* A choice is written even when it is the one shown.
Choose(t) ==
  /\ mounted > 0 /\ t \in shown /\ "notify" \in Offered(facts[t])
  /\ Cardinality(writes) < MaxChanges
  /\ versions' = [versions EXCEPT ![t] = @ + 1]
  /\ writes' = writes \cup {[thread |-> t, epoch |-> epoch, version |-> versions'[t], took |-> Pending]}
  /\ UNCHANGED <<clockVars, requested, values, reads, setting, machineVars, snoozeVars, mounted, facts, shown, epoch, mounts, shows, faults>>
BbTakes(w) ==
  /\ w.took = Pending /\ setting[w.thread] < MaxChanges
  /\ setting' = [setting EXCEPT ![w.thread] = @ + 1]
  /\ writes' = (writes \ {w}) \cup {[w EXCEPT !.took = setting'[w.thread]]}
  /\ UNCHANGED <<clockVars, requested, values, versions, reads, machineVars, snoozeVars, mounted, facts, shown, epoch, mounts, shows, faults>>
BbRefuses(w) ==
  /\ w.took = Pending /\ faults < MaxFaults /\ faults' = faults + 1
  /\ writes' = writes \ {w}
  /\ UNCHANGED <<clockVars, requested, values, versions, reads, setting, machineVars, snoozeVars, mounted, facts, shown, epoch, mounts, shows>>
Chosen(w) ==
  /\ w.took # Pending
  /\ values' = IF Latest(versions, epoch, w.epoch, w.version, w.thread)
               THEN [values EXCEPT ![w.thread] = w.took] ELSE values
  /\ writes' = writes \ {w}
  /\ UNCHANGED <<clockVars, requested, versions, reads, setting, machineVars, snoozeVars, mounted, facts, shown, epoch, mounts, shows, faults>>
\* Changed by another window, or the command line.
ChangedElsewhere(t) ==
  /\ setting[t] < MaxChanges
  /\ setting' = [setting EXCEPT ![t] = @ + 1]
  /\ UNCHANGED <<clockVars, requested, values, versions, reads, writes, machineVars, snoozeVars, mounted, facts, shown, epoch, mounts, shows, faults>>

-----------------------------------------------------------------------------
(***************************************************************************)
(* The window's data: mounted, drawn again and unmounted.                  *)
(***************************************************************************)
Mount ==
  /\ mounts < MaxMounts /\ mounted < 2
  /\ mounts' = mounts + 1 /\ mounted' = mounted + 1
  /\ Request(Notifiable(shown, facts), requested)
  /\ IF mounted = 0 THEN clock' = time /\ looking' = looking \cup {[epoch |-> epoch]}
     ELSE UNCHANGED <<clock, looking>>
  /\ UNCHANGED <<time, values, writes, setting, machines, again, snoozeVars, facts, shown, epoch, shows, faults>>
Unmount ==
  /\ mounted > 0 /\ mounted' = mounted - 1
  /\ IF mounted' > 0 THEN UNCHANGED <<epoch, requested, values, versions, machines, again>>
     ELSE /\ epoch' = epoch + 1
          /\ requested' = {} /\ values' = [t \in Threads |-> Unknown]
          /\ versions' = [t \in Threads |-> 0]
          /\ machines' = "loading" /\ again' = FALSE
  /\ UNCHANGED <<clockVars, reads, writes, setting, looking, snoozeVars, facts, shown, mounts, shows, faults>>
\* The menus show other threads, or a thread changes.
Draw ==
  /\ shows < MaxShows /\ shows' = shows + 1
  /\ \E threads \in SUBSET Threads, t \in Threads, f \in Facts :
       /\ shown' = threads
       /\ facts' = [facts EXCEPT ![t] = f]
       /\ <<shown', facts'>> # <<shown, facts>>
  /\ IF mounted > 0 THEN Request(Notifiable(shown', facts'), requested)
     ELSE UNCHANGED <<requested, versions, reads>>
  /\ UNCHANGED <<clockVars, values, writes, setting, machineVars, snoozeVars, mounted, epoch, mounts, faults>>

-----------------------------------------------------------------------------
(***************************************************************************)
(* The machines (window-state.ts).                                         *)
(***************************************************************************)
RetriesOnFailure(found) == found = "failed"  \* mutant: none listed is taken as final
Retries(found) == found \in {"failed", "none"}
MachinesListed(c) ==
  /\ looking' = looking \ {c}
  /\ \E found \in {"failed", "none", "some"} :
       /\ faults' = IF found = "some" THEN faults ELSE faults + 1
       /\ faults' <= MaxFaults
       /\ IF c.epoch = epoch THEN machines' = found /\ again' = Retries(found)
          ELSE UNCHANGED <<machines, again>>
  /\ UNCHANGED <<clockVars, notifyVars, snoozeVars, mounted, facts, shown, epoch, mounts, shows>>
ListAgain ==
  /\ again /\ again' = FALSE
  /\ looking' = looking \cup {[epoch |-> epoch]}
  /\ UNCHANGED <<clockVars, notifyVars, machines, snoozeVars, mounted, facts, shown, epoch, mounts, shows, faults>>

-----------------------------------------------------------------------------
(***************************************************************************)
(* Snoozing: a preset of the menu, drawn at the minute clock and resolved  *)
(* when it is picked, or the "Snooze until" dialog with a clock of its own.*)
(***************************************************************************)
Tick == time < MaxTime /\ time' = time + 1 /\ UNCHANGED <<clock, notifyVars, machineVars, snoozeVars, mounted, facts, shown, epoch, mounts, shows, faults>>
MinutePasses ==
  /\ mounted > 0 /\ clock # time /\ clock' = time
  /\ UNCHANGED <<time, notifyVars, machineVars, snoozeVars, mounted, facts, shown, epoch, mounts, shows, faults>>

PickTime(p) == Resolve(p, time)
\* A preset the menu draws enabled; one whose time has passed since is refused.
PickPreset(t) ==
  /\ mounted > 0 /\ t \in shown /\ "snooze" \in Offered(facts[t])
  /\ picks < MaxPicks /\ picks' = picks + 1
  /\ \E i \in DOMAIN ReadPresets(Shortcuts) :
       LET p == ReadPresets(Shortcuts)[i]
       IN /\ Resolve(p, clock) # NoTime
          /\ sent' = IF PickTime(p) = NoTime THEN sent ELSE [until |-> PickTime(p), at |-> time]
  /\ UNCHANGED <<clockVars, notifyVars, machineVars, picker, mounted, facts, shown, epoch, mounts, shows, faults>>
\* The dialog starts at tomorrow morning, here the start of the day.
OpenPicker(t) ==
  /\ mounted > 0 /\ t \in shown /\ "snooze" \in Offered(facts[t]) /\ ~picker.open
  /\ picks < MaxPicks /\ picks' = picks + 1
  /\ picker' = [open |-> TRUE, until |-> (time \div Day + 1) * Day, now |-> time]
  /\ UNCHANGED <<clockVars, notifyVars, machineVars, sent, mounted, facts, shown, epoch, mounts, shows, faults>>
\* A day the calendar offers, and a time of the field, which may be emptied.
SetPicker ==
  /\ picker.open
  /\ \E day \in 0..(time + Year) \div Day, at \in 0..Day - 1 :
       /\ Pickable(day, picker.now)
       /\ picker' \in {[picker EXCEPT !.until = day * Day + at], [picker EXCEPT !.until = NoTime]}
  /\ UNCHANGED <<clockVars, notifyVars, machineVars, sent, picks, mounted, facts, shown, epoch, mounts, shows, faults>>
PickerClock ==
  /\ picker.open /\ picker' = [picker EXCEPT !.now = time]
  /\ UNCHANGED <<clockVars, notifyVars, machineVars, sent, picks, mounted, facts, shown, epoch, mounts, shows, faults>>
\* Snooze is pressed while the dialog's clock allows it; the time is checked again as it is sent.
CheckedAsDrawn(drawn) == drawn  \* mutant: the dialog's own clock decides
CheckedAt(drawn) == time
SubmitPicker ==
  /\ picker.open /\ Settable(picker.until, picker.now)
  /\ IF Settable(picker.until, CheckedAt(picker.now))
     THEN picker' = Closed /\ sent' = [until |-> picker.until, at |-> time]
     ELSE picker' = [picker EXCEPT !.now = time] /\ sent' = sent
  /\ UNCHANGED <<clockVars, notifyVars, machineVars, picks, mounted, facts, shown, epoch, mounts, shows, faults>>
ClosePicker ==
  /\ picker.open /\ picker' = Closed
  /\ UNCHANGED <<clockVars, notifyVars, machineVars, sent, picks, mounted, facts, shown, epoch, mounts, shows, faults>>

-----------------------------------------------------------------------------
NotifyNext ==
  \/ \E r \in reads : ReadsAnswered(r) \/ \E t \in Threads : BbReads(r, t)
  \/ \E w \in writes : BbTakes(w) \/ BbRefuses(w) \/ Chosen(w)
  \/ \E t \in Threads : Choose(t) \/ ChangedElsewhere(t)
SnoozeNext ==
  \/ Tick \/ MinutePasses \/ SetPicker \/ PickerClock \/ SubmitPicker \/ ClosePicker
  \/ \E t \in Threads : PickPreset(t) \/ OpenPicker(t)
MenuNext ==
  \/ Mount \/ Unmount \/ Draw \/ ListAgain
  \/ \E c \in looking : MachinesListed(c)
  \/ NotifyNext \/ SnoozeNext

MenuSpec == MenuInit /\ [][MenuNext]_menuVars

-----------------------------------------------------------------------------
\* What the menu shows of a thread's setting never goes back to an earlier one, whatever
\* the order its reads and writes are answered in (notify-state.ts versions and epoch).
NeverShowsAnOlder ==
  \A t \in Threads : values[t] # Unknown /\ values'[t] # Unknown => values'[t] >= values[t]

\* While menus are mounted and no machine is known, the machines are being listed or will be.
KeepsLooking ==
  mounted > 0 /\ (machines = "loading" \/ AddPath # "offered") => again \/ \E c \in looking : c.epoch = epoch

\* A snooze is sent with a time that the server, whose clock is the window's, accepts.
SentTimesAreAhead == sent.at # NoTime => Settable(sent.until, sent.at)
=============================================================================
