----------------------------- MODULE GlanceProofs -----------------------------
(***************************************************************************)
(* What parts of thread-glance promise, for every value of their constants *)
(* and any number of changes and failures.                                 *)
(*                                                                         *)
(* SettingsPage: nothing is stored but what someone asked for in its       *)
(* field, and the window's copy implements Follower.  SettlePins: an Undo  *)
(* undoes its own settle.  The other parts have variables of their own and *)
(* are instances.  Menu (ThreadMenu): no older setting is shown, and       *)
(* machines are looked for.  Watch (PortWatch): a refresh is new, and who  *)
(* serves a port is held back.  Quiet (AutoSettle): a change of settings   *)
(* is acted on.  Ports (PortsPage): a page on screen looks again.          *)
(* Commands (ThreadCommands): an offer to close ports stands for its       *)
(* settle.  Editing (RenameEditor): an open edit is kept, with its focus.  *)
(* Looks (ProjectLooks): no earlier icon is drawn.  Scanning (HostScan): a *)
(* scan of a machine that stands still is true.  Clocking (ListClock): a   *)
(* snooze is drawn as ended in time.                                       *)
(***************************************************************************)
EXTENDS SettingsPage, SettlePins, FiniteSetTheorems, WellFoundedInduction, TLAPS

-----------------------------------------------------------------------------
(***************************************************************************)
(* SettingsPage: the inductive invariant.                                  *)
(***************************************************************************)
\* A patch sets fields, each to a value someone asked for in it.
Asked(patch, t) == DOMAIN patch \subseteq Fields /\ \A f \in DOMAIN patch : <<f, patch[f]>> \in t

Patches == UNION {[S -> Values \cup {Bad}] : S \in SUBSET Fields}
Saves == [patch : Patches, unchanged : SUBSET Fields]
Pages == [edits : Patches, timer : BOOLEAN, sending : Saves \cup {NoCall}, again : BOOLEAN,
          status : {"idle", "saving", "saved", "failed"}]
PageAsks(p, t) ==
  /\ p \in Pages
  /\ Asked(p.edits, t)
  /\ p.sending # NoCall => Asked(p.sending.patch, t)

AsksOnly ==
  /\ PageAsks(page, typed)
  /\ \A call \in calls : Asked(call.patch, typed)

\* The log ends with the record as it is read.
RecordIsLogged ==
  /\ stored \in [Fields -> Values \cup {Bad}]
  /\ log \in Seq(Records) /\ Len(log) > 0
  /\ log[Len(log)] = ReadSettings(stored)
  /\ epoch \in Nat /\ epoch > 0 /\ version \in Nat

Logged(c, l) == c \in Copies /\ c.at \in 1..Len(l) /\ c.value = l[c.at]
\* A copy that would take the place of another is no earlier.
Ahead(c, d) == c.epoch # d.epoch \/ c.version < d.version => c.at <= d.at

MessagesSound ==
  \A m \in inbox :
    /\ Logged(m.copy, log) /\ m.copy.epoch = epoch /\ m.copy.version <= version
    /\ \A n \in inbox : Ahead(m.copy, n.copy)

CopyIsCached == held \in Copies /\ held.epoch = 0 /\ held.at = 0 /\ device # NoCopy
CopyIsServers ==
  /\ Logged(held, log) /\ held.epoch > 0
  /\ \A m \in inbox : Ahead(held, m.copy)
HeldSound == held = NoCopy \/ CopyIsCached \/ CopyIsServers
Had == {log[i] : i \in DOMAIN log}
CacheSound ==
  /\ device # NoCopy => device \in Had
  /\ held # NoCopy => held.value \in Had

IInv == AsksOnly /\ RecordIsLogged /\ MessagesSound /\ HeldSound /\ CacheSound

-----------------------------------------------------------------------------
(***************************************************************************)
(* What is asked for.                                                      *)
(***************************************************************************)
LEMMA AskedLater ==
  ASSUME NEW patch, NEW t, NEW u, t \subseteq u, Asked(patch, t)
  PROVE  Asked(patch, u)
BY DEF Asked

LEMMA IsPatch ==
  ASSUME NEW S \in SUBSET Fields, NEW patch \in [S -> Values \cup {Bad}]
  PROVE  patch \in Patches
BY DEF Patches

LEMMA PatchIs ==
  ASSUME NEW patch \in Patches
  PROVE  /\ DOMAIN patch \subseteq Fields
         /\ \A f \in DOMAIN patch : patch[f] \in Values \cup {Bad}
BY DEF Patches

LEMMA WithoutIsPatch ==
  ASSUME NEW patch \in Patches, NEW S
  PROVE  Without(patch, S) \in Patches
<1>1. DOMAIN patch \ S \in SUBSET Fields
  BY PatchIs
<1>2. Without(patch, S) \in [DOMAIN patch \ S -> Values \cup {Bad}]
  BY PatchIs DEF Without
<1>3. QED
  BY <1>1, <1>2, IsPatch

LEMMA SendAsks ==
  ASSUME NEW p \in Pages, NEW server, NEW t, Asked(p.edits, t)
  PROVE  PageAsks(Send(p, server), t)
<1> DEFINE found == AssessEdits(server, p.edits)
<1>1. /\ Asked(found.patch, t) /\ Asked(Without(p.edits, found.unchanged), t)
  BY DEF Asked, AssessEdits, Without
<1>2. found.unchanged \in SUBSET Fields
  BY PatchIs DEF AssessEdits, Pages
<1>3. found.patch \in Patches
  <2> DEFINE S == {f \in {g \in DOMAIN p.edits : p.edits[g] \in Values} : p.edits[f] # server[f]}
  <2>1. S \in SUBSET Fields
    BY PatchIs DEF Pages
  <2>2. found.patch \in [S -> Values \cup {Bad}]
    BY DEF AssessEdits
  <2>3. QED
    BY <2>1, <2>2, IsPatch
<1>4. Without(p.edits, found.unchanged) \in Patches
  BY WithoutIsPatch DEF Pages
<1> HIDE DEF found
<1>5. CASE DOMAIN found.patch = {}
  <2>1. Send(p, server) = [p EXCEPT !.again = FALSE, !.sending = NoCall, !.edits = Without(@, found.unchanged),
                                    !.status = IF @ = "saving" THEN "idle" ELSE @]
    BY <1>5 DEF Send, found
  <2>2. QED
    BY <1>1, <1>4, <2>1 DEF PageAsks, Pages
<1>6. CASE DOMAIN found.patch # {}
  <2> DEFINE save == [patch |-> found.patch, unchanged |-> found.unchanged]
  <2>1. Send(p, server) = [p EXCEPT !.again = FALSE, !.sending = save]
    BY <1>6 DEF Send, found
  <2>2. save \in Saves /\ save.patch = found.patch
    BY <1>2, <1>3 DEF Saves
  <2> HIDE DEF save
  <2>3. QED
    BY <1>1, <2>1, <2>2 DEF PageAsks, Pages
<1>7. QED
  BY <1>5, <1>6

LEMMA RunAsks ==
  ASSUME NEW p, NEW server, NEW t, PageAsks(p, t)
  PROVE  PageAsks(Run(p, server), t)
BY SendAsks DEF Run, PageAsks, Pages

LEMMA LoopAsks ==
  ASSUME NEW p, NEW server, NEW t, PageAsks(p, t)
  PROVE  PageAsks(Loop(p, server), t)
BY SendAsks DEF Loop, PageAsks, Pages

\* What a page that has begun a save adds to the calls was asked for.
LEMMA CallsAsk ==
  ASSUME NEW before, NEW after, NEW t, PageAsks(after, t), \A call \in calls : Asked(call.patch, t)
  PROVE  \A call \in Calls(before, after) : Asked(call.patch, t)
BY DEF Calls, PageAsks

\* The answer to a save, or its failure, leaves edits that were asked for.
LEMMA EndsAsk ==
  ASSUME NEW p \in Pages, NEW t, PageAsks(p, t)
  PROVE  PageAsks(Saved(p), t) /\ PageAsks(Failed(p), t)
<1> DEFINE same == {f \in DOMAIN p.edits \cap DOMAIN p.sending.patch : p.edits[f] = p.sending.patch[f]}
           rest == Without(p.edits, same \cup p.sending.unchanged)
<1>1. Saved(p) = [p EXCEPT !.edits = rest, !.status = IF p.timer \/ p.again THEN "saving" ELSE "saved"]
  BY DEF Saved, Pages
<1>2. rest \in Patches
  BY WithoutIsPatch DEF Pages
<1>3. Asked(rest, t)
  BY DEF PageAsks, Asked, Without
<1> HIDE DEF rest
<1>4. PageAsks(Saved(p), t)
  BY <1>1, <1>2, <1>3 DEF PageAsks, Pages
<1>5. PageAsks(Failed(p), t)
  BY DEF Failed, PageAsks, Pages
<1>6. QED
  BY <1>4, <1>5

LEMMA EditAsks ==
  ASSUME NEW p \in Pages, NEW t, PageAsks(p, t), NEW f \in Fields, NEW value \in Values \cup {Bad}, NEW timer \in BOOLEAN,
         NEW status \in {"idle", "saving", "saved", "failed"}
  PROVE  PageAsks([p EXCEPT !.edits = ApplyPatch(p.edits, Only(f, value)), !.timer = timer, !.status = status], t \cup {<<f, value>>})
<1> DEFINE edits == ApplyPatch(p.edits, Only(f, value))
<1>1. /\ DOMAIN edits = {f} \cup DOMAIN p.edits
      /\ edits = [g \in DOMAIN edits |-> IF g = f THEN value ELSE p.edits[g]]
  BY DEF ApplyPatch, Only
<1>2. DOMAIN edits \in SUBSET Fields
  BY <1>1, PatchIs DEF Pages
<1>3. edits \in [DOMAIN edits -> Values \cup {Bad}]
  BY <1>1, PatchIs DEF Pages
<1>4. edits \in Patches
  BY <1>2, <1>3, IsPatch
<1>5. Asked(edits, t \cup {<<f, value>>})
  BY <1>1, <1>2 DEF PageAsks, Asked
<1>6. p.sending # NoCall => Asked(p.sending.patch, t \cup {<<f, value>>})
  BY AskedLater DEF PageAsks
<1> DEFINE q == [p EXCEPT !.edits = edits, !.timer = timer, !.status = status]
<1> HIDE DEF edits
<1>7. q \in Pages /\ q.edits = edits /\ q.sending = p.sending
  BY <1>4 DEF Pages
<1>8. PageAsks(q, t \cup {<<f, value>>})
  <2> HIDE DEF q
  <2> QED BY <1>5, <1>6, <1>7 DEF PageAsks
<1>9. QED
  BY <1>8 DEF edits

-----------------------------------------------------------------------------
(***************************************************************************)
(* The copies and the log they are of.                                     *)
(***************************************************************************)
LEMMA ReadIsRecord ==
  ASSUME NEW kept \in [Fields -> Values \cup {Bad}]
  PROVE  ReadSettings(kept) \in Records
BY SettingsAssumption DEF ReadSettings, Records

LEMMA RecordReadsAsItself ==
  ASSUME NEW record \in Records
  PROVE  record \in [Fields -> Values \cup {Bad}] /\ ReadSettings(record) = record
BY DEF ReadSettings, Records

\* Of a patch whose values are all valid, the record takes what was asked for and keeps the rest.
LEMMA PatchedIsRecord ==
  ASSUME NEW record \in Records, NEW patch, NEW t, Asked(patch, t), \A f \in DOMAIN patch : patch[f] \in Values
  PROVE  /\ ApplyPatch(record, patch) \in Records
         /\ \A f \in Fields : ApplyPatch(record, patch)[f] # record[f] => <<f, ApplyPatch(record, patch)[f]>> \in t
<1>1. DOMAIN record \cup DOMAIN patch = Fields
  BY DEF Records, Asked
<1>2. ApplyPatch(record, patch) = [f \in Fields |-> IF f \in DOMAIN patch THEN patch[f] ELSE record[f]]
  BY <1>1 DEF ApplyPatch
<1>3. QED
  BY <1>2 DEF Records, Asked

\* What is logged stays as the log grows.
LEMMA LogGrows ==
  ASSUME NEW l \in Seq(Records), NEW record \in Records
  PROVE  LET grown == Append(l, record)
         IN /\ grown \in Seq(Records) /\ Len(grown) = Len(l) + 1 /\ grown[Len(grown)] = record
            /\ \A i \in DOMAIN l : i \in DOMAIN grown /\ grown[i] = l[i]
            /\ \A c : Logged(c, l) => Logged(c, grown)
<1> DEFINE grown == Append(l, record)
<1>1. /\ grown \in Seq(Records) /\ Len(grown) = Len(l) + 1 /\ grown[Len(grown)] = record
      /\ \A i \in 1..Len(l) : grown[i] = l[i]
  OBVIOUS
<1>2. DOMAIN l = 1..Len(l) /\ DOMAIN grown = 1..Len(grown) /\ Len(l) \in Nat
  BY <1>1
<1> HIDE DEF grown
<1>3. \A c : Logged(c, l) => Logged(c, grown)
  BY <1>1, <1>2 DEF Logged
<1>4. QED
  BY <1>1, <1>2, <1>3 DEF grown

LEMMA LoggedShows ==
  ASSUME NEW l \in Seq(Records), NEW c, Logged(c, l)
  PROVE  /\ c \in Copies /\ c # NoCopy /\ c.at \in DOMAIN l /\ c.at > 0
         /\ Shown(c) = l[c.at] /\ c.value \in {l[i] : i \in DOMAIN l}
BY NullsAssumption DEF Logged, Shown

\* What the server sends is the newest there is, so it comes before nothing on its way and takes the place of
\* what the window holds only to go on.
LEMMA SentSound ==
  ASSUME IInv, epoch' = epoch, version' \in Nat, version <= version',
         log' \in Seq(Records), Len(log) <= Len(log'), Len(log') > 0, \A c : Logged(c, log) => Logged(c, log'),
         NEW sent, inbox' \subseteq inbox \cup sent, UNCHANGED <<held, device>>,
         \A m \in sent : m.copy = [epoch |-> epoch', version |-> version', value |-> log'[Len(log')], at |-> Len(log')]
  PROVE  MessagesSound' /\ HeldSound'
<1> USE DEF IInv
<1>1. Len(log) \in Nat /\ Len(log') \in 1..Len(log') /\ log'[Len(log')] \in Records /\ epoch \in Nat /\ version \in Nat
  BY DEF RecordIsLogged
<1>2. \A m \in sent : /\ Logged(m.copy, log') /\ m.copy.epoch = epoch' /\ m.copy.version = version'
                      /\ m.copy.at = Len(log')
  BY <1>1 DEF Logged, Copies
<1>3. \A m \in inbox : /\ Logged(m.copy, log) /\ Logged(m.copy, log') /\ m.copy.epoch = epoch' /\ m.copy.version <= version
                       /\ m.copy.at \in Nat /\ m.copy.at <= Len(log) /\ m.copy.version \in Nat
  BY DEF MessagesSound, Logged, Copies
<1>4. \A m \in inbox' : Logged(m.copy, log') /\ m.copy.epoch = epoch' /\ m.copy.version <= version'
  BY <1>1, <1>2, <1>3
<1>5. ASSUME NEW m \in inbox', NEW n \in inbox' PROVE Ahead(m.copy, n.copy)
  <2>1. CASE n \in sent
    BY <1>1, <1>2, <1>3, <2>1 DEF Ahead
  <2>2. CASE n \in inbox /\ m \in sent
    BY <1>1, <1>2, <1>3, <2>2 DEF Ahead
  <2>3. CASE n \in inbox /\ m \in inbox
    BY <2>3 DEF MessagesSound
  <2>4. QED
    BY <2>1, <2>2, <2>3
<1>6. MessagesSound'
  BY <1>4, <1>5 DEF MessagesSound
<1>7. CASE CopyIsServers
  <2>1. Logged(held, log') /\ held.at <= Len(log) /\ held.at \in Nat
    BY <1>7 DEF CopyIsServers, Logged, Copies
  <2>2. ASSUME NEW m \in inbox' PROVE Ahead(held, m.copy)
    BY <1>1, <1>2, <1>7, <2>1, <2>2 DEF CopyIsServers, Ahead
  <2>3. QED
    BY <1>6, <1>7, <2>1, <2>2 DEF CopyIsServers, HeldSound
<1>8. QED
  BY <1>6, <1>7 DEF HeldSound, CopyIsCached

\* What arrives and is newer is logged later than what it replaces.
LEMMA LandSound ==
  ASSUME IInv, NEW m \in inbox, inbox' \subseteq inbox, UNCHANGED <<epoch, version, log, device>>,
         held' = Newer(held, m.copy)
  PROVE  MessagesSound' /\ HeldSound' /\ CacheSound'
<1> USE DEF IInv
<1>1. MessagesSound'
  BY DEF MessagesSound
<1>2. CASE held' = held
  <2>1. CacheSound'
    BY <1>2 DEF CacheSound, Had
  <2>2. CopyIsServers => CopyIsServers'
    BY <1>2 DEF CopyIsServers
  <2>3. QED
    BY <1>1, <1>2, <2>1, <2>2 DEF HeldSound, CopyIsCached
<1>3. CASE held' = m.copy
  <2>1. Logged(held', log') /\ held'.epoch > 0 /\ \A n \in inbox' : Ahead(held', n.copy)
    BY <1>3 DEF MessagesSound, RecordIsLogged
  <2>2. held'.value \in Had
    BY <2>1, LoggedShows DEF RecordIsLogged, Had
  <2>3. QED
    BY <1>1, <2>1, <2>2 DEF HeldSound, CopyIsServers, CacheSound, Had
<1>4. QED
  BY <1>1, <1>2, <1>3 DEF Newer

\* The three conjuncts about copies, of steps that change none of what they are about.
LEMMA CopiesKept ==
  ASSUME IInv, UNCHANGED <<stored, epoch, version, log, inbox, held, device>>
  PROVE  RecordIsLogged' /\ MessagesSound' /\ HeldSound' /\ CacheSound'
BY DEF IInv, RecordIsLogged, MessagesSound, HeldSound, CopyIsCached, CopyIsServers, CacheSound, Had

LEMMA LoggedIsRecord ==
  ASSUME RecordIsLogged
  PROVE  /\ ReadSettings(stored) \in Records /\ log[Len(log)] \in Records /\ log # <<>>
         /\ Len(log) \in Nat /\ \A c : Logged(c, log) => c.at <= Len(log)
BY ReadIsRecord DEF RecordIsLogged, Logged

-----------------------------------------------------------------------------
(***************************************************************************)
(* Every step keeps the invariant.                                         *)
(***************************************************************************)
LEMMA NewPageAsks == ASSUME NEW t PROVE PageAsks(NewPage, t)
<1>1. NoEdits \in [{} -> Values \cup {Bad}] /\ DOMAIN NoEdits = {}
  BY DEF NoEdits
<1>2. NoEdits \in Patches
  BY <1>1, IsPatch
<1> HIDE DEF NoEdits
<1>3. QED
  BY <1>1, <1>2 DEF NewPage, PageAsks, Pages, Asked

LEMMA InitIInv == SettingsInit => IInv
<1> SUFFICES ASSUME SettingsInit PROVE IInv
  OBVIOUS
<1>1. AsksOnly
  BY NewPageAsks DEF SettingsInit, AsksOnly
<1>2. ReadSettings(stored) \in Records /\ stored \in [Fields -> Values \cup {Bad}]
  <2>1. stored \in [Fields -> Values \cup {Bad}]
    BY SettingsAssumption DEF SettingsInit
  <2>2. QED
    BY <2>1, ReadIsRecord
<1>3. RecordIsLogged
  <2>1. log \in Seq(Records) /\ Len(log) = 1 /\ log[1] = ReadSettings(stored)
    BY <1>2 DEF SettingsInit
  <2>2. QED
    BY <1>2, <2>1 DEF SettingsInit, RecordIsLogged
<1>4. QED
  BY <1>1, <1>3 DEF SettingsInit, IInv, MessagesSound, HeldSound, CacheSound

LEMMA EditKeeps == ASSUME IInv, NEW f \in Fields, NEW value \in Values \cup {Bad}, Edit(f, value) PROVE IInv'
<1> USE DEF Edit
<1>1. PageAsks(page, typed)
  BY DEF IInv, AsksOnly
<1> DEFINE edits == ApplyPatch(page.edits, Only(f, value))
           status == IF DOMAIN AssessEdits(Shown(held), edits).patch # {} \/ page.status = "saving" THEN "saving" ELSE "idle"
<1>2. page' = [page EXCEPT !.edits = edits, !.timer = TRUE, !.status = status] /\ typed' = typed \cup {<<f, value>>}
  OBVIOUS
<1>3. PageAsks(page', typed')
  <2>1. status \in {"idle", "saving", "saved", "failed"} /\ page \in Pages
    BY <1>1 DEF PageAsks
  <2> HIDE DEF status, Edit
  <2>2. PageAsks([page EXCEPT !.edits = ApplyPatch(page.edits, Only(f, value)), !.timer = TRUE, !.status = status],
                 typed \cup {<<f, value>>})
    BY <1>1, <2>1, EditAsks
  <2>3. QED
    BY <1>2, <2>2
<1>4. \A call \in calls' : Asked(call.patch, typed')
  BY AskedLater DEF IInv, AsksOnly, serverVars
<1>5. QED
  BY <1>3, <1>4, CopiesKept DEF IInv, AsksOnly, serverVars, windowVars

LEMMA OtherWritesKeeps ==
  ASSUME IInv, NEW f \in Fields, NEW value \in Values \cup {Bad}, OtherWrites(f, value)
  PROVE  IInv'
<1> USE DEF OtherWrites
<1> DEFINE new == [from |-> "other", patch |-> Only(f, value)]
<1>1. Asked(new.patch, typed')
  BY DEF Asked, Only
<1>2. \A call \in calls' : Asked(call.patch, typed')
  BY <1>1, AskedLater DEF IInv, AsksOnly
<1>3. PageAsks(page', typed')
  <2>1. page' = page /\ typed \subseteq typed'
    BY DEF pageVars
  <2>2. QED
    BY <2>1, AskedLater DEF IInv, AsksOnly, PageAsks
<1>4. QED
  BY <1>2, <1>3, CopiesKept DEF IInv, AsksOnly, windowVars

LEMMA RunPageKeeps == ASSUME IInv, NEW leaves, RunPage(leaves) PROVE IInv'
<1> USE DEF RunPage
<1> DEFINE p == [page EXCEPT !.timer = FALSE]
<1>1. PageAsks(p, typed)
  BY DEF IInv, AsksOnly, PageAsks, Pages
<1> HIDE DEF p
<1>2. PageAsks(Run(p, Shown(held)), typed)
  BY <1>1, RunAsks
<1>3. PageAsks(page', typed')
  BY <1>2 DEF p, IInv, AsksOnly
<1>4. \A call \in calls' : Asked(call.patch, typed')
  BY <1>3, CallsAsk DEF IInv, AsksOnly
<1>5. QED
  BY <1>3, <1>4, CopiesKept DEF IInv, AsksOnly, windowVars

LEMMA PageRestKeeps == ASSUME IInv, Return \/ Fade PROVE IInv'
<1>1. PageAsks(page', typed')
  <2>1. CASE Return
    BY <2>1, NewPageAsks DEF Return
  <2>2. CASE Fade
    BY <2>2 DEF Fade, IInv, AsksOnly, PageAsks, Pages
  <2>3. QED
    BY <2>1, <2>2
<1>2. UNCHANGED <<stored, epoch, version, log, inbox, held, device, calls, typed>>
  BY DEF Return, Fade, serverVars, windowVars
<1>3. QED
  BY <1>1, <1>2, CopiesKept DEF IInv, AsksOnly

LEMMA AnswerKeeps == ASSUME IInv, NEW m \in inbox, Answer(m) PROVE IInv'
<1> USE DEF Answer
<1> DEFINE ended == IF m.ok THEN Saved(page) ELSE Failed(page)
<1>1. PageAsks(ended, typed)
  BY EndsAsk DEF IInv, AsksOnly, PageAsks
<1> HIDE DEF ended
<1>2. PageAsks(page', typed')
  <2>1. PageAsks(Loop(ended, Shown(held')), typed)
    BY <1>1, LoopAsks
  <2>2. QED
    BY <2>1 DEF ended
<1>3. \A call \in calls' : Asked(call.patch, typed')
  BY <1>2, CallsAsk DEF IInv, AsksOnly
<1>4. MessagesSound' /\ HeldSound' /\ CacheSound'
  <2>1. CASE m.ok
    BY <2>1, LandSound
  <2>2. CASE ~m.ok
    <3>1. held' = held /\ inbox' \subseteq inbox /\ UNCHANGED <<epoch, version, log, device>>
      BY <2>2
    <3>2. QED
      BY <3>1 DEF IInv, MessagesSound, HeldSound, CopyIsCached, CopyIsServers, CacheSound, Had
  <2>3. QED
    BY <2>1, <2>2
<1>5. RecordIsLogged'
  BY DEF IInv, RecordIsLogged
<1>6. QED
  BY <1>2, <1>3, <1>4, <1>5 DEF IInv, AsksOnly

LEMMA DeliverKeeps == ASSUME IInv, NEW m \in inbox, Deliver(m) PROVE IInv'
<1>1. MessagesSound' /\ HeldSound' /\ CacheSound'
  BY LandSound DEF Deliver, serverVars
<1>2. QED
  BY <1>1 DEF Deliver, serverVars, pageVars, IInv, AsksOnly, RecordIsLogged

\* What is on its way may only be taken from.
LEMMA LoseKeeps == ASSUME IInv, NEW m \in inbox, Lose(m) PROVE IInv'
<1>1. inbox' \subseteq inbox /\ UNCHANGED <<stored, epoch, version, log, calls, held, device, page, typed>>
  BY DEF Lose, serverVars, windowVars, pageVars
<1>2. MessagesSound' /\ HeldSound'
  BY <1>1 DEF IInv, MessagesSound, HeldSound, CopyIsCached, CopyIsServers
<1>3. QED
  BY <1>1, <1>2 DEF IInv, AsksOnly, RecordIsLogged, CacheSound, Had

\* The copies of steps of the server that leave the log alone, where what is sent is `sent`.
LEMMA SendKeeps ==
  ASSUME IInv, UNCHANGED <<stored, epoch, log, held, device, page, typed>>, version' \in Nat, version <= version',
         calls' \subseteq calls, NEW sent, inbox' \subseteq inbox \cup sent,
         \A m \in sent : m.copy = [epoch |-> epoch, version |-> version', value |-> log[Len(log)], at |-> Len(log)]
  PROVE  IInv'
<1>1. log' = log /\ log' \in Seq(Records) /\ Len(log) <= Len(log') /\ Len(log') > 0 /\ epoch' = epoch
  BY DEF IInv, RecordIsLogged
<1>2. MessagesSound' /\ HeldSound'
  BY <1>1, SentSound
<1>3. QED
  BY <1>2 DEF IInv, AsksOnly, RecordIsLogged, CacheSound, Had

LEMMA RefuseKeeps == ASSUME IInv, NEW call \in calls, Refuse(call) PROVE IInv'
<1> DEFINE sent == Reply(call, FALSE)
<1>1. version' \in Nat /\ version <= version' /\ version' = version
  BY DEF Refuse, IInv, RecordIsLogged
<1>2. \A m \in sent : m.copy = [epoch |-> epoch, version |-> version', value |-> log[Len(log)], at |-> Len(log)]
  BY <1>1 DEF Reply, Copy
<1>3. inbox' \subseteq inbox \cup sent /\ UNCHANGED <<stored, epoch, log, held, device, page, typed>> /\ calls' \subseteq calls
  BY DEF Refuse, windowVars, pageVars
<1> HIDE DEF sent
<1>4. QED
  BY <1>1, <1>2, <1>3, SendKeeps

LEMMA StoreKeeps == ASSUME IInv, NEW call \in calls, Store(call) PROVE IInv'
<1> USE DEF Store
<1> DEFINE next == ApplyPatch(ReadSettings(stored), call.patch)
<1>1. UNCHANGED <<epoch, version, held, device, page, typed>> /\ calls' \subseteq calls /\ version \in Nat
  BY DEF windowVars, pageVars, IInv, RecordIsLogged
<1>2. version' \in Nat /\ version <= version'
  BY <1>1
<1>3. ASSUME UNCHANGED <<stored, log>>, NEW ok, inbox' = inbox \cup Reply(call, ok) PROVE IInv'
  <2> DEFINE sent == Reply(call, ok)
  <2>1. \A m \in sent : m.copy = [epoch |-> epoch, version |-> version', value |-> log[Len(log)], at |-> Len(log)]
    BY <1>1 DEF Reply, Copy
  <2>2. inbox' \subseteq inbox \cup sent /\ UNCHANGED <<stored, epoch, log, held, device, page, typed>> /\ calls' \subseteq calls
    BY <1>1, <1>3
  <2> HIDE DEF sent, Store
  <2>3. QED
    BY <1>2, <2>1, <2>2, SendKeeps
<1>4. ASSUME stored' = next, log' = Append(log, next), inbox' = inbox PROVE IInv'
  <2>1. next \in Records
    BY LoggedIsRecord, PatchedIsRecord DEF IInv, AsksOnly
  <2> HIDE DEF Store, next
  <2>2. /\ log' \in Seq(Records) /\ Len(log') = Len(log) + 1 /\ log'[Len(log')] = next
        /\ \A i \in DOMAIN log : i \in DOMAIN log' /\ log'[i] = log[i]
        /\ \A c : Logged(c, log) => Logged(c, log')
    BY <1>4, <2>1, LogGrows DEF IInv, RecordIsLogged
  <2>3. stored' \in [Fields -> Values \cup {Bad}] /\ ReadSettings(stored') = next
    BY <1>4, <2>1, RecordReadsAsItself
  <2>4. RecordIsLogged'
    BY <1>1, <2>2, <2>3, LoggedIsRecord DEF IInv, RecordIsLogged
  <2>5. MessagesSound' /\ HeldSound'
    <3>1. Len(log) \in Nat /\ Len(log) <= Len(log') /\ Len(log') > 0 /\ version <= version' /\ version' \in Nat
      BY <1>1, <2>2, LoggedIsRecord DEF IInv
    <3>2. inbox' \subseteq inbox \cup {} /\ epoch' = epoch /\ UNCHANGED <<held, device>>
      BY <1>1, <1>4
    <3> DEFINE sent == {}
    <3>3. inbox' \subseteq inbox \cup sent
          /\ \A m \in sent : m.copy = [epoch |-> epoch', version |-> version', value |-> log'[Len(log')], at |-> Len(log')]
      BY <3>2
    <3>4. log' \in Seq(Records) /\ \A c : Logged(c, log) => Logged(c, log')
      BY <2>2
    <3> HIDE DEF sent
    <3>5. QED
      BY <3>1, <3>2, <3>3, <3>4, SentSound
  <2>6. CacheSound'
    <3>1. Had \subseteq Had'
      BY <2>2 DEF Had
    <3>2. QED
      BY <1>1, <3>1 DEF IInv, CacheSound
  <2>7. QED
    BY <1>1, <2>4, <2>5, <2>6 DEF IInv, AsksOnly
<1>5. QED
  BY <1>3, <1>4

LEMMA PublishKeeps == ASSUME IInv, Publish PROVE IInv'
<1> DEFINE copy == [epoch |-> epoch, version |-> version + 1, value |-> log[Len(log)], at |-> Len(log)]
           sent == {[to |-> "window", ok |-> TRUE, copy |-> copy]}
                   \cup (IF publishing.from = "page" THEN {[to |-> "page", ok |-> TRUE, copy |-> copy]} ELSE {})
<1>1. \A m \in sent : m.copy = [epoch |-> epoch, version |-> version', value |-> log[Len(log)], at |-> Len(log)]
  BY DEF Publish
<1>2. version' \in Nat /\ version <= version'
  BY DEF Publish, IInv, RecordIsLogged
<1>3. inbox' \subseteq inbox \cup sent /\ UNCHANGED <<stored, epoch, log, held, device, page, typed>> /\ calls' \subseteq calls
  BY DEF Publish, windowVars, pageVars
<1> HIDE DEF sent
<1>4. QED
  BY <1>1, <1>2, <1>3, SendKeeps

LEMMA SyncKeeps == ASSUME IInv, Sync PROVE IInv'
<1> DEFINE sent == {[to |-> "window", ok |-> TRUE, copy |-> Copy(ReadSettings(stored))]}
<1>1. \A m \in sent : m.copy = [epoch |-> epoch, version |-> version', value |-> log[Len(log)], at |-> Len(log)]
  BY DEF Sync, Copy, serverVars, IInv, RecordIsLogged
<1>2. version' \in Nat /\ version <= version'
  BY DEF Sync, serverVars, IInv, RecordIsLogged
<1>3. inbox' \subseteq inbox \cup sent /\ UNCHANGED <<stored, epoch, log, held, device, page, typed>> /\ calls' \subseteq calls
  BY DEF Sync, serverVars, windowVars, pageVars
<1> HIDE DEF sent
<1>4. QED
  BY <1>1, <1>2, <1>3, SendKeeps

LEMMA CrashKeeps == ASSUME IInv, Crash PROVE IInv'
<1>1. /\ epoch' = epoch + 1 /\ version' = 1 /\ calls' = {}
      /\ UNCHANGED <<stored, log, held, device, page, typed>>
  BY DEF Crash, windowVars, pageVars
<1>2. \A m \in inbox' : m.copy = [epoch |-> epoch', version |-> version', value |-> log[Len(log)], at |-> Len(log)]
  BY <1>1 DEF Crash
<1>3. RecordIsLogged' /\ Len(log) \in 1..Len(log) /\ log[Len(log)] \in Records /\ Len(log) \in Nat
  BY <1>1, LoggedIsRecord DEF IInv, RecordIsLogged
<1>4. epoch' \in Nat /\ version' \in Nat
  BY <1>3 DEF RecordIsLogged
<1>5. \A m \in inbox' : Logged(m.copy, log') /\ m.copy.epoch = epoch' /\ m.copy.version = version' /\ m.copy.at = Len(log)
  BY <1>1, <1>2, <1>3, <1>4 DEF Logged, Copies
<1>6. MessagesSound'
  BY <1>1, <1>3, <1>4, <1>5 DEF MessagesSound, Ahead
<1>7. CopyIsServers => CopyIsServers'
  <2> SUFFICES ASSUME CopyIsServers PROVE CopyIsServers'
    OBVIOUS
  <2>1. held' = held /\ Logged(held, log') /\ held.epoch > 0 /\ held.at <= Len(log)
    BY <1>1, LoggedIsRecord DEF CopyIsServers, IInv
  <2>2. \A m \in inbox' : Ahead(held, m.copy)
    BY <1>5, <2>1 DEF Ahead
  <2>3. QED
    BY <2>1, <2>2 DEF CopyIsServers
<1>8. HeldSound'
  BY <1>1, <1>7 DEF IInv, HeldSound, CopyIsCached
<1>9. QED
  BY <1>1, <1>3, <1>6, <1>8 DEF IInv, AsksOnly, CacheSound, Had

LEMMA PersistKeeps == ASSUME IInv, Persist PROVE IInv'
<1>1. /\ held # NoCopy /\ held.epoch # 0 /\ device' = held.value
      /\ UNCHANGED <<stored, epoch, version, log, inbox, calls, held, page, typed>>
  BY DEF Persist, serverVars, pageVars
<1>2. CopyIsServers
  BY <1>1 DEF IInv, HeldSound, CopyIsCached
<1>3. HeldSound' /\ CacheSound'
  <2>1. CopyIsServers'
    BY <1>1, <1>2 DEF CopyIsServers
  <2>2. QED
    BY <1>1, <2>1 DEF HeldSound, IInv, CacheSound, Had
<1>4. QED
  BY <1>1, <1>3 DEF IInv, AsksOnly, RecordIsLogged, MessagesSound

LEMMA HydrateKeeps == ASSUME IInv, Hydrate PROVE IInv'
<1>1. /\ held' = IF device = NoCopy THEN NoCopy ELSE [epoch |-> 0, version |-> 0, value |-> device, at |-> 0]
      /\ UNCHANGED <<stored, epoch, version, log, inbox, calls, device, page, typed>>
  BY DEF Hydrate, serverVars, pageVars
<1>2. HeldSound' /\ CacheSound'
  <2>1. CASE device = NoCopy
    BY <1>1, <2>1 DEF HeldSound, IInv, CacheSound, Had
  <2>2. CASE device # NoCopy
    <3>1. device \in Had /\ device \in Records
      BY <2>2 DEF IInv, CacheSound, Had, RecordIsLogged
    <3>2. held' \in Copies /\ held'.epoch = 0 /\ held'.at = 0 /\ held'.value = device
      BY <1>1, <2>2, <3>1 DEF Copies
    <3>3. QED
      BY <1>1, <2>2, <3>1, <3>2 DEF HeldSound, CopyIsCached, CacheSound, Had
  <2>3. QED
    BY <2>1, <2>2
<1>3. QED
  BY <1>1, <1>2 DEF IInv, AsksOnly, RecordIsLogged, MessagesSound

LEMMA NextKeeps == IInv /\ [SettingsNext]_settingsVars => IInv'
<1> SUFFICES ASSUME IInv, [SettingsNext]_settingsVars PROVE IInv'
  OBVIOUS
<1>1. CASE SettingsNext
  <2>1. ASSUME NEW f \in Fields, NEW value \in Values \cup {Bad}, Edit(f, value) \/ OtherWrites(f, value) PROVE IInv'
    BY <2>1, EditKeeps, OtherWritesKeeps
  <2>2. CASE TimerFires \/ Leave
    BY <2>2, RunPageKeeps DEF TimerFires, Leave
  <2>3. CASE Return \/ Fade
    BY <2>3, PageRestKeeps
  <2>4. ASSUME NEW m \in inbox, Answer(m) \/ Deliver(m) \/ Lose(m) PROVE IInv'
    BY <2>4, AnswerKeeps, DeliverKeeps, LoseKeeps
  <2>5. ASSUME NEW call \in calls, Refuse(call) \/ Store(call) PROVE IInv'
    BY <2>5, RefuseKeeps, StoreKeeps
  <2>6. CASE Publish
    BY <2>6, PublishKeeps
  <2>7. CASE Crash
    BY <2>7, CrashKeeps
  <2>8. CASE Sync
    BY <2>8, SyncKeeps
  <2>9. CASE Persist
    BY <2>9, PersistKeeps
  <2>10. CASE Hydrate
    BY <2>10, HydrateKeeps
  <2>11. QED
    BY <1>1, <2>1, <2>2, <2>3, <2>4, <2>5, <2>6, <2>7, <2>8, <2>9, <2>10 DEF SettingsNext
<1>2. CASE UNCHANGED settingsVars
  <2>1. UNCHANGED <<stored, epoch, version, log, inbox, calls, held, device, page, typed>>
    BY <1>2 DEF settingsVars, serverVars, windowVars, pageVars
  <2>2. QED
    BY <2>1, CopiesKept DEF IInv, AsksOnly
<1>3. QED
  BY <1>1, <1>2

\* Every state is one the invariant describes: what is typed, sent and stored was asked for, and every copy is one of
\* the records the server has had, no earlier than what it may take the place of.
THEOREM CopiesAreSound == SettingsSpec => []IInv
BY InitIInv, NextKeeps, PTL DEF SettingsSpec

-----------------------------------------------------------------------------
(***************************************************************************)
(* What is stored.                                                         *)
(***************************************************************************)
\* Only a write's turn changes the record.
LEMMA StoresAsked ==
  ASSUME IInv, NEW call \in calls, Store(call), log' # log \/ stored' # stored
  PROVE  /\ stored' \in Records /\ log' = Append(log, stored') /\ UNCHANGED <<held, device>>
         /\ \A f \in Fields : stored'[f] # ReadSettings(stored)[f] => <<f, stored'[f]>> \in typed
<1> DEFINE next == ApplyPatch(ReadSettings(stored), call.patch)
<1>1. /\ stored' = next /\ log' = Append(log, next) /\ UNCHANGED <<held, device>>
      /\ \A f \in DOMAIN call.patch : call.patch[f] \in Values
  BY DEF Store, windowVars
<1>2. Asked(call.patch, typed) /\ ReadSettings(stored) \in Records
  BY LoggedIsRecord DEF IInv, AsksOnly
<1>3. QED
  BY <1>1, <1>2, PatchedIsRecord

LEMMA OnlyStoreStores ==
  ASSUME SettingsNext, log' # log \/ stored' # stored
  PROVE  \E call \in calls : Store(call)
BY DEF SettingsNext, Edit, OtherWrites, TimerFires, Leave, RunPage, Return, Fade, Answer, Deliver, Lose, Refuse,
       Publish, Crash, Sync, Persist, Hydrate, serverVars

\* Nothing reaches the record but what someone asked for in its field, whatever an old copy shows, an answer says or
\* a save that failed left behind.
THEOREM StoresWhatWasAsked == SettingsSpec => OnlyWhatWasAsked
<1> DEFINE Step == \A f \in Fields : ReadSettings(stored)'[f] # ReadSettings(stored)[f] => <<f, stored'[f]>> \in typed
<1>1. IInv /\ [SettingsNext]_settingsVars => [Step]_settingsVars
  <2> SUFFICES ASSUME IInv, SettingsNext PROVE Step
    OBVIOUS
  <2>1. CASE stored' = stored
    BY <2>1 DEF ReadSettings
  <2>2. CASE stored' # stored
    <3>1. /\ stored' \in Records
          /\ \A f \in Fields : stored'[f] # ReadSettings(stored)[f] => <<f, stored'[f]>> \in typed
      BY <2>2, OnlyStoreStores, StoresAsked
    <3>2. ReadSettings(stored)' = stored'
      BY <3>1, RecordReadsAsItself
    <3>3. QED
      BY <3>1, <3>2
  <2>3. QED
    BY <2>1, <2>2
<1>2. QED
  BY <1>1, CopiesAreSound, PTL DEF SettingsSpec, OnlyWhatWasAsked

-----------------------------------------------------------------------------
(***************************************************************************)
(* The channel implements Follower.                                        *)
(***************************************************************************)
at == IF held = NoCopy THEN 0 ELSE held.at

LEMMA InitFollows == SettingsInit => TheCopy!Init
<1> SUFFICES ASSUME SettingsInit PROVE TheCopy!Init
  OBVIOUS
<1>1. ReadSettings(stored) \in Records /\ Defaults \in Records
  <2>1. stored \in [Fields -> Values \cup {Bad}]
    BY SettingsAssumption DEF SettingsInit
  <2>2. QED
    BY <2>1, ReadIsRecord, SettingsAssumption DEF Defaults, Records
<1>2. QED
  BY <1>1 DEF SettingsInit, TheCopy!Init, Shown

\* A copy that arrives is followed, or is no newer and changes nothing.
LEMMA LandFollows ==
  ASSUME IInv, NEW m \in inbox, held' = Newer(held, m.copy), log' = log
  PROVE  TheCopy!Follow \/ UNCHANGED <<log, at, Shown(held)>>
<1>1. CASE held' = held
  BY <1>1 DEF at, Shown
<1>2. CASE held' # held
  <2>1. held' = m.copy /\ IsNewer(IF held # NoCopy /\ held.epoch = 0 THEN NoCopy ELSE held, m.copy)
    BY <1>2 DEF Newer
  <2>2. Logged(m.copy, log) /\ log \in Seq(Records) /\ m.copy.epoch = epoch
    BY DEF IInv, MessagesSound, RecordIsLogged
  <2>3. held' # NoCopy /\ held'.at \in DOMAIN log /\ held'.at \in Nat /\ Shown(held') = log[held'.at]
    BY <2>1, <2>2, LoggedShows DEF Copies
  <2>4. at <= held'.at
    <3>1. CASE held = NoCopy \/ CopyIsCached
      BY <2>3, <3>1 DEF at, CopyIsCached
    <3>2. CASE held # NoCopy /\ CopyIsServers
      BY <2>1, <3>2 DEF at, CopyIsServers, Ahead, IsNewer
    <3>3. QED
      BY <3>1, <3>2 DEF IInv, HeldSound
  <2>5. QED
    BY <2>3, <2>4 DEF TheCopy!Follow, at
<1>3. QED
  BY <1>1, <1>2

LEMMA HydrateFollows ==
  ASSUME IInv, Hydrate
  PROVE  TheCopy!StartOver \/ TheCopy!Forget
<1>1. /\ held' = IF device = NoCopy THEN NoCopy ELSE [epoch |-> 0, version |-> 0, value |-> device, at |-> 0]
      /\ log' = log /\ held' # held
  BY DEF Hydrate, serverVars
<1>2. CASE device = NoCopy
  <2>1. held # NoCopy /\ CopyIsServers
    BY <1>1, <1>2 DEF IInv, HeldSound, CopyIsCached
  <2>2. held.at > 0
    BY <2>1, LoggedShows DEF CopyIsServers, IInv, RecordIsLogged
  <2>3. Defaults \in Records
    BY SettingsAssumption DEF Defaults, Records
  <2>4. QED
    BY <1>1, <1>2, <2>1, <2>2, <2>3 DEF TheCopy!Forget, Shown
<1>3. CASE device # NoCopy
  <2>1. device \in Had /\ device \in Records
    BY <1>3 DEF IInv, CacheSound, Had, RecordIsLogged
  <2>2. held' \in Copies /\ held'.at = 0 /\ held'.value = device
    BY <1>1, <1>3, <2>1 DEF Copies
  <2>3. held' # NoCopy
    BY <2>2, NullsAssumption
  <2>4. QED
    BY <1>1, <2>1, <2>2, <2>3 DEF TheCopy!StartOver, TheCopy!Had, Shown, Had
<1>4. QED
  BY <1>2, <1>3

LEMMA StepFollows ==
  ASSUME IInv, [SettingsNext]_settingsVars
  PROVE  [TheCopy!Next]_<<log, at, Shown(held)>>
<1>1. CASE log' # log
  <2>1. log' = Append(log, stored') /\ stored' \in Records /\ held' = held
    <3>1. SettingsNext
      BY <1>1 DEF settingsVars, serverVars
    <3>2. PICK call \in calls : Store(call)
      BY <1>1, <3>1, OnlyStoreStores
    <3>3. QED
      BY <1>1, <3>2, StoresAsked
  <2>2. TheCopy!Change
    BY <2>1 DEF TheCopy!Change, Shown
  <2>3. QED
    BY <2>2 DEF TheCopy!Next
<1>2. CASE log' = log /\ held' = held
  BY <1>2 DEF at, Shown
<1>3. CASE log' = log /\ held' # held
  <2>1. (\E m \in inbox : Answer(m) \/ Deliver(m)) \/ Hydrate
    BY <1>3 DEF SettingsNext, settingsVars, windowVars, Edit, OtherWrites, TimerFires, Leave, RunPage, Return, Fade, Lose,
                Refuse, Store, Publish, Crash, Sync, Persist
  <2>2. ASSUME NEW m \in inbox, Answer(m) \/ Deliver(m) PROVE TheCopy!Follow \/ UNCHANGED <<log, at, Shown(held)>>
    <3>1. held' = Newer(held, m.copy)
      BY <1>3, <2>2 DEF Answer, Deliver
    <3>2. QED
      BY <1>3, <3>1, LandFollows
  <2>3. QED
    BY <2>1, <2>2, HydrateFollows DEF TheCopy!Next
<1>4. QED
  BY <1>1, <1>2, <1>3

\* The versioned channel, with its answers, signals, crashes and the browser's cache, is a follower: the window
\* shows records the server has had, and none earlier than one it showed, but where it starts over from its cache.
THEOREM ChannelFollows == SettingsSpec => CopyFollows
<1>1. SettingsInit => TheCopy!Init
  BY InitFollows
<1>2. IInv /\ [SettingsNext]_settingsVars => [TheCopy!Next]_<<log, at, Shown(held)>>
  BY StepFollows
<1>3. QED
  BY <1>1, <1>2, CopiesAreSound, PTL DEF SettingsSpec, CopyFollows, TheCopy!Spec, at

-----------------------------------------------------------------------------
(***************************************************************************)
(* SettlePins: an Undo undoes its own settle, for any threads and any      *)
(* number of settles, since each settle has a time no other has.           *)
(***************************************************************************)
Remembered == reclaiming \cup undos \cup pressed
Entries == UNION {ToSet(s.entries) : s \in Remembered}

\* Every row the server holds: a thread's, and those an Undo compares with and gives back.
Written ==
  {rows[t] : t \in Threads} \cup {e.after : e \in Entries}
    \cup {e.before : e \in {d \in Entries : d.id \in Threads}}

Settled(row) == row.mark = "settled"

Shapes ==
  /\ "kind" \in DOMAIN job
  /\ \A s \in Remembered : "entries" \in DOMAIN s
  /\ rows = [t \in Threads |-> rows[t]]
  /\ time \in Nat /\ lastSettleAt \in Nat

\* Two rows of one time are of one settle, and none is of a time to come.
OwnTimes ==
  /\ \A row \in Written : Settled(row) => row.at \in Nat /\ row.at <= lastSettleAt
  /\ \A row, other \in Written : Settled(row) /\ Settled(other) /\ row.at = other.at => row.by = other.by

PInv == Shapes /\ OwnTimes /\ \A e \in Entries : Settled(e.after)

-----------------------------------------------------------------------------
LEMMA SoiledIs ==
  ASSUME NEW set, \A s \in set : "entries" \in DOMAIN s
  PROVE  /\ \A s \in Soiled(set) : "entries" \in DOMAIN s
         /\ UNION {ToSet(s.entries) : s \in Soiled(set)} = UNION {ToSet(s.entries) : s \in set}
<1>1. ASSUME NEW s \in set
      PROVE  "entries" \in DOMAIN [s EXCEPT !.clean = FALSE] /\ [s EXCEPT !.clean = FALSE].entries = s.entries
  BY <1>1
<1> QED BY <1>1 DEF Soiled

EntriesOf(set) == UNION {ToSet(s.entries) : s \in set}

LEMMA Parts ==
  Entries = EntriesOf(reclaiming) \cup EntriesOf(undos) \cup EntriesOf(pressed)
BY DEF Entries, EntriesOf, Remembered

LEMMA SoilsOthers ==
  ASSUME Shapes, SoilOthers
  PROVE  /\ \A s \in Remembered' : "entries" \in DOMAIN s
         /\ Entries' = Entries
<1>1. \A set \in {reclaiming, undos, pressed} : \A s \in set : "entries" \in DOMAIN s
  BY DEF Shapes, Remembered
<1>2. \A set \in {reclaiming, undos, pressed} :
        /\ \A s \in Soiled(set) : "entries" \in DOMAIN s
        /\ EntriesOf(Soiled(set)) = EntriesOf(set)
  BY <1>1, SoiledIs DEF EntriesOf
<1> HIDE DEF EntriesOf
<1>3. Entries' = EntriesOf(reclaiming') \cup EntriesOf(undos') \cup EntriesOf(pressed')
  BY DEF Entries, EntriesOf, Remembered
<1> QED BY <1>2, <1>3, Parts DEF SoilOthers, Remembered

\* A step that remembers no new entry, and after which each thread's row was held before or is
\* no settle's.
LEMMA Holds ==
  ASSUME PInv, Shapes', Entries' \subseteq Entries, lastSettleAt' = lastSettleAt,
         \A t \in Threads : rows'[t] \in Written \/ ~Settled(rows'[t])
  PROVE  PInv'
<1>1. \A row \in Written' : row \in Written \/ ~Settled(row) BY DEF Written
<1>2. OwnTimes' BY <1>1 DEF PInv, OwnTimes, Settled
<1>3. (\A e \in Entries : Settled(e.after))' BY DEF PInv, Settled
<1> QED BY <1>2, <1>3 DEF PInv

LEMMA SameRowsHold ==
  ASSUME PInv, "kind" \in DOMAIN job', rows' = rows, time' \in Nat, lastSettleAt' = lastSettleAt,
         \A s \in Remembered' : "entries" \in DOMAIN s, Entries' \subseteq Entries
  PROVE  PInv'
<1>1. Shapes' BY DEF PInv, Shapes
<1>2. \A t \in Threads : rows'[t] \in Written BY DEF Written
<1> QED BY <1>1, <1>2, Holds

LEMMA Kept ==
  ASSUME PInv, UNCHANGED <<reclaiming, undos, pressed>>
  PROVE  (\A s \in Remembered' : "entries" \in DOMAIN s) /\ Entries' = Entries
BY DEF PInv, Shapes, Remembered, Entries

LEMMA InitPInv == PinsInit => PInv
<1> SUFFICES ASSUME PinsInit PROVE PInv OBVIOUS
<1>1. Entries = {} BY DEF PinsInit, Entries, Remembered
<1>2. Shapes BY DEF PinsInit, Shapes, Remembered, Rest
<1>3. \A row \in Written : ~Settled(row) BY <1>1 DEF PinsInit, Written, Settled, NoRow
<1> QED BY <1>1, <1>2, <1>3 DEF PInv, OwnTimes

LEMMA SettleKeeps == ASSUME PInv, NEW root \in Threads, Settle(root) PROVE PInv'
<1>1. "kind" \in DOMAIN job' BY DEF Settle, NoJob
<1>2. rows' = rows /\ time' \in Nat /\ lastSettleAt' = lastSettleAt BY DEF Settle, PInv, Shapes
<1>3. SoilOthers BY DEF Settle
<1> QED BY <1>1, <1>2, <1>3, SoilsOthers, SameRowsHold DEF PInv

\* The steps of a change that write no row and end no change.
LEMMA JobStepKeeps ==
  ASSUME PInv, UnpinNext \/ RestoreListing \/ Repin \/ Place \/ Ends
  PROVE  PInv'
<1>1. UNCHANGED <<rows, reclaiming, undos, pressed, lastSettleAt, time>>
  BY DEF UnpinNext, RestoreListing, Repin, Place, Ends
<1>2. "kind" \in DOMAIN job'
  <2>1. "kind" \in DOMAIN job BY DEF PInv, Shapes
  <2>2. CASE UnpinNext BY <2>1, <2>2 DEF UnpinNext
  <2>3. CASE RestoreListing BY <2>1, <2>3 DEF RestoreListing
  <2>4. CASE Repin BY <2>1, <2>4 DEF Repin
  <2>5. CASE Place BY <2>1, <2>5 DEF Place
  <2>6. CASE Ends BY <2>6 DEF Ends, Rest
  <2> QED BY <2>2, <2>3, <2>4, <2>5, <2>6
<1>3. time' \in Nat BY <1>1 DEF PInv, Shapes
<1> QED BY <1>1, <1>2, <1>3, Kept, SameRowsHold

LEMMA RestoreEndsKeeps == ASSUME PInv, RestoreEnds PROVE PInv'
<1>1. UNCHANGED <<reclaiming, undos, pressed, lastSettleAt, time>> BY DEF RestoreEnds
<1>2. Shapes'
  <2>1. "kind" \in DOMAIN job' BY DEF RestoreEnds, PInv, Shapes
  <2>2. rows' = [t \in Threads |-> rows'[t]] BY DEF RestoreEnds, PInv, Shapes
  <2> QED BY <1>1, <2>1, <2>2, Kept DEF PInv, Shapes
<1>3. ASSUME NEW t \in Threads PROVE rows'[t] \in Written \/ ~Settled(rows'[t])
  <2>1. rows[t] \in Written BY DEF Written
  <2>2. rows'[t] = rows[t] \/ rows'[t].mark = "waiting" BY DEF RestoreEnds, PInv, Shapes
  <2> QED BY <2>1, <2>2 DEF Settled
<1> QED BY <1>1, <1>2, <1>3, Kept, Holds

LEMMA ReclaimedKeeps == ASSUME PInv, Reclaimed PROVE PInv'
<1>1. PICK s \in reclaiming :
        reclaiming' = reclaiming \ {s} /\ undos' = Remember(undos, [s EXCEPT !.until = time + UndoFor])
  BY DEF Reclaimed
<1>2. "entries" \in DOMAIN s BY DEF PInv, Shapes, Remembered
<1> DEFINE token == [s EXCEPT !.until = time + UndoFor]
<1>3. "entries" \in DOMAIN token /\ token.entries = s.entries BY <1>2
<1>4. undos' \subseteq undos \cup {token} BY <1>1 DEF Remember
<1> HIDE DEF token
<1>5. UNCHANGED <<rows, job, pressed, lastSettleAt, time>> BY DEF Reclaimed
<1>6. \A r \in Remembered' : "entries" \in DOMAIN r
  BY <1>1, <1>3, <1>4, <1>5 DEF PInv, Shapes, Remembered
<1>7. Entries' \subseteq Entries
  <2>1. ASSUME NEW r \in Remembered' PROVE r \in Remembered \/ r = token
    BY <1>1, <1>4, <1>5 DEF Remembered
  <2>2. s \in Remembered BY DEF Remembered
  <2> QED BY <1>3, <2>1, <2>2 DEF Entries
<1> QED BY <1>5, <1>6, <1>7, SameRowsHold DEF PInv, Shapes

LEMMA PressUndoKeeps == ASSUME PInv, PressUndo PROVE PInv'
<1>1. Remembered' \subseteq Remembered BY DEF PressUndo, Remembered
<1>2. UNCHANGED <<rows, job, lastSettleAt, time>> BY DEF PressUndo
<1>3. Entries' \subseteq Entries BY <1>1 DEF Entries
<1> QED BY <1>1, <1>2, <1>3, SameRowsHold DEF PInv, Shapes

LEMMA ElsewhereKeeps == ASSUME PInv, BbChanges \/ Tick PROVE PInv'
<1>1. CASE BbChanges
  <2>1. UNCHANGED <<rows, lastSettleAt, time>> BY <1>1 DEF BbChanges
  <2>2. SoilOthers BY <1>1 DEF BbChanges, SoilAll
  <2>3. "kind" \in DOMAIN job' BY <1>1 DEF BbChanges, SoilAll, PInv, Shapes
  <2>4. time' \in Nat BY <2>1 DEF PInv, Shapes
  <2> QED BY <2>1, <2>2, <2>3, <2>4, SoilsOthers, SameRowsHold DEF PInv
<1>2. CASE Tick
  <2>1. UNCHANGED <<rows, job, reclaiming, undos, pressed, lastSettleAt>> BY <1>2 DEF Tick
  <2>2. time' \in Nat BY <1>2 DEF Tick, PInv, Shapes
  <2>3. "kind" \in DOMAIN job' BY <2>1 DEF PInv, Shapes
  <2> QED BY <2>1, <2>2, <2>3, Kept, SameRowsHold
<1> QED BY <1>1, <1>2

LEMMA RowChangesKeeps == ASSUME PInv, RowChanges PROVE PInv'
<1>1. SoilOthers /\ UNCHANGED <<lastSettleAt, time>> BY DEF RowChanges, SoilAll
<1>2. (\A s \in Remembered' : "entries" \in DOMAIN s) /\ Entries' = Entries
  BY <1>1, SoilsOthers DEF PInv
<1>3. Shapes'
  <2>1. "kind" \in DOMAIN job' BY DEF RowChanges, SoilAll, PInv, Shapes
  <2>2. rows' = [t \in Threads |-> rows'[t]] BY DEF RowChanges, PInv, Shapes
  <2> QED BY <1>1, <1>2, <2>1, <2>2 DEF PInv, Shapes
<1>4. ASSUME NEW t \in Threads PROVE rows'[t] \in Written \/ ~Settled(rows'[t])
  <2>1. rows[t] \in Written BY DEF Written
  <2>2. rows'[t] = rows[t] \/ rows'[t].mark \in {"none", "parked"}
    BY DEF RowChanges, NoRow, PInv, Shapes
  <2> QED BY <2>1, <2>2 DEF Settled
<1> QED BY <1>1, <1>2, <1>3, <1>4, Holds

\* What an Undo gives back was held.
LEMMA UndoRunsKeeps == ASSUME PInv, UndoRuns PROVE PInv'
<1>1. UNCHANGED <<lastSettleAt, time>> BY DEF UndoRuns
<1>2. PICK u \in pressed :
        /\ pressed' = Soiled(pressed \ {u})
        /\ rows' = [t \in Threads |->
             IF t \in {e.id : e \in {d \in ToSet(u.entries) : ~KeepsChangeOf(d)}}
             THEN (CHOOSE e \in {d \in ToSet(u.entries) : ~KeepsChangeOf(d)} : e.id = t).before
             ELSE rows[t]]
        /\ "kind" \in DOMAIN job'
  BY DEF UndoRuns, NoJob
<1>3. \A set \in {reclaiming, undos, pressed \ {u}} : \A s \in set : "entries" \in DOMAIN s
  BY DEF PInv, Shapes, Remembered
<1>4. \A set \in {reclaiming, undos, pressed \ {u}} :
        /\ \A s \in Soiled(set) : "entries" \in DOMAIN s
        /\ EntriesOf(Soiled(set)) = EntriesOf(set)
  BY <1>3, SoiledIs DEF EntriesOf
<1>5. reclaiming' = Soiled(reclaiming) /\ undos' = Soiled(undos) BY DEF UndoRuns
<1>6. \A s \in Remembered' : "entries" \in DOMAIN s BY <1>2, <1>4, <1>5 DEF Remembered
<1>7. Entries' \subseteq Entries
  <2>1. EntriesOf(pressed \ {u}) \subseteq EntriesOf(pressed) BY DEF EntriesOf
  <2>2. Entries' = EntriesOf(reclaiming') \cup EntriesOf(undos') \cup EntriesOf(pressed')
    BY DEF Entries, EntriesOf, Remembered
  <2> HIDE DEF EntriesOf
  <2> QED BY <1>2, <1>4, <1>5, <2>1, <2>2, Parts
<1>8. Shapes' BY <1>1, <1>2, <1>6 DEF PInv, Shapes
<1>9. ASSUME NEW t \in Threads PROVE rows'[t] \in Written
  <2> DEFINE given == {d \in ToSet(u.entries) : ~KeepsChangeOf(d)}
  <2>1. given \subseteq Entries BY <1>2 DEF Entries, Remembered
  <2>2. rows'[t] = IF t \in {e.id : e \in given} THEN (CHOOSE e \in given : e.id = t).before ELSE rows[t]
    BY <1>2
  <2> HIDE DEF given
  <2>3. CASE \E e \in given : e.id = t
    <3> DEFINE entry == CHOOSE e \in given : e.id = t
    <3>1. entry \in given /\ entry.id = t BY <2>3
    <3>2. rows'[t] = entry.before BY <2>2, <2>3
    <3> HIDE DEF entry
    <3> QED BY <2>1, <3>1, <3>2 DEF Written
  <2>4. CASE ~\E e \in given : e.id = t BY <2>2, <2>4 DEF Written
  <2> QED BY <2>3, <2>4
<1> QED BY <1>1, <1>7, <1>8, <1>9, Holds

LEMMA Later == ASSUME PInv PROVE SettleTime \in Nat /\ SettleTime > lastSettleAt
BY DEF SettleTime, PInv, Shapes

\* A settle writes rows of a time and a write that are its own.
LEMMA SettlesKeeps ==
  ASSUME PInv, NEW tree, NEW entries, NEW settle, NEW by,
         entries = [i \in DOMAIN tree |-> Entry(tree[i], SettleTime)],
         by = used.writes + 1,
         "entries" \in DOMAIN settle, settle.entries = entries,
         "kind" \in DOMAIN job',
         rows' = [t \in Threads |-> IF t \in ToSet(tree) THEN Entry(t, SettleTime).after ELSE rows[t]],
         reclaiming' = reclaiming \cup {settle}, lastSettleAt' = SettleTime,
         UNCHANGED <<undos, pressed, time>>
  PROVE  PInv'
<1> DEFINE own == [mark |-> "settled", at |-> SettleTime, by |-> by]
<1>1. \A t : Entry(t, SettleTime).id = t /\ Entry(t, SettleTime).before = rows[t]
                                         /\ Entry(t, SettleTime).after = own
  BY DEF Entry
<1>2. own.mark = "settled" /\ own.at = SettleTime /\ own.by = by OBVIOUS
<1> HIDE DEF own
<1>3. \A e \in ToSet(entries) : e.before = rows[e.id] /\ e.after = own
  BY <1>1 DEF ToSet
<1> HIDE DEF SettleTime
<1>4. Remembered' = Remembered \cup {settle} BY DEF Remembered
<1>5. Entries' = Entries \cup ToSet(entries) BY <1>4 DEF Entries
<1>6. \A s \in Remembered' : "entries" \in DOMAIN s BY <1>4 DEF PInv, Shapes
<1>7. Shapes' BY <1>6, Later DEF PInv, Shapes
<1>8. \A e \in Entries' : Settled(e.after) BY <1>2, <1>3, <1>5 DEF PInv, Settled
<1>9. \A row \in Written' : row \in Written \/ row = own
  <2>1. \A t \in Threads : rows'[t] = own \/ rows'[t] \in Written BY <1>1 DEF Written
  <2>2. \A e \in Entries' : e.after = own \/ e.after \in Written BY <1>3, <1>5 DEF Written
  <2>3. \A e \in Entries' : e.id \in Threads => e.before \in Written BY <1>3, <1>5 DEF Written
  <2> QED BY <2>1, <2>2, <2>3 DEF Written
<1>10. OwnTimes'
  <2>1. \A row \in Written : Settled(row) => row.at \in Nat /\ row.at < SettleTime
    BY Later DEF PInv, OwnTimes, Shapes
  <2>2. \A row \in Written' : Settled(row) => row.at \in Nat /\ row.at <= lastSettleAt'
    BY <1>2, <1>9, <2>1, Later
  <2>3. ASSUME NEW row \in Written', NEW other \in Written',
               Settled(row), Settled(other), row.at = other.at
        PROVE  row.by = other.by
    <3>1. CASE row \in Written /\ other \in Written BY <2>3, <3>1 DEF PInv, OwnTimes
    <3>2. CASE row = own /\ other \in Written
      <4>1. other.at < SettleTime /\ other.at \in Nat BY <2>1, <2>3, <3>2
      <4> QED BY <1>2, <2>3, <3>2, <4>1, Later
    <3>3. CASE row \in Written /\ other = own
      <4>1. row.at < SettleTime /\ row.at \in Nat BY <2>1, <2>3, <3>3
      <4> QED BY <1>2, <2>3, <3>3, <4>1, Later
    <3>4. CASE row = own /\ other = own BY <3>4
    <3> QED BY <1>9, <3>1, <3>2, <3>3, <3>4
  <2> QED BY <2>2, <2>3 DEF OwnTimes, Settled
<1> QED BY <1>7, <1>8, <1>10 DEF PInv, Settled

LEMMA SecondListingKeeps == ASSUME PInv, SecondListing PROVE PInv'
<1>1. UNCHANGED <<undos, pressed, time>> BY DEF SecondListing
<1>2. CASE UNCHANGED <<rows, reclaiming, lastSettleAt>> /\ "kind" \in DOMAIN job'
  <2>1. time' \in Nat BY <1>1 DEF PInv, Shapes
  <2> QED BY <1>1, <1>2, <2>1, Kept, SameRowsHold
<1>3. CASE /\ lastSettleAt' = SettleTime
           /\ rows' = [t \in Threads |-> IF t \in ToSet(TreeIds(bb, job.root)) THEN Entry(t, SettleTime).after ELSE rows[t]]
           /\ reclaiming' = reclaiming \cup
                {[n |-> used.settles, root |-> job.root,
                  entries |-> [i \in DOMAIN TreeIds(bb, job.root) |-> Entry(TreeIds(bb, job.root)[i], SettleTime)],
                  until |-> 0, clean |-> job.clean, first |-> job.first, before |-> job.before]}
           /\ job' = Rest
  <2> DEFINE tree == TreeIds(bb, job.root)
             entries == [i \in DOMAIN tree |-> Entry(tree[i], SettleTime)]
             settle == [n |-> used.settles, root |-> job.root, entries |-> entries, until |-> 0,
                        clean |-> job.clean, first |-> job.first, before |-> job.before]
  <2>1. "entries" \in DOMAIN settle /\ settle.entries = entries OBVIOUS
  <2>2. "kind" \in DOMAIN job' BY <1>3 DEF Rest
  <2>3. rows' = [t \in Threads |-> IF t \in ToSet(tree) THEN Entry(t, SettleTime).after ELSE rows[t]]
    BY <1>3
  <2>4. reclaiming' = reclaiming \cup {settle} /\ lastSettleAt' = SettleTime BY <1>3
  <2>5. entries = [i \in DOMAIN tree |-> Entry(tree[i], SettleTime)] OBVIOUS
  <2> HIDE DEF tree, entries, settle
  <2> QED BY <1>1, <2>1, <2>2, <2>3, <2>4, <2>5, SettlesKeeps
<1>4. "kind" \in DOMAIN job BY DEF PInv, Shapes
<1> QED BY <1>2, <1>3, <1>4 DEF SecondListing

LEMMA NextPInv == ASSUME PInv, [PinsNext]_pinVars PROVE PInv'
<1>1. CASE UNCHANGED pinVars
  <2>1. rows' = rows /\ lastSettleAt' = lastSettleAt /\ UNCHANGED <<reclaiming, undos, pressed>>
    BY <1>1 DEF pinVars
  <2>2. "kind" \in DOMAIN job' /\ time' \in Nat BY <1>1 DEF pinVars, PInv, Shapes
  <2> QED BY <2>1, <2>2, Kept, SameRowsHold
<1>2. CASE PinsNext
  <2>1. ASSUME NEW t \in Threads, Settle(t) PROVE PInv' BY <2>1, SettleKeeps
  <2>2. CASE SecondListing BY <2>2, SecondListingKeeps
  <2>3. CASE UnpinNext \/ RestoreListing \/ Repin \/ Place \/ Ends BY <2>3, JobStepKeeps
  <2>4. CASE RestoreEnds BY <2>4, RestoreEndsKeeps
  <2>5. CASE Reclaimed BY <2>5, ReclaimedKeeps
  <2>6. CASE PressUndo BY <2>6, PressUndoKeeps
  <2>7. CASE UndoRuns BY <2>7, UndoRunsKeeps
  <2>8. CASE BbChanges \/ Tick BY <2>8, ElsewhereKeeps
  <2>9. CASE RowChanges BY <2>9, RowChangesKeeps
  <2> QED BY <1>2, <2>1, <2>2, <2>3, <2>4, <2>5, <2>6, <2>7, <2>8, <2>9 DEF PinsNext
<1> QED BY <1>1, <1>2

\* Only UndoRuns begins an Undo, and it gives back a row that is as its entry's settle left it:
\* of that settle's time, so of that settle.
LEMMA UndoStep == ASSUME PInv, [PinsNext]_pinVars PROVE UndoesItsOwnSettle
<1> SUFFICES ASSUME NEW t \in Threads, Idle, job'.kind = "undo", rows'[t] # rows[t]
             PROVE  \E e \in ToSet(job'.entries) : e.id = t /\ rows[t].by = e.after.by
  BY DEF UndoesItsOwnSettle
<1>1. UndoRuns
  <2>1. "kind" \in DOMAIN job /\ job.kind = "none" BY DEF PInv, Shapes, Idle
  <2>2. ASSUME NEW root \in Threads, Settle(root) PROVE FALSE BY <2>2 DEF Settle, NoJob
  <2>3. ~(UnpinNext \/ SecondListing \/ RestoreListing \/ Repin \/ Place \/ RestoreEnds \/ Ends)
    BY <2>1 DEF UnpinNext, SecondListing, RestoreListing, Repin, Place, RestoreEnds, Ends, Idle
  <2>4. ~(Reclaimed \/ PressUndo \/ Tick) BY <2>1 DEF Reclaimed, PressUndo, Tick
  <2>5. ~(BbChanges \/ RowChanges) BY <2>1 DEF BbChanges, RowChanges, SoilAll
  <2> QED BY <2>1, <2>2, <2>3, <2>4, <2>5 DEF PinsNext, pinVars
<1>2. PICK u \in pressed :
        /\ rows' = [s \in Threads |->
             IF s \in {e.id : e \in {d \in ToSet(u.entries) : ~KeepsChangeOf(d)}}
             THEN (CHOOSE e \in {d \in ToSet(u.entries) : ~KeepsChangeOf(d)} : e.id = s).before
             ELSE rows[s]]
        /\ job'.entries = u.entries
  BY <1>1 DEF UndoRuns, NoJob
<1>3. PICK e \in ToSet(u.entries) : ~KeepsChangeOf(e) /\ e.id = t BY <1>2
<1>4. e \in Entries BY <1>2 DEF Entries, Remembered
<1>5. rows[t].mark = e.after.mark /\ rows[t].at = e.after.at BY <1>3 DEF KeepsChangeOf, SameRow
<1>6. rows[t] \in Written /\ e.after \in Written BY <1>4 DEF Written
<1>7. Settled(e.after) /\ Settled(rows[t]) BY <1>4, <1>5 DEF PInv, Settled
<1>8. rows[t].by = e.after.by BY <1>5, <1>6, <1>7 DEF PInv, OwnTimes
<1> QED BY <1>2, <1>3, <1>8

\* Whatever threads there are, however many settles, undos, changes elsewhere and failed calls,
\* and whether or not the clock moves, an Undo gives back only rows its own settle wrote
\* (server/actions.ts: settleTime, undoSettle).
THEOREM UndoesOnlyItsOwn == PinsSpec => [][UndoesItsOwnSettle]_pinVars
<1>1. PinsInit => PInv BY InitPInv
<1>2. PInv /\ [PinsNext]_pinVars => PInv' BY NextPInv
<1>3. PInv /\ [PinsNext]_pinVars => UndoesItsOwnSettle BY UndoStep
<1> QED BY <1>1, <1>2, <1>3, PTL DEF PinsSpec

-----------------------------------------------------------------------------
(***************************************************************************)
(* ThreadMenu: what the menu shows of a setting.  The menu is an instance, *)
(* with variables of its own.                                              *)
(***************************************************************************)
CONSTANTS Facts, Shortcuts, Presets, Invalid, Day, Year, MaxEntries,
          MaxMounts, MaxShows, MaxReads, MaxChanges, MaxPicks

VARIABLES menuTime, clock, mounted, facts, shown, requested, values, versions, stretch, reads, writes, setting,
          machines, looking, again, picker, sent, mounts, shows, picks, menuFaults

Menu == INSTANCE ThreadMenu WITH Defaults <- Presets, time <- menuTime, epoch <- stretch, faults <- menuFaults

\* One call's number of each thread it asks for, and what it was told of each.
Batch == UNION {[epoch : Nat, version : [S -> Nat], got : [S -> Nat \cup {Menu!Unknown, Menu!Pending}]] : S \in SUBSET Threads}
Write == [thread : Threads, epoch : Nat, version : Nat, took : Nat \cup {Menu!Pending}]

MenuTypes ==
  /\ values \in [Threads -> Nat \cup {Menu!Unknown}]
  /\ versions \in [Threads -> Nat] /\ setting \in [Threads -> Nat]
  /\ stretch \in Nat /\ shown \subseteq Threads
  /\ reads \subseteq Batch /\ writes \subseteq Write

\* A batch that holds the thread's latest read.
AsksLatest(r, t) == t \in DOMAIN r.got /\ Menu!Latest(versions, stretch, r.epoch, r.version[t], t)
SetsLatest(w) == Menu!Latest(versions, stretch, w.epoch, w.version, w.thread)

Numbered ==
  /\ \A r \in reads : /\ r.epoch <= stretch
                      /\ \A t \in DOMAIN r.got : r.epoch = stretch => r.version[t] <= versions[t]
  /\ \A w \in writes : w.epoch <= stretch /\ (w.epoch = stretch => w.version <= versions[w.thread])

OneLatest == \A t \in Threads :
  /\ \A r, other \in reads : AsksLatest(r, t) /\ AsksLatest(other, t) => r = other
  /\ \A w, other \in writes : w.thread = t /\ other.thread = t /\ SetsLatest(w) /\ SetsLatest(other) => w = other
  /\ \A r \in reads, w \in writes : AsksLatest(r, t) /\ w.thread = t => ~SetsLatest(w)

InTime ==
  /\ \A t \in Threads : values[t] <= setting[t]
  /\ \A r \in reads : \A t \in DOMAIN r.got :
       /\ r.got[t] <= setting[t]
       /\ AsksLatest(r, t) /\ r.got[t] \in Nat => values[t] <= r.got[t]
  /\ \A w \in writes : w.took <= setting[w.thread] /\ (SetsLatest(w) /\ w.took \in Nat => values[w.thread] <= w.took)

MInv == MenuTypes /\ Numbered /\ OneLatest /\ InTime

LEMMA BatchHas ==
  ASSUME NEW r \in Batch
  PROVE  /\ DOMAIN r.got \subseteq Threads /\ DOMAIN r.version = DOMAIN r.got /\ r.epoch \in Nat
         /\ \A t \in DOMAIN r.got : r.version[t] \in Nat /\ r.got[t] \in Nat \cup {Menu!Unknown, Menu!Pending}
<1>1. PICK S \in SUBSET Threads : r \in [epoch : Nat, version : [S -> Nat], got : [S -> Nat \cup {Menu!Unknown, Menu!Pending}]]
  BY DEF Batch
<1> QED BY <1>1

LEMMA BatchIs ==
  ASSUME NEW S \in SUBSET Threads, NEW e \in Nat, NEW v \in [S -> Nat], NEW g \in [S -> Nat \cup {Menu!Unknown, Menu!Pending}]
  PROVE  [epoch |-> e, version |-> v, got |-> g] \in Batch
<1>1. [epoch |-> e, version |-> v, got |-> g]
        \in [epoch : Nat, version : [S -> Nat], got : [S -> Nat \cup {Menu!Unknown, Menu!Pending}]] OBVIOUS
<1> QED BY <1>1 DEF Batch

LEMMA BatchGets ==
  ASSUME NEW r \in Batch, NEW t \in DOMAIN r.got, NEW answer \in Nat \cup {Menu!Unknown}
  PROVE  /\ [r EXCEPT !.got[t] = answer] \in Batch
         /\ [r EXCEPT !.got[t] = answer].epoch = r.epoch
         /\ [r EXCEPT !.got[t] = answer].version = r.version
         /\ [r EXCEPT !.got[t] = answer].got = [r.got EXCEPT ![t] = answer]
<1>1. PICK S \in SUBSET Threads : r \in [epoch : Nat, version : [S -> Nat], got : [S -> Nat \cup {Menu!Unknown, Menu!Pending}]]
  BY DEF Batch
<1>2. [r.got EXCEPT ![t] = answer] \in [S -> Nat \cup {Menu!Unknown, Menu!Pending}] BY <1>1
<1>3. [r EXCEPT !.got[t] = answer]
        \in [epoch : Nat, version : [S -> Nat], got : [S -> Nat \cup {Menu!Unknown, Menu!Pending}]] BY <1>1, <1>2
<1>4. [r EXCEPT !.got[t] = answer] \in Batch BY <1>3 DEF Batch
<1> QED BY <1>1, <1>4

LEMMA InitMInv == ASSUME Menu!MenuInit PROVE MInv
BY DEF Menu!MenuInit, MInv, MenuTypes, Numbered, OneLatest, InTime, Menu!Unknown

\* What disturbs neither the calls nor what they are compared with.
LEMMA AsideMInv ==
  ASSUME MInv, UNCHANGED <<values, versions, reads, writes, setting, stretch>>, shown' \subseteq Threads
  PROVE  MInv'
BY DEF MInv, MenuTypes, Numbered, OneLatest, InTime, AsksLatest, SetsLatest, Menu!Latest

LEMMA RequestMInv ==
  ASSUME MInv, UNCHANGED <<values, writes, setting, stretch>>, shown' \subseteq Threads,
         NEW threads \in SUBSET Threads, NEW before, Menu!Request(threads, before)
  PROVE  MInv'
<1> DEFINE entering == threads \ before
           new == [epoch |-> stretch, version |-> [t \in entering |-> versions'[t]],
                   got |-> [t \in entering |-> Menu!Pending]]
<1>1. CASE entering = {}
  <2>1. UNCHANGED <<versions, reads>> BY <1>1 DEF Menu!Request
  <2> QED BY <2>1, AsideMInv
<1>2. CASE entering # {}
  <2>1. versions' = [t \in Threads |-> versions[t] + IF t \in entering THEN 1 ELSE 0] BY <1>2 DEF Menu!Request
  <2> PICK n : n = new OBVIOUS
  <2>2. reads' = reads \cup {n} BY <1>2 DEF Menu!Request
  <2>3. versions' \in [Threads -> Nat] BY <2>1 DEF MInv, MenuTypes
  <2>4. /\ \A t \in Threads : versions'[t] >= versions[t]
        /\ \A t \in entering : versions'[t] = versions[t] + 1
        /\ \A t \in Threads \ entering : versions'[t] = versions[t]
    BY <2>1 DEF MInv, MenuTypes
  <2>5. n \in Batch
    <3>1. entering \in SUBSET Threads OBVIOUS
    <3>2. [t \in entering |-> versions'[t]] \in [entering -> Nat] BY <2>3, <3>1
    <3>3. [t \in entering |-> Menu!Pending] \in [entering -> Nat \cup {Menu!Unknown, Menu!Pending}] OBVIOUS
    <3>4. stretch \in Nat BY DEF MInv, MenuTypes
    <3> HIDE DEF entering
    <3> QED BY <3>1, <3>2, <3>3, <3>4, BatchIs
  <2>6. DOMAIN n.got = entering /\ n.epoch = stretch
        /\ \A t \in entering : n.version[t] = versions'[t] /\ n.got[t] = Menu!Pending
    OBVIOUS
  <2> HIDE DEF new
  <2>7. MenuTypes' BY <2>2, <2>3, <2>5 DEF MInv, MenuTypes
  \* No earlier call of an entering thread is the latest, and of the others nothing changes.
  <2>8. \A r \in reads, t \in Threads :
          AsksLatest(r, t)' => AsksLatest(r, t) /\ t \notin entering
    <3> SUFFICES ASSUME NEW r \in reads, NEW t \in Threads, AsksLatest(r, t)'
                 PROVE AsksLatest(r, t) /\ t \notin entering OBVIOUS
    <3>1. r \in Batch BY DEF MInv, MenuTypes
    <3>2. t \in DOMAIN r.got /\ r.epoch = stretch /\ versions'[t] = r.version[t] BY DEF AsksLatest, Menu!Latest
    <3>3. r.version[t] <= versions[t] /\ r.version[t] \in Nat /\ versions[t] \in Nat
      BY <3>1, <3>2, BatchHas DEF MInv, Numbered, MenuTypes
    <3> QED BY <3>2, <3>3, <2>3, <2>4 DEF AsksLatest, Menu!Latest
  <2>9. \A w \in writes : SetsLatest(w)' => SetsLatest(w) /\ w.thread \notin entering
    <3> SUFFICES ASSUME NEW w \in writes, SetsLatest(w)' PROVE SetsLatest(w) /\ w.thread \notin entering OBVIOUS
    <3>1. w \in Write BY DEF MInv, MenuTypes
    <3>2. w.epoch = stretch /\ versions'[w.thread] = w.version BY DEF SetsLatest, Menu!Latest
    <3>3. w.version <= versions[w.thread] /\ w.version \in Nat /\ versions[w.thread] \in Nat /\ w.thread \in Threads
      BY <3>1, <3>2 DEF MInv, Numbered, MenuTypes, Write
    <3> QED BY <3>2, <3>3, <2>3, <2>4 DEF SetsLatest, Menu!Latest
  <2>10. \A t \in Threads : AsksLatest(n, t)' => t \in entering BY <2>6 DEF AsksLatest
  <2>11. Numbered'
    <3>1. ASSUME NEW r \in reads', NEW t \in DOMAIN r.got, r.epoch = stretch PROVE r.version[t] <= versions'[t]
      <4>1. CASE r = n BY <4>1, <2>3, <2>6
      <4>2. CASE r \in reads
        <5>1. t \in Threads /\ r.version[t] \in Nat BY <4>2, BatchHas DEF MInv, MenuTypes
        <5>2. r.version[t] <= versions[t] /\ versions[t] \in Nat BY <3>1, <4>2, <5>1 DEF MInv, Numbered, MenuTypes
        <5> QED BY <5>1, <5>2, <2>3, <2>4
      <4> QED BY <4>1, <4>2, <2>2
    <3>2. ASSUME NEW w \in writes, w.epoch = stretch PROVE w.version <= versions'[w.thread]
      <4>1. w.thread \in Threads /\ w.version \in Nat BY DEF MInv, MenuTypes, Write
      <4>2. w.version <= versions[w.thread] /\ versions[w.thread] \in Nat BY <3>2, <4>1 DEF MInv, Numbered, MenuTypes
      <4> QED BY <4>1, <4>2, <2>3, <2>4
    <3>3. \A r \in reads' : r.epoch <= stretch BY <2>2, <2>6 DEF MInv, Numbered, MenuTypes
    <3> QED BY <3>1, <3>2, <3>3 DEF MInv, Numbered
  <2>12. OneLatest'
    <3> SUFFICES ASSUME NEW t \in Threads
        PROVE /\ \A r, other \in reads' : AsksLatest(r, t)' /\ AsksLatest(other, t)' => r = other
              /\ \A w, other \in writes : w.thread = t /\ other.thread = t /\ SetsLatest(w)' /\ SetsLatest(other)'
                   => w = other
              /\ \A r \in reads', w \in writes : AsksLatest(r, t)' /\ w.thread = t => ~SetsLatest(w)'
      BY DEF OneLatest
    <3>1. ASSUME NEW r \in reads', NEW other \in reads', AsksLatest(r, t)', AsksLatest(other, t)' PROVE r = other
      BY <3>1, <2>2, <2>8, <2>10 DEF MInv, OneLatest
    <3>2. ASSUME NEW w \in writes, NEW other \in writes, w.thread = t, other.thread = t,
                 SetsLatest(w)', SetsLatest(other)'
          PROVE w = other
      BY <3>2, <2>9 DEF MInv, OneLatest
    <3>3. ASSUME NEW r \in reads', NEW w \in writes, AsksLatest(r, t)', w.thread = t PROVE ~SetsLatest(w)'
      BY <3>3, <2>2, <2>8, <2>9, <2>10 DEF MInv, OneLatest
    <3> QED BY <3>1, <3>2, <3>3
  <2>13. InTime'
    <3>1. ASSUME NEW r \in reads', NEW t \in DOMAIN r.got
          PROVE r.got[t] <= setting[t] /\ (AsksLatest(r, t)' /\ r.got[t] \in Nat => values[t] <= r.got[t])
      <4>1. CASE r = n
        <5>1. r.got[t] = Menu!Pending /\ t \in Threads BY <4>1, <2>6
        <5> QED BY <5>1 DEF Menu!Pending, MInv, MenuTypes
      <4>2. CASE r \in reads
        <5>1. t \in Threads BY <4>2, BatchHas DEF MInv, MenuTypes
        <5> QED BY <4>2, <5>1, <2>8 DEF MInv, InTime
      <4> QED BY <4>1, <4>2, <2>2
    <3> QED BY <3>1, <2>9 DEF MInv, InTime
  <2> QED BY <2>7, <2>11, <2>12, <2>13 DEF MInv
<1> QED BY <1>1, <1>2

\* A batch that bb answers stays where it was among the calls.
LEMMA BbReadsMInv ==
  ASSUME MInv, NEW r \in reads, NEW t \in Threads, Menu!BbReads(r, t)
  PROVE  MInv'
<1>1. PICK answer \in {setting[t], Menu!Unknown} : reads' = (reads \ {r}) \cup {[r EXCEPT !.got[t] = answer]}
  BY DEF Menu!BbReads
<1>2. r \in Batch /\ t \in DOMAIN r.got /\ setting[t] \in Nat BY DEF MInv, MenuTypes, Menu!BbReads
<1>3. answer \in Nat \cup {Menu!Unknown} BY <1>2
<1> PICK n : n = [r EXCEPT !.got[t] = answer] OBVIOUS
<1>4. n \in Batch /\ n.epoch = r.epoch /\ n.version = r.version /\ n.got = [r.got EXCEPT ![t] = answer]
  BY <1>2, <1>3, BatchGets
<1>5. DOMAIN n.got = DOMAIN r.got /\ n.got[t] = answer /\ \A u \in DOMAIN r.got \ {t} : n.got[u] = r.got[u]
  BY <1>2, <1>4
<1>6. reads' = (reads \ {r}) \cup {n} BY <1>1
<1>7. UNCHANGED <<values, versions, writes, setting, stretch, shown>> BY DEF Menu!BbReads
<1>8. \A u \in Threads : AsksLatest(n, u) <=> AsksLatest(r, u) BY <1>4, <1>5 DEF AsksLatest, Menu!Latest
<1>9. \A o, u : AsksLatest(o, u)' <=> AsksLatest(o, u) BY <1>7 DEF AsksLatest, Menu!Latest
<1>10. \A w : SetsLatest(w)' <=> SetsLatest(w) BY <1>7 DEF SetsLatest, Menu!Latest
<1>11. MenuTypes' BY <1>4, <1>6, <1>7 DEF MInv, MenuTypes
<1>12. Numbered'
  <2>1. n.epoch <= stretch /\ \A u \in DOMAIN n.got : n.epoch = stretch => n.version[u] <= versions[u]
    BY <1>4, <1>5 DEF MInv, Numbered
  <2>2. \A o \in reads' : /\ o.epoch <= stretch
                         /\ \A u \in DOMAIN o.got : o.epoch = stretch => o.version[u] <= versions[u]
    BY <2>1, <1>6 DEF MInv, Numbered
  <2> QED BY <2>2, <1>7 DEF MInv, Numbered
<1>13. OneLatest'
  <2>1. ASSUME NEW u \in Threads, NEW o \in reads', NEW other \in reads', AsksLatest(o, u), AsksLatest(other, u)
        PROVE o = other
    BY <2>1, <1>6, <1>8 DEF MInv, OneLatest
  <2>2. ASSUME NEW u \in Threads, NEW o \in reads', NEW w \in writes, AsksLatest(o, u), w.thread = u
        PROVE ~SetsLatest(w)
    BY <2>2, <1>6, <1>8 DEF MInv, OneLatest
  <2>3. \A u \in Threads : \A w, other \in writes :
          w.thread = u /\ other.thread = u /\ SetsLatest(w) /\ SetsLatest(other) => w = other
    BY DEF MInv, OneLatest
  <2> QED BY <2>1, <2>2, <2>3, <1>7, <1>9, <1>10 DEF OneLatest
<1>14. InTime'
  <2>1. ASSUME NEW o \in reads', NEW u \in DOMAIN o.got
        PROVE o.got[u] <= setting[u] /\ (AsksLatest(o, u) /\ o.got[u] \in Nat => values[u] <= o.got[u])
    <3>1. CASE o \in reads BY <3>1, <2>1 DEF MInv, InTime
    <3>2. CASE o = n /\ u # t
      <4>1. u \in DOMAIN r.got /\ n.got[u] = r.got[u] /\ u \in Threads BY <3>2, <1>2, <1>5, BatchHas
      <4> QED BY <3>2, <4>1, <1>8 DEF MInv, InTime
    <3>3. CASE o = n /\ u = t
      <4>1. o.got[u] = setting[u] \/ o.got[u] = Menu!Unknown BY <3>3, <1>5
      <4>2. values[u] <= setting[u] BY <3>3 DEF MInv, InTime
      <4> QED BY <4>1, <4>2, <1>2, <3>3 DEF Menu!Unknown
    <3> QED BY <1>6, <3>1, <3>2, <3>3
  <2> QED BY <2>1, <1>7, <1>9, <1>10 DEF MInv, InTime
<1> QED BY <1>11, <1>12, <1>13, <1>14 DEF MInv

\* An answered batch that is a thread's latest read leaves no other that is.
LEMMA AnsweredMInv ==
  ASSUME MInv, NEW r \in reads, Menu!ReadsAnswered(r)
  PROVE  MInv' /\ Menu!NeverShowsAnOlder
<1>1. r \in Batch BY DEF MInv, MenuTypes
<1>2. UNCHANGED <<versions, writes, setting, stretch, shown>> /\ reads' = reads \ {r} BY DEF Menu!ReadsAnswered
<1>3. values' = [t \in Threads |-> IF AsksLatest(r, t) /\ r.got[t] # Menu!Unknown THEN r.got[t] ELSE values[t]]
  BY DEF Menu!ReadsAnswered, AsksLatest
<1>4. \A t \in DOMAIN r.got : r.got[t] \in Nat \cup {Menu!Unknown} BY <1>1, BatchHas DEF Menu!ReadsAnswered
<1>5. \A t \in Threads : AsksLatest(r, t) /\ r.got[t] # Menu!Unknown =>
        values'[t] = r.got[t] /\ r.got[t] \in Nat /\ values[t] <= r.got[t] /\ r.got[t] <= setting[t]
  BY <1>3, <1>4 DEF AsksLatest, MInv, InTime
<1>6. \A t \in Threads : ~(AsksLatest(r, t) /\ r.got[t] # Menu!Unknown) => values'[t] = values[t] BY <1>3
<1>7. \A o, u : AsksLatest(o, u)' <=> AsksLatest(o, u) BY <1>2 DEF AsksLatest, Menu!Latest
<1>8. \A w : SetsLatest(w)' <=> SetsLatest(w) BY <1>2 DEF SetsLatest, Menu!Latest
<1>9. values' \in [Threads -> Nat \cup {Menu!Unknown}]
  <2>1. \A t \in Threads : values'[t] \in Nat \cup {Menu!Unknown} BY <1>5, <1>6 DEF MInv, MenuTypes
  <2> QED BY <1>3, <2>1
<1>10. MenuTypes' BY <1>2, <1>9 DEF MInv, MenuTypes
<1>11. Numbered' /\ OneLatest' BY <1>2, <1>7, <1>8 DEF MInv, Numbered, OneLatest
<1>12. InTime'
  <2>1. \A t \in Threads : values'[t] <= setting[t] BY <1>5, <1>6 DEF MInv, InTime
  <2>2. ASSUME NEW o \in reads', NEW t \in DOMAIN o.got, AsksLatest(o, t), o.got[t] \in Nat
        PROVE values'[t] <= o.got[t]
    <3>1. t \in Threads /\ o \in reads /\ o # r BY <1>2, BatchHas DEF MInv, MenuTypes
    <3>2. ~AsksLatest(r, t) BY <2>2, <3>1 DEF MInv, OneLatest
    <3> QED BY <2>2, <3>1, <3>2, <1>6 DEF MInv, InTime
  <2>3. ASSUME NEW w \in writes, SetsLatest(w), w.took \in Nat PROVE values'[w.thread] <= w.took
    <3>1. w.thread \in Threads BY DEF MInv, MenuTypes, Write
    <3>2. ~AsksLatest(r, w.thread) BY <2>3, <3>1 DEF MInv, OneLatest
    <3> QED BY <2>3, <3>1, <3>2, <1>6 DEF MInv, InTime
  <2> QED BY <2>1, <2>2, <2>3, <1>2, <1>7, <1>8 DEF MInv, InTime
<1>13. Menu!NeverShowsAnOlder
  <2> SUFFICES ASSUME NEW t \in Threads, values[t] # Menu!Unknown PROVE values'[t] >= values[t] BY DEF Menu!NeverShowsAnOlder
  <2>1. values[t] \in Nat BY DEF MInv, MenuTypes
  <2> QED BY <2>1, <1>5, <1>6
<1> QED BY <1>10, <1>11, <1>12, <1>13 DEF MInv

LEMMA ChooseMInv ==
  ASSUME MInv, NEW t \in Threads, Menu!Choose(t)
  PROVE  MInv'
<1>1. versions' = [versions EXCEPT ![t] = @ + 1] BY DEF Menu!Choose
<1> PICK n : n = [thread |-> t, epoch |-> stretch, version |-> versions'[t], took |-> Menu!Pending] OBVIOUS
<1>2. writes' = writes \cup {n} BY DEF Menu!Choose
<1>3. UNCHANGED <<values, reads, setting, stretch, shown>> BY DEF Menu!Choose
<1>4. versions' \in [Threads -> Nat] /\ versions'[t] = versions[t] + 1 /\ versions[t] \in Nat
      /\ \A u \in Threads \ {t} : versions'[u] = versions[u]
  BY <1>1 DEF MInv, MenuTypes
<1>5. n \in Write /\ n.thread = t /\ n.epoch = stretch /\ n.version = versions'[t] /\ n.took = Menu!Pending
  BY <1>4 DEF Write, MInv, MenuTypes
<1>6. MenuTypes' BY <1>2, <1>3, <1>4, <1>5 DEF MInv, MenuTypes
<1>7. \A r \in reads, u \in Threads : AsksLatest(r, u)' => AsksLatest(r, u) /\ u # t
  <2> SUFFICES ASSUME NEW r \in reads, NEW u \in Threads, AsksLatest(r, u)' PROVE AsksLatest(r, u) /\ u # t OBVIOUS
  <2>1. r \in Batch BY DEF MInv, MenuTypes
  <2>2. u \in DOMAIN r.got /\ r.epoch = stretch /\ versions'[u] = r.version[u] BY <1>3 DEF AsksLatest, Menu!Latest
  <2>3. r.version[u] <= versions[u] /\ r.version[u] \in Nat BY <2>1, <2>2, BatchHas DEF MInv, Numbered
  <2> QED BY <2>2, <2>3, <1>4 DEF AsksLatest, Menu!Latest
<1>8. \A w \in writes : SetsLatest(w)' => SetsLatest(w) /\ w.thread # t
  <2> SUFFICES ASSUME NEW w \in writes, SetsLatest(w)' PROVE SetsLatest(w) /\ w.thread # t OBVIOUS
  <2>1. w \in Write BY DEF MInv, MenuTypes
  <2>2. w.epoch = stretch /\ versions'[w.thread] = w.version BY <1>3 DEF SetsLatest, Menu!Latest
  <2>3. w.version <= versions[w.thread] /\ w.version \in Nat /\ w.thread \in Threads
    BY <2>1, <2>2 DEF MInv, Numbered, Write
  <2> QED BY <2>2, <2>3, <1>4 DEF SetsLatest, Menu!Latest
<1>9. Numbered'
  <2>1. ASSUME NEW r \in reads, NEW u \in DOMAIN r.got, r.epoch = stretch PROVE r.version[u] <= versions'[u]
    <3>1. u \in Threads /\ r.version[u] \in Nat BY BatchHas DEF MInv, MenuTypes
    <3>2. r.version[u] <= versions[u] /\ versions[u] \in Nat BY <2>1, <3>1 DEF MInv, Numbered, MenuTypes
    <3> QED BY <3>1, <3>2, <1>4
  <2>2. ASSUME NEW w \in writes', w.epoch = stretch PROVE w.version <= versions'[w.thread]
    <3>1. CASE w = n BY <3>1, <1>4, <1>5
    <3>2. CASE w \in writes
      <4>1. w.thread \in Threads /\ w.version \in Nat BY <3>2 DEF MInv, MenuTypes, Write
      <4>2. w.version <= versions[w.thread] /\ versions[w.thread] \in Nat BY <2>2, <3>2, <4>1 DEF MInv, Numbered, MenuTypes
      <4> QED BY <4>1, <4>2, <1>4
    <3> QED BY <1>2, <3>1, <3>2
  <2>3. \A w \in writes' : w.epoch <= stretch BY <1>2, <1>5 DEF MInv, Numbered, MenuTypes
  <2> QED BY <2>1, <2>2, <2>3, <1>3 DEF MInv, Numbered
<1>10. OneLatest'
  <2> SUFFICES ASSUME NEW u \in Threads
      PROVE /\ \A r, other \in reads : AsksLatest(r, u)' /\ AsksLatest(other, u)' => r = other
            /\ \A w, other \in writes' : w.thread = u /\ other.thread = u /\ SetsLatest(w)' /\ SetsLatest(other)'
                 => w = other
            /\ \A r \in reads, w \in writes' : AsksLatest(r, u)' /\ w.thread = u => ~SetsLatest(w)'
    BY <1>3 DEF OneLatest
  <2>1. ASSUME NEW r \in reads, NEW other \in reads, AsksLatest(r, u)', AsksLatest(other, u)' PROVE r = other
    BY <2>1, <1>7 DEF MInv, OneLatest
  <2>2. ASSUME NEW w \in writes', NEW other \in writes', w.thread = u, other.thread = u,
               SetsLatest(w)', SetsLatest(other)'
        PROVE w = other
    BY <2>2, <1>2, <1>5, <1>8 DEF MInv, OneLatest
  <2>3. ASSUME NEW r \in reads, NEW w \in writes', AsksLatest(r, u)', w.thread = u PROVE ~SetsLatest(w)'
    BY <2>3, <1>2, <1>5, <1>7, <1>8 DEF MInv, OneLatest
  <2> QED BY <2>1, <2>2, <2>3
<1>11. InTime'
  <2>1. \A r \in reads : \A u \in DOMAIN r.got : u \in Threads BY BatchHas DEF MInv, MenuTypes
  <2>2. n.took <= setting[t] /\ n.took \notin Nat BY <1>5 DEF Menu!Pending, MInv, MenuTypes
  <2> QED BY <2>1, <2>2, <1>2, <1>3, <1>5, <1>7, <1>8 DEF MInv, InTime
<1> QED BY <1>6, <1>9, <1>10, <1>11 DEF MInv

LEMMA ChosenMInv ==
  ASSUME MInv, NEW w \in writes, Menu!Chosen(w)
  PROVE  MInv' /\ Menu!NeverShowsAnOlder
<1>1. w \in Write /\ w.took \in Nat /\ w.thread \in Threads BY DEF MInv, MenuTypes, Menu!Chosen, Write
<1>2. UNCHANGED <<versions, reads, setting, stretch, shown>> /\ writes' = writes \ {w} BY DEF Menu!Chosen
<1>3. values' = IF SetsLatest(w) THEN [values EXCEPT ![w.thread] = w.took] ELSE values
  BY DEF Menu!Chosen, SetsLatest
<1>4. /\ \A t \in Threads : ~(SetsLatest(w) /\ t = w.thread) => values'[t] = values[t]
      /\ SetsLatest(w) => values'[w.thread] = w.took
  BY <1>1, <1>3 DEF MInv, MenuTypes
<1>5. w.took <= setting[w.thread] /\ (SetsLatest(w) => values[w.thread] <= w.took) BY <1>1 DEF MInv, InTime
<1>6. \A o, u : AsksLatest(o, u)' <=> AsksLatest(o, u) BY <1>2 DEF AsksLatest, Menu!Latest
<1>7. \A o : SetsLatest(o)' <=> SetsLatest(o) BY <1>2 DEF SetsLatest, Menu!Latest
<1>8. values' \in [Threads -> Nat \cup {Menu!Unknown}] BY <1>1, <1>3 DEF MInv, MenuTypes
<1>9. MenuTypes' BY <1>2, <1>8 DEF MInv, MenuTypes
<1>10. Numbered' /\ OneLatest' BY <1>2, <1>6, <1>7 DEF MInv, Numbered, OneLatest
<1>11. InTime'
  <2>1. \A t \in Threads : values'[t] <= setting[t] BY <1>1, <1>4, <1>5 DEF MInv, InTime
  <2>2. ASSUME NEW o \in reads, NEW t \in DOMAIN o.got, AsksLatest(o, t), o.got[t] \in Nat
        PROVE values'[t] <= o.got[t]
    <3>1. t \in Threads BY BatchHas DEF MInv, MenuTypes
    <3>2. ~(SetsLatest(w) /\ t = w.thread) BY <2>2, <3>1 DEF MInv, OneLatest
    <3> QED BY <2>2, <3>1, <3>2, <1>4 DEF MInv, InTime
  <2>3. ASSUME NEW o \in writes', SetsLatest(o), o.took \in Nat PROVE values'[o.thread] <= o.took
    <3>1. o \in writes /\ o # w /\ o.thread \in Threads BY <1>2 DEF MInv, MenuTypes, Write
    <3>2. ~(SetsLatest(w) /\ o.thread = w.thread) BY <2>3, <3>1 DEF MInv, OneLatest
    <3> QED BY <2>3, <3>1, <3>2, <1>4 DEF MInv, InTime
  <2> QED BY <2>1, <2>2, <2>3, <1>2, <1>6, <1>7 DEF MInv, InTime
<1>12. Menu!NeverShowsAnOlder
  <2> SUFFICES ASSUME NEW t \in Threads, values[t] # Menu!Unknown PROVE values'[t] >= values[t] BY DEF Menu!NeverShowsAnOlder
  <2>1. values[t] \in Nat BY DEF MInv, MenuTypes
  <2> QED BY <2>1, <1>1, <1>4, <1>5
<1> QED BY <1>9, <1>10, <1>11, <1>12 DEF MInv

\* bb takes a choice, or another window changes the setting: the setting moves on.
LEMMA SettingMInv ==
  ASSUME MInv, NEW t \in Threads, setting' = [setting EXCEPT ![t] = @ + 1],
         NEW n, NEW w,
         \/ writes' = writes
         \/ /\ w \in writes /\ n \in Write
            /\ w.thread = t /\ n.thread = t /\ n.epoch = w.epoch /\ n.version = w.version /\ n.took = setting'[t]
            /\ writes' = (writes \ {w}) \cup {n},
         UNCHANGED <<values, versions, reads, stretch, shown>>
  PROVE  MInv'
<1>1. /\ setting' \in [Threads -> Nat] /\ setting'[t] = setting[t] + 1
      /\ \A u \in Threads : setting'[u] >= setting[u]
  BY DEF MInv, MenuTypes
<1>2. \A o, u : AsksLatest(o, u)' <=> AsksLatest(o, u) BY DEF AsksLatest, Menu!Latest
<1>3. \A o : SetsLatest(o)' <=> SetsLatest(o) BY DEF SetsLatest, Menu!Latest
<1>4. n.thread = w.thread /\ n.epoch = w.epoch /\ n.version = w.version => (SetsLatest(n) <=> SetsLatest(w))
  BY DEF SetsLatest, Menu!Latest
<1>5. MenuTypes' BY <1>1 DEF MInv, MenuTypes
<1>6. Numbered'
  <2>1. \A o \in writes' : o.epoch <= stretch /\ (o.epoch = stretch => o.version <= versions[o.thread])
    BY DEF MInv, Numbered
  <2> QED BY <2>1 DEF MInv, Numbered
<1>7. OneLatest'
  <2>1. ASSUME NEW u \in Threads, NEW o \in writes', NEW other \in writes', o.thread = u, other.thread = u,
               SetsLatest(o), SetsLatest(other)
        PROVE o = other
    BY <2>1, <1>4 DEF MInv, OneLatest
  <2>2. ASSUME NEW u \in Threads, NEW r \in reads, NEW o \in writes', AsksLatest(r, u), o.thread = u
        PROVE ~SetsLatest(o)
    BY <2>2, <1>4 DEF MInv, OneLatest
  <2>3. \A u \in Threads : \A r, other \in reads : AsksLatest(r, u) /\ AsksLatest(other, u) => r = other
    BY DEF MInv, OneLatest
  <2> QED BY <2>1, <2>2, <2>3, <1>2, <1>3 DEF OneLatest
<1>8. InTime'
  <2>1. \A u \in Threads : values[u] <= setting'[u] BY <1>1 DEF MInv, InTime, MenuTypes, Menu!Unknown
  <2>2. ASSUME NEW r \in reads, NEW u \in DOMAIN r.got PROVE r.got[u] <= setting'[u]
    <3>1. u \in Threads /\ r.got[u] \in Nat \cup {Menu!Unknown, Menu!Pending} BY BatchHas DEF MInv, MenuTypes
    <3>2. r.got[u] <= setting[u] /\ setting[u] \in Nat /\ setting'[u] \in Nat BY <3>1, <1>1 DEF MInv, InTime, MenuTypes
    <3> QED BY <3>1, <3>2, <1>1 DEF Menu!Unknown, Menu!Pending
  <2>3. ASSUME NEW o \in writes
        PROVE o.took <= setting'[o.thread] /\ (SetsLatest(o) /\ o.took \in Nat => values[o.thread] <= o.took)
    <3>1. o.thread \in Threads /\ o.took \in Nat \cup {Menu!Pending} BY DEF MInv, MenuTypes, Write
    <3>2. o.took <= setting[o.thread] /\ setting[o.thread] \in Nat /\ setting'[o.thread] \in Nat
      BY <3>1, <1>1 DEF MInv, InTime, MenuTypes
    <3>3. o.took <= setting'[o.thread] BY <3>1, <3>2, <1>1 DEF Menu!Pending
    <3> QED BY <3>3 DEF MInv, InTime
  <2>4. n.thread = t /\ n.took = setting'[t] => n.took <= setting'[n.thread] /\ values[n.thread] <= n.took
    BY <1>1, <2>1
  <2>5. \A o \in writes' : o.took <= setting'[o.thread] /\ (SetsLatest(o) /\ o.took \in Nat => values[o.thread] <= o.took)
    BY <2>3, <2>4
  <2> QED BY <2>1, <2>2, <2>5, <1>2, <1>3 DEF MInv, InTime
<1> QED BY <1>5, <1>6, <1>7, <1>8 DEF MInv

\* A refused choice is forgotten.
LEMMA RefusedMInv == ASSUME MInv, NEW w \in writes, Menu!BbRefuses(w) PROVE MInv'
<1>1. UNCHANGED <<values, versions, reads, setting, stretch, shown>> /\ writes' = writes \ {w} BY DEF Menu!BbRefuses
<1>2. \A o, u : AsksLatest(o, u)' <=> AsksLatest(o, u) BY <1>1 DEF AsksLatest, Menu!Latest
<1>3. \A o : SetsLatest(o)' <=> SetsLatest(o) BY <1>1 DEF SetsLatest, Menu!Latest
<1> QED BY <1>1, <1>2, <1>3 DEF MInv, MenuTypes, Numbered, OneLatest, InTime

\* When the last registration unmounts, every call on its way is of an earlier stretch.
LEMMA UnmountMInv == ASSUME MInv, Menu!Unmount PROVE MInv' /\ Menu!NeverShowsAnOlder
<1>1. UNCHANGED <<reads, writes, setting, shown>> BY DEF Menu!Unmount
<1>2. CASE mounted' > 0
  <2>1. UNCHANGED <<stretch, values, versions>> BY <1>2 DEF Menu!Unmount
  <2>2. MInv' BY <1>1, <2>1, AsideMInv DEF MInv, MenuTypes
  <2>3. \A t \in Threads : values[t] \in Int BY DEF MInv, MenuTypes, Menu!Unknown
  <2> QED BY <2>1, <2>2, <2>3 DEF Menu!NeverShowsAnOlder
<1>3. CASE ~(mounted' > 0)
  <2>1. /\ stretch' = stretch + 1 /\ values' = [t \in Threads |-> Menu!Unknown] /\ versions' = [t \in Threads |-> 0]
    BY <1>3 DEF Menu!Unmount
  <2>2. stretch \in Nat /\ stretch' \in Nat BY <2>1 DEF MInv, MenuTypes
  <2>3. \A r \in reads : r.epoch \in Nat /\ r.epoch <= stretch BY BatchHas DEF MInv, MenuTypes, Numbered
  <2>4. \A w \in writes : w.epoch \in Nat /\ w.epoch <= stretch BY DEF MInv, MenuTypes, Numbered, Write
  <2>5. \A r \in reads : r.epoch <= stretch' /\ r.epoch # stretch' BY <2>1, <2>2, <2>3
  <2>6. \A w \in writes : w.epoch <= stretch' /\ w.epoch # stretch' BY <2>1, <2>2, <2>4
  <2>7. \A r \in reads : \A t : ~AsksLatest(r, t)' BY <2>5 DEF AsksLatest, Menu!Latest
  <2>8. \A w \in writes : ~SetsLatest(w)' BY <2>6 DEF SetsLatest, Menu!Latest
  <2>9. MenuTypes' BY <1>1, <2>1, <2>2 DEF MInv, MenuTypes
  <2>10. Numbered' /\ OneLatest' BY <1>1, <2>5, <2>6, <2>7, <2>8 DEF Numbered, OneLatest
  <2>11. InTime' BY <1>1, <2>1, <2>7, <2>8 DEF MInv, InTime, MenuTypes, Menu!Unknown
  <2>12. Menu!NeverShowsAnOlder BY <2>1 DEF Menu!NeverShowsAnOlder
  <2> QED BY <2>9, <2>10, <2>11, <2>12 DEF MInv
<1> QED BY <1>2, <1>3

LEMMA StaysShown == ASSUME MInv, values' = values PROVE Menu!NeverShowsAnOlder
<1>1. \A t \in Threads : values[t] \in Int BY DEF MInv, MenuTypes, Menu!Unknown
<1> QED BY <1>1 DEF Menu!NeverShowsAnOlder

LEMMA NotifyMInv == ASSUME MInv, Menu!NotifyNext PROVE MInv' /\ Menu!NeverShowsAnOlder
<1>1. ASSUME NEW r \in reads, Menu!ReadsAnswered(r) PROVE MInv' /\ Menu!NeverShowsAnOlder BY <1>1, AnsweredMInv
<1>2. ASSUME NEW r \in reads, NEW t \in Threads, Menu!BbReads(r, t) PROVE MInv' /\ Menu!NeverShowsAnOlder
  BY <1>2, BbReadsMInv, StaysShown DEF Menu!BbReads
<1>3. ASSUME NEW w \in writes, Menu!BbTakes(w) PROVE MInv' /\ Menu!NeverShowsAnOlder
  <2>1. w \in Write /\ w.thread \in Threads BY DEF MInv, MenuTypes, Write
  <2>2. setting' = [setting EXCEPT ![w.thread] = @ + 1] BY <1>3 DEF Menu!BbTakes
  <2> PICK n : n = [w EXCEPT !.took = setting'[w.thread]] OBVIOUS
  <2>3. setting'[w.thread] \in Nat BY <2>1, <2>2 DEF MInv, MenuTypes
  <2>4. n \in Write /\ n.thread = w.thread /\ n.epoch = w.epoch /\ n.version = w.version /\ n.took = setting'[w.thread]
    BY <2>1, <2>3 DEF Write
  <2>5. writes' = (writes \ {w}) \cup {n} /\ UNCHANGED <<values, versions, reads, stretch, shown>> BY <1>3 DEF Menu!BbTakes
  <2> PICK t \in Threads : t = w.thread BY <2>1
  <2> QED BY <2>2, <2>4, <2>5, SettingMInv, StaysShown
<1>4. ASSUME NEW w \in writes, Menu!BbRefuses(w) PROVE MInv' /\ Menu!NeverShowsAnOlder BY <1>4, RefusedMInv, StaysShown DEF Menu!BbRefuses
<1>5. ASSUME NEW w \in writes, Menu!Chosen(w) PROVE MInv' /\ Menu!NeverShowsAnOlder BY <1>5, ChosenMInv
<1>6. ASSUME NEW t \in Threads, Menu!Choose(t) PROVE MInv' /\ Menu!NeverShowsAnOlder BY <1>6, ChooseMInv, StaysShown DEF Menu!Choose
<1>7. ASSUME NEW t \in Threads, Menu!ChangedElsewhere(t) PROVE MInv' /\ Menu!NeverShowsAnOlder
  <2>1. /\ setting' = [setting EXCEPT ![t] = @ + 1]
        /\ writes' = writes /\ UNCHANGED <<values, versions, reads, stretch, shown>>
    BY <1>7 DEF Menu!ChangedElsewhere
  <2> QED BY <2>1, SettingMInv, StaysShown
<1> QED BY <1>1, <1>2, <1>3, <1>4, <1>5, <1>6, <1>7 DEF Menu!NotifyNext

LEMMA NextMInv == ASSUME MInv, [Menu!MenuNext]_(Menu!menuVars) PROVE MInv' /\ [Menu!NeverShowsAnOlder]_(Menu!menuVars)
<1>1. shown \subseteq Threads BY DEF MInv, MenuTypes
<1>2. CASE Menu!Mount
  <2> PICK threads : threads = Menu!Notifiable(shown, facts) OBVIOUS
  <2> PICK before : before = requested OBVIOUS
  <2>1. threads \in SUBSET Threads BY <1>1 DEF Menu!Notifiable
  <2>2. Menu!Request(threads, before) /\ UNCHANGED <<values, writes, setting, stretch, shown>> BY <1>2 DEF Menu!Mount
  <2> QED BY <1>1, <2>1, <2>2, RequestMInv, StaysShown
<1>3. CASE Menu!Unmount BY <1>3, UnmountMInv
<1>4. CASE Menu!Draw
  <2>1. shown' \subseteq Threads /\ UNCHANGED <<values, writes, setting, stretch>> BY <1>4 DEF Menu!Draw
  <2>2. CASE mounted > 0
    <3> PICK threads : threads = Menu!Notifiable(shown', facts') OBVIOUS
    <3> PICK before : before = requested OBVIOUS
    <3>1. threads \in SUBSET Threads BY <2>1 DEF Menu!Notifiable
    <3>2. Menu!Request(threads, before) BY <1>4, <2>2 DEF Menu!Draw
    <3> QED BY <2>1, <3>1, <3>2, RequestMInv, StaysShown
  <2>3. CASE ~(mounted > 0)
    <3>1. UNCHANGED <<versions, reads>> BY <1>4, <2>3 DEF Menu!Draw
    <3> QED BY <2>1, <3>1, AsideMInv, StaysShown
  <2> QED BY <2>2, <2>3
<1>5. CASE Menu!NotifyNext BY <1>5, NotifyMInv
<1>6. ASSUME UNCHANGED <<values, versions, reads, writes, setting, stretch, shown>> PROVE MInv' /\ Menu!NeverShowsAnOlder
  BY <1>1, <1>6, AsideMInv, StaysShown
<1>7. CASE Menu!ListAgain \/ \E c \in looking : Menu!MachinesListed(c) BY <1>6, <1>7 DEF Menu!ListAgain, Menu!MachinesListed, Menu!notifyVars
<1>8. CASE Menu!Tick \/ Menu!MinutePasses \/ Menu!SetPicker \/ Menu!PickerClock \/ Menu!SubmitPicker \/ Menu!ClosePicker
  BY <1>6, <1>8 DEF Menu!Tick, Menu!MinutePasses, Menu!SetPicker, Menu!PickerClock, Menu!SubmitPicker, Menu!ClosePicker, Menu!notifyVars
<1>9. CASE \E t \in Threads : Menu!PickPreset(t) \/ Menu!OpenPicker(t) BY <1>6, <1>9 DEF Menu!PickPreset, Menu!OpenPicker, Menu!notifyVars
<1>10. CASE UNCHANGED Menu!menuVars BY <1>6, <1>10 DEF Menu!menuVars, Menu!notifyVars
<1> QED BY <1>2, <1>3, <1>4, <1>5, <1>7, <1>8, <1>9, <1>10 DEF Menu!MenuNext, Menu!SnoozeNext

\* Whatever order the answers of reads and writes come in, across unmounts too, the menu never shows
\* a thread's "Notify parent" as it was before what it shows (notify-state.ts, versions and epoch).
THEOREM ShowsNoOlder == Menu!MenuSpec => [][Menu!NeverShowsAnOlder]_(Menu!menuVars)
<1>1. Menu!MenuInit => MInv BY InitMInv
<1>2. MInv /\ [Menu!MenuNext]_(Menu!menuVars) => MInv' BY NextMInv
<1>3. MInv /\ [Menu!MenuNext]_(Menu!menuVars) => [Menu!NeverShowsAnOlder]_(Menu!menuVars) BY NextMInv
<1> QED BY <1>1, <1>2, <1>3, PTL DEF Menu!MenuSpec

-----------------------------------------------------------------------------
(***************************************************************************)
(* PortWatch: what a refresh is answered with.  It is an instance too.     *)
(***************************************************************************)
CONSTANTS Envs, NoEnv, NoPath, NoPlace, Above, EnvPlace, MaxWorkspaces,
          EnvOf, Listed, Windows, Callers, SnapshotTtl, FreshTtl, EnvironmentTtl,
          BackoffFirst, BackoffMax, MaxServed, MaxCalls

VARIABLES now, listed, procs, view, readAt, cycle, backoffs, cached, waits, begun, asked, served, watchFaults, since

Watch == INSTANCE PortWatch WITH Place <- EnvPlace, calls <- waits, faults <- watchFaults

\* The last cycle that ended is the last begun, or that one's successor is in flight; and a refresh
\* waits for a cycle begun since it was asked for, or for the one in flight then.
Counted ==
  /\ begun \in Nat /\ view.number \in Nat /\ "number" \in DOMAIN view /\ "step" \in DOMAIN cycle
  /\ IF Watch!InFlight THEN view.number < begun ELSE view.number = begun
Promised(call, last) ==
  /\ call.step = "first" => call.after <= last
  /\ call.kind = "refresh" /\ call.step = "cycle" => call.after < last
Call == [kind : {"none", "fresh", "normal", "refresh"}, step : {"none", "cycle", "first"}, after : Nat]
WInv ==
  /\ Counted
  /\ waits \in [Callers -> Call]
  /\ \A c \in Callers : Promised(waits[c], begun)

LEMMA InitWInv == ASSUME Watch!WatchInit PROVE WInv
BY DEF Watch!WatchInit, WInv, Counted, Promised, Call, Watch!NoCall, Watch!InFlight, Watch!NoCycle

\* Steps of a cycle that leave it in flight, and of the world.
LEMMA AsideWInv ==
  ASSUME WInv, UNCHANGED <<waits, begun, view>>, Watch!InFlight' <=> Watch!InFlight, "step" \in DOMAIN cycle'
  PROVE  WInv'
BY DEF WInv, Counted, Promised

LEMMA EndWInv ==
  ASSUME WInv, Watch!InFlight, UNCHANGED <<waits, begun>>, NEW next, "number" \in DOMAIN next, Watch!End(next)
  PROVE  WInv'
<1>1. view'.number = begun /\ "number" \in DOMAIN view' BY DEF Watch!End
<1>2. ~Watch!InFlight' /\ "step" \in DOMAIN cycle' BY DEF Watch!End, Watch!InFlight, Watch!NoCycle
<1> QED BY <1>1, <1>2 DEF WInv, Counted, Promised

\* What a cycle in flight says of itself.
LEMMA GoesOnWInv ==
  ASSUME WInv, Watch!InFlight, UNCHANGED <<waits, begun, view>>, "step" \in DOMAIN cycle', cycle'.step # "none"
  PROVE  WInv'
<1>1. Watch!InFlight' BY DEF Watch!InFlight, Watch!NoCycle
<1> QED BY <1>1, AsideWInv

LEMMA FailWInv == ASSUME WInv, Watch!InFlight, UNCHANGED <<waits, begun>>, Watch!BbFails PROVE WInv'
<1> PICK next : next = [view EXCEPT !.hosts = [h \in Watch!Hosts |-> "none"], !.complete = FALSE, !.located = view.located,
                                    !.unresolved = {}]
  OBVIOUS
<1>1. Watch!End(next) BY DEF Watch!BbFails, Watch!KeepLast
<1>2. "number" \in DOMAIN next BY DEF WInv, Counted
<1> QED BY <1>1, <1>2, EndWInv

\* Beginning a cycle, or joining the one in flight.
LEMMA StartIs ==
  ASSUME WInv, Watch!Start
  PROVE  /\ Watch!InFlight' /\ begun' \in Nat /\ begun <= begun' /\ "step" \in DOMAIN cycle' /\ view.number < begun'
         /\ Watch!InFlight => begun' = begun
         /\ ~Watch!InFlight => begun' = begun + 1
BY DEF Watch!Start, WInv, Counted, Watch!InFlight, Watch!NoCycle

\* No call is dropped by a step that changes none, nor made one of no kind.
LEMMA CallsKept == ASSUME WInv, waits' = waits PROVE Watch!RefreshIsNew
BY DEF Watch!RefreshIsNew, Watch!NoCall

LEMMA CallsWInv ==
  ASSUME WInv, Counted', begun <= begun', NEW c \in Callers, NEW call \in Call, Promised(call, begun'),
         waits' = [waits EXCEPT ![c] = call]
  PROVE  WInv'
<1>1. waits' \in [Callers -> Call] BY DEF WInv
<1>2. begun \in Nat /\ begun' \in Nat BY DEF WInv, Counted
<1>3. ASSUME NEW d \in Callers PROVE Promised(waits'[d], begun')
  <2>1. CASE d = c BY <2>1 DEF WInv
  <2>2. CASE d # c
    <3>1. waits'[d] = waits[d] /\ waits[d].after \in Nat /\ Promised(waits[d], begun) BY <2>2 DEF WInv, Call
    <3> QED BY <3>1, <1>2 DEF Promised
  <2> QED BY <2>1, <2>2
<1> QED BY <1>1, <1>3 DEF WInv

LEMMA AskWInv ==
  ASSUME WInv, NEW c \in Callers, NEW kind \in {"fresh", "normal", "refresh"}, Watch!Ask(c, kind), view' = view,
         IF kind = "refresh" /\ Watch!InFlight THEN UNCHANGED <<cycle, begun>> ELSE Watch!Start
  PROVE  WInv' /\ Watch!RefreshIsNew
<1> PICK call : call = [kind |-> kind, after |-> begun, step |-> IF kind = "refresh" /\ Watch!InFlight THEN "first" ELSE "cycle"]
  OBVIOUS
<1>1. waits' = [waits EXCEPT ![c] = call] /\ waits[c] = Watch!NoCall BY DEF Watch!Ask
<1>2. call \in Call /\ call.kind = kind /\ call.after = begun
      /\ call.step = IF kind = "refresh" /\ Watch!InFlight THEN "first" ELSE "cycle"
  BY DEF Call, WInv, Counted
<1>3. Counted' /\ begun <= begun' BY StartIs DEF WInv, Counted, Watch!InFlight
<1>4. Promised(call, begun') BY <1>2, <1>3, StartIs DEF Promised, WInv, Counted
<1>5. WInv' BY <1>1, <1>2, <1>3, <1>4, CallsWInv
<1>6. ASSUME NEW d \in Callers, waits[d].kind = "refresh", waits'[d] = Watch!NoCall PROVE FALSE
  BY <1>1, <1>6 DEF WInv, Watch!NoCall
<1> QED BY <1>5, <1>6 DEF Watch!RefreshIsNew

LEMMA GoesOnRefresh == ASSUME WInv, NEW c \in Callers, Watch!RefreshGoesOn(c) PROVE WInv' /\ Watch!RefreshIsNew
<1> PICK call : call = [waits[c] EXCEPT !.step = "cycle"] OBVIOUS
<1>1. waits' = [waits EXCEPT ![c] = call] BY DEF Watch!RefreshGoesOn
<1>2. call \in Call /\ call.after = waits[c].after /\ call.after \in Nat /\ call.step = "cycle" BY DEF WInv, Call
<1>3. waits[c].after <= view.number /\ view' = view /\ Watch!Start BY <1>2 DEF Watch!RefreshGoesOn, WInv, Counted
<1>4. Counted' /\ begun <= begun' /\ view.number < begun' BY <1>3, StartIs DEF WInv, Counted
<1>5. Promised(call, begun') BY <1>2, <1>3, <1>4 DEF Promised, WInv, Counted
<1>6. WInv' BY <1>1, <1>2, <1>4, <1>5, CallsWInv
<1>7. ASSUME NEW d \in Callers, waits[d].kind = "refresh", waits'[d] = Watch!NoCall PROVE FALSE
  BY <1>1, <1>2, <1>7 DEF WInv, Watch!NoCall
<1> QED BY <1>6, <1>7 DEF Watch!RefreshIsNew

\* The cycle that ended last was begun since the refresh was asked for.
LEMMA AnswerWInv == ASSUME WInv, NEW c \in Callers, Watch!Answer(c) PROVE WInv' /\ Watch!RefreshIsNew
<1>1. waits' = [waits EXCEPT ![c] = Watch!NoCall] /\ UNCHANGED <<view, cycle, begun>> BY DEF Watch!Answer
<1>2. Watch!NoCall \in Call /\ Promised(Watch!NoCall, begun') BY DEF Watch!NoCall, Call, Promised
<1>3. Counted' /\ begun <= begun' BY <1>1 DEF WInv, Counted, Watch!InFlight
<1>4. WInv' BY <1>1, <1>2, <1>3, CallsWInv
<1>5. Promised(waits[c], begun) /\ waits[c].after \in Nat BY DEF WInv, Call
<1>6. waits[c].kind = "refresh" => view.number > waits[c].after BY <1>5 DEF Watch!Answer, Promised, WInv, Counted
<1>7. ASSUME NEW d \in Callers, d # c, waits[d].kind = "refresh", waits'[d] = Watch!NoCall PROVE FALSE
  BY <1>1, <1>7 DEF WInv, Watch!NoCall
<1> QED BY <1>4, <1>6, <1>7 DEF Watch!RefreshIsNew

LEMMA NextWInv == ASSUME WInv, [Watch!WatchNext]_(Watch!watchVars) PROVE WInv' /\ [Watch!RefreshIsNew]_(Watch!watchVars)
<1>1. ASSUME UNCHANGED <<waits, begun, view, cycle>> PROVE WInv' /\ Watch!RefreshIsNew
  BY <1>1, CallsKept, AsideWInv DEF Watch!InFlight, WInv, Counted
<1>2. CASE Watch!ReadThreads
  <2>1. Watch!InFlight /\ UNCHANGED <<waits, begun>> BY <1>2 DEF Watch!ReadThreads, Watch!InFlight, Watch!NoCycle
  <2>2. CASE cycle' = [step |-> "places", at |-> cycle.at, threads |-> listed] /\ UNCHANGED view
    <3>1. "step" \in DOMAIN cycle' /\ cycle'.step # "none" BY <2>2
    <3> QED BY <2>1, <2>2, <3>1, GoesOnWInv, CallsKept
  <2>3. CASE Watch!BbFails BY <2>1, <2>3, FailWInv, CallsKept
  <2> QED BY <1>2, <2>2, <2>3 DEF Watch!ReadThreads
<1>3. CASE Watch!Resolve
  <2>1. Watch!InFlight /\ UNCHANGED <<waits, begun>> BY <1>3 DEF Watch!Resolve, Watch!InFlight, Watch!NoCycle
  <2>2. CASE Watch!BbFails BY <2>1, <2>2, FailWInv, CallsKept
  <2>3. CASE UNCHANGED view /\ "step" \in DOMAIN cycle' /\ cycle'.step # "none"
    BY <2>1, <2>3, GoesOnWInv, CallsKept
  <2>4. Watch!BbFails \/ (UNCHANGED view /\ "step" \in DOMAIN cycle' /\ cycle'.step # "none")
    BY <1>3 DEF Watch!Resolve
  <2> QED BY <2>2, <2>3, <2>4
<1>4. CASE \E h \in Watch!Hosts : Watch!ScanHost(h)
  <2> PICK h \in Watch!Hosts : Watch!ScanHost(h) BY <1>4
  <2>1. Watch!InFlight /\ UNCHANGED <<waits, begun, view>>
    <3>1. cycle.step = "hosts" /\ UNCHANGED <<waits, begun, view>> BY DEF Watch!ScanHost
    <3> QED BY <3>1 DEF Watch!InFlight, Watch!NoCycle
  <2>2. "step" \in DOMAIN cycle' /\ cycle'.step # "none" BY DEF Watch!ScanHost, WInv, Counted
  <2> QED BY <2>1, <2>2, GoesOnWInv, CallsKept
<1>5. CASE Watch!EndCycle
  <2>1. Watch!InFlight /\ UNCHANGED <<waits, begun>> BY <1>5 DEF Watch!EndCycle, Watch!InFlight, Watch!NoCycle
  <2>2. ASSUME NEW next, "number" \in DOMAIN next, Watch!End(next) PROVE WInv' /\ Watch!RefreshIsNew
    BY <2>1, <2>2, EndWInv, CallsKept
  <2>3. \E next : "number" \in DOMAIN next /\ Watch!End(next) BY <1>5 DEF Watch!EndCycle, Watch!KeepLast, WInv, Counted
  <2> QED BY <2>2, <2>3
<1>6. ASSUME NEW c \in Callers, NEW kind \in {"fresh", "normal"}, Watch!Read(c, kind) PROVE WInv' /\ Watch!RefreshIsNew
  BY <1>6, AskWInv DEF Watch!Read
<1>7. ASSUME NEW c \in Callers, Watch!Refresh(c) PROVE WInv' /\ Watch!RefreshIsNew BY <1>7, AskWInv DEF Watch!Refresh
<1>8. ASSUME NEW c \in Callers, Watch!RefreshGoesOn(c) PROVE WInv' /\ Watch!RefreshIsNew BY <1>8, GoesOnRefresh
<1>9. ASSUME NEW c \in Callers, Watch!Answer(c) PROVE WInv' /\ Watch!RefreshIsNew BY <1>9, AnswerWInv
<1>10. CASE Watch!Tick \/ (\E t \in Threads : Watch!Serve(t) \/ Watch!Appear(t)) \/ \E h \in Watch!Hosts : Watch!Exit(h)
  BY <1>1, <1>10 DEF Watch!Tick, Watch!Serve, Watch!Appear, Watch!Exit, Watch!engine
<1>11. CASE UNCHANGED Watch!watchVars BY <1>1, <1>11 DEF Watch!watchVars
<1> QED BY <1>2, <1>3, <1>4, <1>5, <1>6, <1>7, <1>8, <1>9, <1>10, <1>11 DEF Watch!WatchNext

\* Whoever asks for a refresh is answered with a cycle that began after they asked, whatever joins,
\* fails or backs off meanwhile (server/ports/engine.ts, refresh and start).
THEOREM RefreshesAreNew == Watch!WatchSpec => [][Watch!RefreshIsNew]_(Watch!watchVars)
<1>1. Watch!WatchInit => WInv BY InitWInv
<1>2. WInv /\ [Watch!WatchNext]_(Watch!watchVars) => WInv' /\ [Watch!RefreshIsNew]_(Watch!watchVars) BY NextWInv
<1> QED BY <1>1, <1>2, PTL DEF Watch!WatchSpec

-----------------------------------------------------------------------------
(***************************************************************************)
(* ThreadMenu: while no machine is known, a listing is on its way or due.  *)
(***************************************************************************)
ListingToCome == again \/ \E c \in looking : c.epoch = stretch
LookedFor ==
  /\ mounted \in Nat
  /\ machines \in {"loading", "failed", "none", "some"}
  /\ mounted > 0 /\ machines # "some" => ListingToCome

LEMMA OthersLeaveTheListing ==
  ASSUME LookedFor, UNCHANGED <<Menu!machineVars, mounted, stretch>>
  PROVE  LookedFor'
BY DEF LookedFor, ListingToCome, Menu!machineVars

LEMMA MountLooks ==
  ASSUME LookedFor, Menu!Mount
  PROVE  LookedFor'
<1>1. mounted' \in Nat /\ machines' = machines /\ again' = again /\ stretch' = stretch
  BY DEF LookedFor, Menu!Mount
<1>2. CASE mounted = 0
  <2>1. [epoch |-> stretch] \in looking'
    BY <1>2 DEF Menu!Mount
  <2>2. \E c \in looking' : c.epoch = stretch'
    BY <2>1, <1>1
  <2>. QED  BY <1>1, <2>2 DEF LookedFor, ListingToCome
<1>3. CASE mounted # 0
  BY <1>1, <1>3 DEF Menu!Mount, LookedFor, ListingToCome
<1>. QED  BY <1>2, <1>3

LEMMA UnmountLooks ==
  ASSUME LookedFor, Menu!Unmount
  PROVE  LookedFor'
BY DEF Menu!Unmount, LookedFor, ListingToCome

\* A listing of this stretch of use that knows no machine is due again; one of another is not what is waited for.
LEMMA ListedLooks ==
  ASSUME LookedFor, NEW c \in looking, Menu!MachinesListed(c)
  PROVE  LookedFor'
<1>1. mounted' = mounted /\ stretch' = stretch /\ looking' = looking \ {c}
  BY DEF Menu!MachinesListed
<1>2. CASE c.epoch = stretch
  BY <1>1, <1>2 DEF Menu!MachinesListed, Menu!Retries, LookedFor, ListingToCome
<1>3. CASE c.epoch # stretch
  BY <1>1, <1>3 DEF Menu!MachinesListed, LookedFor, ListingToCome
<1>. QED  BY <1>2, <1>3

LEMMA ListAgainLooks ==
  ASSUME LookedFor, Menu!ListAgain
  PROVE  LookedFor'
<1>1. [epoch |-> stretch] \in looking' /\ mounted' = mounted /\ machines' = machines /\ stretch' = stretch
  BY DEF Menu!ListAgain
<1>2. \E c \in looking' : c.epoch = stretch'
  BY <1>1
<1>. QED  BY <1>1, <1>2 DEF LookedFor, ListingToCome

\* While menus are mounted and no machine is known, the machines are being listed or will be
\* (thread-actions/window-state.ts).
THEOREM KeepsLookingForMachines == Menu!MenuSpec => []Menu!KeepsLooking
<1>1. Menu!MenuInit => LookedFor
  BY DEF Menu!MenuInit, LookedFor
<1>2. LookedFor /\ [Menu!MenuNext]_(Menu!menuVars) => LookedFor'
  <2>. SUFFICES ASSUME LookedFor, [Menu!MenuNext]_(Menu!menuVars)  PROVE LookedFor'
    OBVIOUS
  <2>1. CASE UNCHANGED Menu!menuVars
    BY <2>1, OthersLeaveTheListing DEF Menu!menuVars
  <2>2. CASE Menu!Mount
    BY <2>2, MountLooks
  <2>3. CASE Menu!Unmount
    BY <2>3, UnmountLooks
  <2>4. CASE Menu!Draw
    BY <2>4, OthersLeaveTheListing DEF Menu!Draw
  <2>5. CASE Menu!ListAgain
    BY <2>5, ListAgainLooks
  <2>6. CASE \E c \in looking : Menu!MachinesListed(c)
    BY <2>6, ListedLooks
  <2>7. CASE Menu!NotifyNext
    <3>1. UNCHANGED <<Menu!machineVars, mounted, stretch>>
      BY <2>7 DEF Menu!NotifyNext, Menu!ReadsAnswered, Menu!BbReads, Menu!BbTakes, Menu!BbRefuses, Menu!Chosen, Menu!Choose, Menu!ChangedElsewhere
    <3>. QED  BY <3>1, OthersLeaveTheListing
  <2>8. CASE Menu!SnoozeNext
    <3>1. UNCHANGED <<Menu!machineVars, mounted, stretch>>
      BY <2>8 DEF Menu!SnoozeNext, Menu!Tick, Menu!MinutePasses, Menu!SetPicker, Menu!PickerClock, Menu!SubmitPicker, Menu!ClosePicker, Menu!PickPreset, Menu!OpenPicker
    <3>. QED  BY <3>1, OthersLeaveTheListing
  <2>. QED  BY <2>1, <2>2, <2>3, <2>4, <2>5, <2>6, <2>7, <2>8 DEF Menu!MenuNext
<1>3. LookedFor => Menu!KeepsLooking
  BY DEF LookedFor, ListingToCome, Menu!KeepsLooking, Menu!AddPath
<1>. QED  BY <1>1, <1>2, <1>3, PTL DEF Menu!MenuSpec
-----------------------------------------------------------------------------
(***************************************************************************)
(* PortWatch: who serves a port is held back.                              *)
(***************************************************************************)
PathsOn(h) == {EnvPlace[e].path : e \in {f \in Envs : EnvPlace[f] # NoPlace /\ EnvPlace[f].host = h}}
\* The paths a cycle asks a machine about.
PathsFor(located, h) == {EnvPlace[e].path : e \in {f \in located : EnvPlace[f].host = h}}
\* The longest workspace a workspace is inside is itself, and one scan asks about all of a machine's.
ScansReachAll ==
  /\ \A e \in Envs : EnvPlace[e] # NoPlace =>
       /\ IsFiniteSet(PathsOn(EnvPlace[e].host)) /\ Cardinality(PathsOn(EnvPlace[e].host)) <= MaxWorkspaces
       /\ EnvPlace[e].path # NoPath
       /\ \A paths \in SUBSET PathsOn(EnvPlace[e].host) : EnvPlace[e].path \in paths => Watch!MatchWorkspace(EnvPlace[e].path, paths) = EnvPlace[e].path
  /\ EnvOf \in [Threads -> Envs \cup {NoEnv}] /\ Listed \subseteq Threads

\* The thread's process serves in its place since before the read.
ServesIn(p, t, e) == p.cwd = EnvPlace[e].path /\ p.names = {t} /\ p.startedAt < readAt
\* A process is one that Serve starts.
Started(p) == p.startedAt \in Int /\ p.startedAt <= now /\ p.ports = {1} /\ ~p.own
MachinesStand ==
  /\ now \in Int /\ readAt \in Int /\ readAt <= now
  /\ listed \subseteq Threads /\ since \in [Threads -> Int] /\ \A t \in Threads : since[t] <= now
  /\ DOMAIN procs = Watch!Hosts
  /\ \A h \in Watch!Hosts : \A p \in procs[h] : Started(p) /\ h \notin Windows

\* Those listed before the read are in the cycle.
ReadsAll(threads) == threads \subseteq Threads /\ \A t \in listed : since[t] < readAt => t \in threads
\* The place of each of their environments is known, or not resolved.
Places(threads, located, unresolved) ==
  /\ located \subseteq {e \in Envs : EnvPlace[e] # NoPlace}
  /\ \A t \in threads : EnvOf[t] # NoEnv => EnvOf[t] \in unresolved \/ EnvPlace[EnvOf[t]] = NoPlace \/ EnvOf[t] \in located
\* A machine's answer names who serves in a place asked about.
NamesOwners(reply, h, located) ==
  \A e \in located : EnvPlace[e].host = h =>
    \A p \in procs[h] : \A t \in Threads : ServesIn(p, t, e) => \E l \in reply : l.owner = t /\ l.path = EnvPlace[e].path
Answers(status, replies, located) ==
  \A h \in Watch!Hosts :
    /\ status[h] = "unsupported" => h \in Windows
    /\ status[h] = "ok" => NamesOwners(replies[h], h, located)
ViewFields == {"number", "at", "environments", "located", "unresolved", "hosts", "complete"}
CycleFields == {"step", "at", "threads", "located", "unresolved", "replies", "status"}
CycleHolds ==
  /\ cycle.step \in {"none", "threads", "places", "hosts"}
  /\ cycle.step = "none" <=> cycle = Watch!NoCycle
  /\ cycle.step \in {"places", "hosts"} => ReadsAll(cycle.threads)
  /\ cycle.step = "hosts" => /\ DOMAIN cycle = CycleFields /\ DOMAIN cycle.replies = Watch!Hosts
                             /\ Places(cycle.threads, cycle.located, cycle.unresolved)
                             /\ cycle.status \in [Watch!Hosts -> {"none", "ok", "unsupported", "failed"}]
                             /\ Answers(cycle.status, cycle.replies, cycle.located)
\* Between cycles, who served since before the read is listed as an owner, or its machine is not known.
ViewHolds ==
  ~Watch!InFlight => \A t \in listed : Watch!Serves(t) /\ since[t] < readAt =>
                 ~Watch!Scannable(view, EnvOf[t]) \/ \E l \in view.environments[EnvOf[t]] : l.owner = t
ServeInv == MachinesStand /\ CycleHolds /\ DOMAIN view = ViewFields /\ ViewHolds

LEMMA WatchCounts ==
  ASSUME NEW S  PROVE Watch!Cardinality(S) = Cardinality(S)
BY DEF Watch!Cardinality, Cardinality

LEMMA ListsOwner ==
  ASSUME NEW all, NEW paths, NEW p \in all, p.ports = {1}, ~p.own, Watch!MatchWorkspace(p.cwd, paths) # NoPath,
         NEW t \in Threads, p.names = {t}
  PROVE  \E l \in Watch!ScanListeners(all, all, {}, paths) : l.owner = t /\ l.path = Watch!MatchWorkspace(p.cwd, paths)
<1>. DEFINE s == [proc |-> p, port |-> 1]
            l == [port |-> 1, pid |-> p.pid, startedAt |-> p.startedAt, path |-> Watch!MatchWorkspace(p.cwd, paths),
                  owner |-> Watch!OwnerOf(p)]
<1>1. s \in Watch!Sockets(all, paths)
  BY DEF Watch!Sockets
<1>2. Watch!OwnerOf(p) = t
  BY FS_Singleton, WatchCounts DEF Watch!OwnerOf
<1>3. l \in Watch!ScanListeners(all, all, {}, paths)
  <2>. DEFINE of(x) == {[port |-> x.port, pid |-> x.proc.pid, startedAt |-> q.startedAt,
                         path |-> Watch!MatchWorkspace(x.proc.cwd, paths), owner |-> Watch!OwnerOf(q)] :
                          q \in {r \in all : r.pid = x.proc.pid /\ ~r.own}}
  <2>1. p \in {r \in all : r.pid = s.proc.pid /\ ~r.own}
    OBVIOUS
  <2>2. l \in of(s)
    BY <2>1
  <2>3. l \in UNION {of(x) : x \in Watch!Sockets(all, paths)}
    BY <1>1, <2>2
  <2>. QED  BY <2>3 DEF Watch!ScanListeners
<1>. QED  BY <1>2, <1>3

LEMMA AsksAboutAll ==
  ASSUME Watch!RulesAssumption, ScansReachAll, NEW located \in SUBSET {e \in Envs : EnvPlace[e] # NoPlace},
         NEW h \in {EnvPlace[e].host : e \in located},
         NEW scanned \in SUBSET PathsFor(located, h),
         Cardinality(scanned) = Watch!Min({Cardinality(PathsFor(located, h)), MaxWorkspaces})
  PROVE  /\ scanned = PathsFor(located, h)
         /\ scanned \subseteq PathsOn(h)
<1>. DEFINE paths == PathsFor(located, h)
<1>1. paths \subseteq PathsOn(h)
  BY DEF PathsOn, PathsFor
<1>2. IsFiniteSet(PathsOn(h)) /\ Cardinality(PathsOn(h)) <= MaxWorkspaces
  BY DEF ScansReachAll
<1>3. /\ IsFiniteSet(paths) /\ Cardinality(paths) \in Nat /\ Cardinality(PathsOn(h)) \in Nat
      /\ Cardinality(paths) <= Cardinality(PathsOn(h))
  BY <1>1, <1>2, FS_Subset, FS_CardinalityType
<1>4. Watch!Min({Cardinality(paths), MaxWorkspaces}) = Cardinality(paths)
  <2>1. Cardinality(paths) <= MaxWorkspaces /\ MaxWorkspaces \in Nat
    BY <1>2, <1>3 DEF Watch!RulesAssumption
  <2>. QED  BY <2>1, <1>3 DEF Watch!Min
<1>5. scanned = paths
  BY <1>3, <1>4, FS_Subset
<1>. QED  BY <1>1, <1>5

\* A machine that answers names who serves in each place asked about.
LEMMA AnswerNames ==
  ASSUME Watch!RulesAssumption, ScansReachAll, NEW located \in SUBSET {e \in Envs : EnvPlace[e] # NoPlace},
         NEW h \in {EnvPlace[e].host : e \in located}, \A p \in procs[h] : Started(p),
         NEW scanned \in SUBSET PathsFor(located, h),
         Cardinality(scanned) = Watch!Min({Cardinality(PathsFor(located, h)), MaxWorkspaces})
  PROVE  NamesOwners(Watch!ScanListeners(procs[h], procs[h], {}, scanned), h, located)
<1>. SUFFICES ASSUME NEW e \in located, EnvPlace[e].host = h, NEW p \in procs[h], NEW t \in Threads, ServesIn(p, t, e)
     PROVE  \E l \in Watch!ScanListeners(procs[h], procs[h], {}, scanned) : l.owner = t /\ l.path = EnvPlace[e].path
  BY DEF NamesOwners
<1>1. EnvPlace[e].path \in scanned /\ scanned \subseteq PathsOn(h)
  <2>1. /\ scanned = PathsFor(located, h)
        /\ scanned \subseteq PathsOn(h)
    BY AsksAboutAll
  <2>2. EnvPlace[e].path \in PathsFor(located, h)
    BY DEF PathsFor
  <2>. QED  BY <2>1, <2>2
<1>2. Watch!MatchWorkspace(EnvPlace[e].path, scanned) = EnvPlace[e].path /\ EnvPlace[e].path # NoPath
  BY <1>1 DEF ScansReachAll
<1>3. p.ports = {1} /\ ~p.own /\ p.cwd = EnvPlace[e].path /\ p.names = {t}
  BY DEF Started, ServesIn
<1>4. Watch!MatchWorkspace(p.cwd, scanned) = EnvPlace[e].path
  BY <1>2, <1>3
<1>5. Watch!MatchWorkspace(p.cwd, scanned) # NoPath
  BY <1>2, <1>4
<1>6. PICK all : all = procs[h]
  OBVIOUS
<1>7. p \in all
  BY <1>6
<1>8. \E l \in Watch!ScanListeners(all, all, {}, scanned) : l.owner = t /\ l.path = Watch!MatchWorkspace(p.cwd, scanned)
  BY <1>3, <1>5, <1>7, ListsOwner
<1>. QED  BY <1>4, <1>6, <1>8

\* What runs or is listed only since the read is not what the cycle or the snapshot is about.
LEMMA LaterIsApart ==
  ASSUME ScansReachAll, ServeInv, UNCHANGED <<view, readAt, cycle>>, DOMAIN procs' = Watch!Hosts,
         \A h \in Watch!Hosts : \A p \in procs'[h] : p \in procs[h] \/ ~(p.startedAt < readAt),
         listed' \subseteq Threads,
         \A t \in listed' : since'[t] < readAt => t \in listed /\ since[t] < readAt
  PROVE  CycleHolds' /\ ViewHolds'
<1>1. ASSUME NEW h \in Watch!Hosts, NEW reply, NEW located, located \subseteq Envs, NamesOwners(reply, h, located)
      PROVE  NamesOwners(reply, h, located)'
  BY <1>1 DEF NamesOwners, ServesIn
<1>2. ASSUME cycle.step = "hosts"  PROVE Answers(cycle.status, cycle.replies, cycle.located)'
  <2>1. Answers(cycle.status, cycle.replies, cycle.located) /\ cycle.located \subseteq Envs
    BY <1>2 DEF ServeInv, CycleHolds, Places
  <2>2. ASSUME NEW h \in Watch!Hosts, cycle.status[h] = "ok"
        PROVE  NamesOwners(cycle.replies[h], h, cycle.located)'
    BY <1>1, <2>1, <2>2 DEF Answers
  <2>. QED  BY <2>1, <2>2 DEF Answers
<1>3. CycleHolds'
  BY <1>2 DEF ServeInv, CycleHolds, ReadsAll, Places
<1>4. ASSUME ~Watch!InFlight', NEW t \in listed', Watch!Serves(t)', since'[t] < readAt'
      PROVE  ~Watch!Scannable(view, EnvOf[t]) \/ \E l \in view.environments[EnvOf[t]] : l.owner = t
  <2>1. ~Watch!InFlight /\ t \in listed /\ since[t] < readAt
    BY <1>4 DEF Watch!InFlight
  <2>2. PICK p \in procs'[EnvPlace[EnvOf[t]].host] :
          p.cwd = EnvPlace[EnvOf[t]].path /\ p.names = {t} /\ p.startedAt < readAt
    BY <1>4 DEF Watch!Serves
  <2>3. EnvOf[t] # NoEnv /\ EnvPlace[EnvOf[t]] # NoPlace
    BY <1>4 DEF Watch!Serves
  <2>4. EnvOf[t] \in Envs /\ EnvPlace[EnvOf[t]].host \in Watch!Hosts
    BY <2>3 DEF Watch!Hosts, ScansReachAll, ServeInv, MachinesStand
  <2>. QED  BY <2>1, <2>2, <2>3, <2>4 DEF ServeInv, ViewHolds, Watch!Serves
<1>. QED  BY <1>3, <1>4 DEF ViewHolds, Watch!Scannable

LEMMA WorldSteps ==
  ASSUME ScansReachAll, ServeInv,
         Watch!Tick \/ (\E t \in Threads : Watch!Serve(t) \/ Watch!Appear(t)) \/ \E h \in Watch!Hosts : Watch!Exit(h)
  PROVE  ServeInv'
<1>1. CASE Watch!Tick
  <2>1. MachinesStand'
    BY <1>1 DEF Watch!Tick, Watch!engine, ServeInv, MachinesStand, Started
  <2>. QED  BY <1>1, <2>1, LaterIsApart DEF Watch!Tick, Watch!engine, ServeInv, MachinesStand
<1>2. CASE \E t \in Threads : Watch!Serve(t)
  <2>1. PICK t \in Threads : Watch!Serve(t)
    BY <1>2
  <2>2. PICK names : procs' = [procs EXCEPT ![EnvPlace[EnvOf[t]].host] = @ \cup
                   {[pid |-> served', startedAt |-> now, ports |-> {1}, cwd |-> EnvPlace[EnvOf[t]].path, names |-> names, own |-> FALSE]}]
    BY <2>1 DEF Watch!Serve
  <2>3. EnvPlace[EnvOf[t]].host \notin Windows /\ UNCHANGED <<now, listed, view, readAt, cycle, since>>
    BY <2>1 DEF Watch!Serve, Watch!engine
  <2>4. DOMAIN procs' = Watch!Hosts
    BY <2>2 DEF ServeInv, MachinesStand
  <2>5. ASSUME NEW h \in Watch!Hosts, NEW p \in procs'[h]
        PROVE  /\ p.startedAt \in Int /\ p.startedAt <= now /\ p.ports = {1} /\ ~p.own /\ h \notin Windows
               /\ p \in procs[h] \/ ~(p.startedAt < readAt)
    <3>1. CASE p \in procs[h]
      BY <3>1 DEF ServeInv, MachinesStand, Started
    <3>2. CASE p \notin procs[h]
      <4>1. h = EnvPlace[EnvOf[t]].host /\
            p = [pid |-> served', startedAt |-> now, ports |-> {1}, cwd |-> EnvPlace[EnvOf[t]].path, names |-> names, own |-> FALSE]
        BY <2>2, <2>5, <3>2 DEF ServeInv, MachinesStand
      <4>2. p.startedAt = now /\ p.ports = {1} /\ ~p.own
        BY <4>1
      <4>. QED  BY <2>3, <4>1, <4>2 DEF ServeInv, MachinesStand
    <3>. QED  BY <3>1, <3>2
  <2>6. MachinesStand'
    BY <2>3, <2>4, <2>5 DEF ServeInv, MachinesStand, Started
  <2>. QED  BY <2>3, <2>4, <2>5, <2>6, LaterIsApart DEF ServeInv, MachinesStand
<1>3. CASE \E t \in Threads : Watch!Appear(t)
  <2>1. PICK t \in Threads : Watch!Appear(t)
    BY <1>3
  <2>2. UNCHANGED <<now, procs, view, readAt, cycle>> /\ listed' = listed \cup {t} /\ since' = [since EXCEPT ![t] = now]
    BY <2>1 DEF Watch!Appear, Watch!engine
  <2>3. MachinesStand'
    BY <2>2 DEF ServeInv, MachinesStand, Started
  <2>4. ASSUME NEW u \in listed', since'[u] < readAt  PROVE u \in listed /\ since[u] < readAt
    BY <2>2, <2>4 DEF ServeInv, MachinesStand
  <2>. QED  BY <2>2, <2>3, <2>4, LaterIsApart DEF ServeInv, MachinesStand
<1>4. CASE \E h \in Watch!Hosts : Watch!Exit(h)
  <2>1. PICK h \in Watch!Hosts : Watch!Exit(h)
    BY <1>4
  <2>2. UNCHANGED <<now, listed, view, readAt, cycle, since>> /\ \E p \in procs[h] : procs' = [procs EXCEPT ![h] = @ \ {p}]
    BY <2>1 DEF Watch!Exit, Watch!engine
  <2>3. DOMAIN procs' = Watch!Hosts /\ \A g \in Watch!Hosts : procs'[g] \subseteq procs[g]
    BY <2>2 DEF ServeInv, MachinesStand
  <2>4. MachinesStand'
    BY <2>2, <2>3 DEF ServeInv, MachinesStand, Started
  <2>. QED  BY <2>2, <2>3, <2>4, LaterIsApart DEF ServeInv, MachinesStand
<1>. QED  BY <1>1, <1>2, <1>3, <1>4

\* The machines and what bb lists stay as they are through a step of the server's.
LEMMA SameMachines ==
  ASSUME ServeInv, UNCHANGED <<now, listed, procs, since>>, readAt' = readAt \/ readAt' = now
  PROVE  MachinesStand'
BY DEF ServeInv, MachinesStand, Started

\* A cycle that ends on a failure of bb leaves nothing known.
LEMMA FailureHolds ==
  ASSUME ServeInv, Watch!BbFails, UNCHANGED <<now, listed, procs, readAt, since>>
  PROVE  ServeInv'
<1>1. cycle' = Watch!NoCycle /\ view'.complete = FALSE /\ DOMAIN view' = ViewFields
  BY DEF Watch!BbFails, Watch!KeepLast, Watch!End, ServeInv, ViewFields
<1>2. CycleHolds'
  BY <1>1 DEF CycleHolds, Watch!NoCycle
<1>3. ViewHolds'
  BY <1>1 DEF ViewHolds, Watch!Scannable
<1>. QED  BY <1>1, <1>2, <1>3, SameMachines DEF ServeInv

LEMMA ReadHolds ==
  ASSUME ServeInv, Watch!ReadThreads
  PROVE  ServeInv'
<1>1. CASE Watch!BbFails
  BY <1>1, FailureHolds DEF Watch!ReadThreads
<1>2. CASE cycle' = [step |-> "places", at |-> cycle.at, threads |-> listed]
  <2>1. cycle'.step = "places" /\ cycle'.threads = listed /\ cycle' # Watch!NoCycle
    BY <1>2 DEF Watch!NoCycle
  <2>2. CycleHolds'
    BY <2>1 DEF CycleHolds, ReadsAll, Watch!ReadThreads, ServeInv, MachinesStand
  <2>3. ViewHolds'
    BY <2>1 DEF ViewHolds, Watch!InFlight, Watch!NoCycle
  <2>4. view' = view
    BY <2>1 DEF Watch!ReadThreads, Watch!BbFails, Watch!KeepLast, Watch!End
  <2>. QED  BY <2>2, <2>3, <2>4, SameMachines DEF ServeInv, Watch!ReadThreads
<1>. QED  BY <1>1, <1>2 DEF Watch!ReadThreads

LEMMA ResolveHolds ==
  ASSUME ScansReachAll, ServeInv, Watch!Resolve
  PROVE  ServeInv'
<1>1. CASE Watch!BbFails
  BY <1>1, FailureHolds DEF Watch!Resolve
<1>2. ASSUME NEW failed,
             cycle' = [step |-> "hosts", at |-> cycle.at, threads |-> cycle.threads,
                       located |-> {e \in ({EnvOf[t] : t \in cycle.threads} \ {NoEnv}) \ failed : EnvPlace[e] # NoPlace},
                       unresolved |-> failed, replies |-> [h \in Watch!Hosts |-> {}], status |-> [h \in Watch!Hosts |-> "none"]],
             view' = view
      PROVE  ServeInv'
  <2>1. PICK next : next = cycle'
    OBVIOUS
  <2>2. /\ next.step = "hosts" /\ next.threads = cycle.threads /\ next # Watch!NoCycle
        /\ next.located = {e \in ({EnvOf[t] : t \in cycle.threads} \ {NoEnv}) \ failed : EnvPlace[e] # NoPlace}
        /\ next.unresolved = failed /\ next.status = [h \in Watch!Hosts |-> "none"]
    BY <1>2, <2>1 DEF Watch!NoCycle
  <2>9. DOMAIN next = CycleFields /\ DOMAIN next.replies = Watch!Hosts
    BY <1>2, <2>1 DEF CycleFields
  <2>3. ReadsAll(cycle.threads)
    BY DEF Watch!Resolve, ServeInv, CycleHolds
  <2>4. ReadsAll(next.threads)'
    BY <2>2, <2>3 DEF ReadsAll, Watch!Resolve
  <2>5. Places(next.threads, next.located, next.unresolved)
    BY <2>2, <2>3 DEF Places, ReadsAll, ScansReachAll
  <2>6. Answers(next.status, next.replies, next.located)'
    BY <2>2 DEF Answers
  <2>7. CycleHolds'
    BY <2>1, <2>2, <2>4, <2>5, <2>6, <2>9 DEF CycleHolds
  <2>8. ViewHolds'
    BY <2>1, <2>2 DEF ViewHolds, Watch!InFlight, Watch!NoCycle
  <2>. QED  BY <1>2, <2>7, <2>8, SameMachines DEF ServeInv, Watch!Resolve
<1>. QED  BY <1>1, <1>2 DEF Watch!Resolve

LEMMA ScanHolds ==
  ASSUME Watch!RulesAssumption, ScansReachAll, ServeInv, NEW h \in Watch!Hosts, Watch!ScanHost(h)
  PROVE  ServeInv'
<1>1. /\ UNCHANGED <<now, listed, procs, view, readAt, since>> /\ cycle.step = "hosts" /\ h \in Watch!Asked
      /\ DOMAIN cycle = CycleFields /\ DOMAIN cycle.replies = Watch!Hosts /\ ReadsAll(cycle.threads) /\ Places(cycle.threads, cycle.located, cycle.unresolved)
      /\ cycle.status \in [Watch!Hosts -> {"none", "ok", "unsupported", "failed"}]
      /\ Answers(cycle.status, cycle.replies, cycle.located)
  BY DEF Watch!ScanHost, ServeInv, CycleHolds
<1>2. ASSUME NEW status \in {"ok", "unsupported", "failed"}, NEW replies, DOMAIN replies = Watch!Hosts,
             cycle' = [[cycle EXCEPT !.status[h] = status] EXCEPT !.replies = replies],
             status = "unsupported" => h \in Windows,
             \A g \in Watch!Hosts \ {h} : replies[g] = cycle.replies[g],
             status = "ok" => NamesOwners(replies[h], h, cycle.located)
      PROVE  ServeInv'
  <2>1. PICK next : next = cycle'
    OBVIOUS
  <2>2. /\ next.step = "hosts" /\ next.threads = cycle.threads /\ next.located = cycle.located
        /\ next.unresolved = cycle.unresolved /\ next.status = [cycle.status EXCEPT ![h] = status]
    BY <1>1, <1>2, <2>1 DEF CycleFields
  <2>3. next # Watch!NoCycle
    BY <2>2 DEF Watch!NoCycle
  <2>4. \A g \in Watch!Hosts : next.status[g] = "ok" => NamesOwners(replies[g], g, cycle.located)
    BY <1>1, <1>2, <2>2 DEF Answers
  <2>5. Answers(next.status, replies, next.located)
    BY <1>1, <1>2, <2>2, <2>4 DEF Answers
  <2>6. next.replies = replies /\ DOMAIN next = CycleFields
    BY <1>1, <1>2, <2>1 DEF CycleFields
  <2>7. ReadsAll(next.threads)' /\ Answers(next.status, replies, next.located)'
    BY <1>1, <2>2, <2>5 DEF ReadsAll, Answers, NamesOwners, ServesIn
  <2>8. CycleHolds'
    BY <1>1, <1>2, <2>1, <2>2, <2>3, <2>6, <2>7 DEF CycleHolds
  <2>9. ViewHolds'
    BY <2>1, <2>3 DEF ViewHolds, Watch!InFlight
  <2>. QED  BY <1>1, <2>8, <2>9, SameMachines DEF ServeInv
<1>3. CASE cycle' = [cycle EXCEPT !.status[h] = "failed"]
  <2>1. PICK replies : replies = cycle.replies
    OBVIOUS
  <2>2. cycle' = [[cycle EXCEPT !.status[h] = "failed"] EXCEPT !.replies = replies]
    BY <1>1, <1>3, <2>1 DEF CycleFields
  <2>. QED  BY <1>1, <1>2, <2>1, <2>2
<1>4. CASE cycle' = [cycle EXCEPT !.status[h] = "unsupported"] /\ h \in Windows
  <2>1. PICK replies : replies = cycle.replies
    OBVIOUS
  <2>2. cycle' = [[cycle EXCEPT !.status[h] = "unsupported"] EXCEPT !.replies = replies]
    BY <1>1, <1>4, <2>1 DEF CycleFields
  <2>. QED  BY <1>1, <1>2, <1>4, <2>1, <2>2
<1>5. ASSUME NEW scanned \in SUBSET PathsFor(cycle.located, h),
             Cardinality(scanned) = Watch!Min({Cardinality(PathsFor(cycle.located, h)), MaxWorkspaces}),
             cycle' = [cycle EXCEPT !.status[h] = "ok",
                                    !.replies[h] = Watch!ScanListeners(procs[h], procs[h], {}, scanned)]
      PROVE  ServeInv'
  <2>. DEFINE replies == [cycle.replies EXCEPT ![h] = Watch!ScanListeners(procs[h], procs[h], {}, scanned)]
  <2>1. PICK located : located = cycle.located
    OBVIOUS
  <2>2. /\ located \in SUBSET {e \in Envs : EnvPlace[e] # NoPlace} /\ h \in {EnvPlace[e].host : e \in located}
        /\ \A p \in procs[h] : Started(p)
    BY <1>1, <2>1 DEF Places, Watch!Asked, ServeInv, MachinesStand
  <2>3. NamesOwners(Watch!ScanListeners(procs[h], procs[h], {}, scanned), h, located)
    BY <1>5, <2>1, <2>2, AnswerNames
  <2>4. /\ DOMAIN replies = Watch!Hosts /\ replies[h] = Watch!ScanListeners(procs[h], procs[h], {}, scanned)
        /\ \A g \in Watch!Hosts \ {h} : replies[g] = cycle.replies[g]
    BY <1>1
  <2>5. cycle' = [[cycle EXCEPT !.status[h] = "ok"] EXCEPT !.replies = replies]
    BY <1>1, <1>5 DEF CycleFields
  <2>6. PICK given : given = replies
    OBVIOUS
  <2>. QED  BY <1>2, <2>1, <2>3, <2>4, <2>5, <2>6
<1>. QED  BY <1>3, <1>4, <1>5, WatchCounts DEF Watch!ScanHost, PathsFor

\* Whose machine answered, and serves since before the read, is listed as an owner.
LEMMA EndHolds ==
  ASSUME Watch!RulesAssumption, ServeInv, Watch!EndCycle
  PROVE  ServeInv'
<1>1. /\ UNCHANGED <<now, listed, procs, readAt, since>> /\ cycle.step = "hosts" /\ \A h \in Watch!Asked : cycle.status[h] # "none"
      /\ ReadsAll(cycle.threads) /\ Places(cycle.threads, cycle.located, cycle.unresolved)
      /\ cycle.status \in [Watch!Hosts -> {"none", "ok", "unsupported", "failed"}]
      /\ Answers(cycle.status, cycle.replies, cycle.located)
      /\ cycle' = Watch!NoCycle /\ DOMAIN cycle.replies = Watch!Hosts
  BY DEF Watch!EndCycle, ServeInv, CycleHolds, Watch!KeepLast, Watch!End
<1>2. CycleHolds'
  BY <1>1 DEF CycleHolds, Watch!NoCycle
<1>5. /\ view'.unresolved = cycle.unresolved /\ view'.located = cycle.located /\ view'.hosts = cycle.status
      /\ DOMAIN view' = ViewFields
  <2>1. CASE Watch!Asked # {} /\ \A h \in Watch!Asked : cycle.status[h] = "failed"
    BY <2>1 DEF Watch!EndCycle, Watch!KeepLast, Watch!End, ServeInv, ViewFields
  <2>2. CASE ~(Watch!Asked # {} /\ \A h \in Watch!Asked : cycle.status[h] = "failed")
    BY <2>2 DEF Watch!EndCycle, Watch!End, ViewFields
  <2>. QED  BY <2>1, <2>2
<1>3. ASSUME NEW t \in listed, Watch!Serves(t), since[t] < readAt
      PROVE  ~Watch!Scannable(view', EnvOf[t]) \/ \E l \in view'.environments[EnvOf[t]] : l.owner = t
  <2>. DEFINE e == EnvOf[t]
              h == EnvPlace[e].host
  <2>1. PICK p \in procs[h] : ServesIn(p, t, e)
    BY <1>3 DEF Watch!Serves, ServesIn
  <2>2. t \in cycle.threads /\ t \in Threads /\ e # NoEnv /\ EnvPlace[e] # NoPlace
    BY <1>1, <1>3 DEF ReadsAll, Watch!Serves
  <2>3. e \in cycle.unresolved \/ e \in cycle.located
    BY <1>1, <2>2 DEF Places
  <2>4. view'.unresolved = cycle.unresolved /\ view'.located = cycle.located /\ view'.hosts = cycle.status
    BY <1>5
  <2>5. CASE e \in cycle.unresolved
    BY <2>4, <2>5 DEF Watch!Scannable
  <2>6. CASE e \in cycle.located /\ e \notin cycle.unresolved
    <3>1. e \in Envs /\ h \in Watch!Hosts /\ h \in Watch!Asked
      BY <1>1, <2>6 DEF Places, Watch!Hosts, Watch!Asked
    <3>2. CASE cycle.status[h] = "failed"
      BY <2>4, <2>6, <3>2 DEF Watch!Scannable
    <3>3. CASE cycle.status[h] = "unsupported"
      BY <1>1, <2>1, <3>1, <3>3 DEF Answers, ServeInv, MachinesStand
    <3>4. CASE cycle.status[h] = "ok"
      <4>1. NamesOwners(cycle.replies[h], h, cycle.located)
        BY <1>1, <3>1, <3>4 DEF Answers
      <4>2. PICK l \in cycle.replies[h] : l.owner = t /\ l.path = EnvPlace[e].path
        BY <2>1, <2>2, <2>6, <4>1 DEF NamesOwners
      <4>3. view'.environments[e] = Watch!SnapshotEnvironments(cycle.located, cycle.replies, Watch!Known(cycle.threads))[e]
        <5>1. ~(Watch!Asked # {} /\ \A g \in Watch!Asked : cycle.status[g] = "failed")
          BY <3>1, <3>4
        <5>2. view' = [[number |-> 0, at |-> cycle.at, located |-> cycle.located, unresolved |-> cycle.unresolved,
                        hosts |-> cycle.status, complete |-> TRUE,
                        environments |-> [f \in Envs |->
                          IF f \in cycle.unresolved THEN view.environments[f]
                          ELSE Watch!SnapshotEnvironments(cycle.located, cycle.replies, Watch!Known(cycle.threads))[f]]]
                       EXCEPT !.number = begun]
          BY <5>1 DEF Watch!EndCycle, Watch!End
        <5>3. view'.environments = [f \in Envs |->
                IF f \in cycle.unresolved THEN view.environments[f]
                ELSE Watch!SnapshotEnvironments(cycle.located, cycle.replies, Watch!Known(cycle.threads))[f]]
          BY <5>2
        <5>. QED  BY <2>6, <3>1, <5>3
      <4>4. Watch!SnapshotEnvironments(cycle.located, cycle.replies, Watch!Known(cycle.threads))[e]
            = {[port |-> k.port, pid |-> k.pid, startedAt |-> k.startedAt, owner |-> Watch!OwnerInEnvironment(k.owner, e, Watch!Known(cycle.threads))] :
                 k \in {m \in cycle.replies[h] : m.path = EnvPlace[e].path}}
        BY <1>1, <2>6, <3>1 DEF Watch!SnapshotEnvironments
      <4>5. Watch!OwnerInEnvironment(t, e, Watch!Known(cycle.threads)) = t
        BY <2>2 DEF Watch!OwnerInEnvironment, Watch!Known
      <4>6. [port |-> l.port, pid |-> l.pid, startedAt |-> l.startedAt, owner |-> t] \in view'.environments[e]
        BY <4>2, <4>3, <4>4, <4>5
      <4>. QED  BY <4>6
    <3>. QED  BY <1>1, <3>1, <3>2, <3>3, <3>4
  <2>. QED  BY <2>3, <2>5, <2>6
<1>4. ViewHolds'
  BY <1>1, <1>3 DEF ViewHolds, Watch!Serves
<1>. QED  BY <1>1, <1>2, <1>4, <1>5, SameMachines DEF ServeInv

LEMMA ReaderHolds ==
  ASSUME ServeInv, NEW c \in Callers,
         Watch!Read(c, "fresh") \/ Watch!Read(c, "normal") \/ Watch!Refresh(c) \/ Watch!RefreshGoesOn(c) \/ Watch!Answer(c)
  PROVE  ServeInv'
<1>1. UNCHANGED <<now, listed, procs, since, view>>
  BY DEF Watch!Read, Watch!Refresh, Watch!RefreshGoesOn, Watch!Answer, Watch!world
<1>2. UNCHANGED <<readAt, cycle>> \/ Watch!Start
  BY DEF Watch!Read, Watch!Refresh, Watch!RefreshGoesOn, Watch!Answer
<1>3. CASE UNCHANGED <<readAt, cycle>>
  <2>1. MachinesStand' /\ CycleHolds'
    BY <1>1, <1>3, SameMachines DEF ServeInv, CycleHolds, ReadsAll, Places, Answers, NamesOwners, ServesIn
  <2>. QED  BY <1>1, <1>3, <2>1 DEF ServeInv, ViewHolds, Watch!InFlight, Watch!Serves
<1>4. CASE Watch!Start /\ ~UNCHANGED <<readAt, cycle>>
  <2>1. readAt' = now /\ cycle' = [step |-> "threads", at |-> now]
    BY <1>4 DEF Watch!Start
  <2>2. cycle'.step = "threads" /\ cycle' # Watch!NoCycle
    BY <2>1 DEF Watch!NoCycle
  <2>3. CycleHolds' /\ ViewHolds'
    BY <2>2 DEF CycleHolds, ViewHolds, Watch!InFlight, Watch!NoCycle
  <2>. QED  BY <1>1, <2>1, <2>3, SameMachines DEF ServeInv
<1>. QED  BY <1>2, <1>3, <1>4

\* Whatever fails, a thread that has served a port since before the snapshot's read began is held back
\* (holdBackThreads), where a scan asks about all of a machine's workspaces.
THEOREM WhoServesIsHeld ==
  ASSUME Watch!RulesAssumption, ScansReachAll
  PROVE  Watch!WatchSpec => []Watch!ServingIsHeld
<1>1. ASSUME Watch!WatchInit  PROVE ServeInv
  <2>1. now = 0 /\ readAt = -100 /\ listed = Listed /\ procs = [h \in Watch!Hosts |-> {}] /\ cycle = Watch!NoCycle
        /\ since = [t \in Threads |-> 0]
    BY <1>1 DEF Watch!WatchInit, Watch!Never
  <2>2. MachinesStand
    BY <2>1 DEF MachinesStand, ScansReachAll
  <2>3. CycleHolds
    BY <2>1 DEF CycleHolds, Watch!NoCycle
  <2>4. ViewHolds
    BY <2>1, <2>2 DEF ViewHolds, MachinesStand
  <2>5. DOMAIN view = ViewFields
    BY <1>1 DEF Watch!WatchInit, ViewFields
  <2>. QED  BY <2>2, <2>3, <2>4, <2>5 DEF ServeInv
<1>2. ASSUME ServeInv, [Watch!WatchNext]_(Watch!watchVars)  PROVE ServeInv'
  <2>1. CASE UNCHANGED Watch!watchVars
    <3>1. UNCHANGED <<now, listed, procs, view, readAt, cycle, since>>
      BY <2>1 DEF Watch!watchVars
    <3>2. MachinesStand' /\ CycleHolds'
      BY <1>2, <3>1, SameMachines DEF ServeInv, CycleHolds, ReadsAll, Places, Answers, NamesOwners, ServesIn
    <3>. QED  BY <1>2, <3>1, <3>2 DEF ServeInv, ViewHolds, Watch!InFlight, Watch!Serves
  <2>2. CASE Watch!Tick \/ (\E t \in Threads : Watch!Serve(t) \/ Watch!Appear(t)) \/ \E h \in Watch!Hosts : Watch!Exit(h)
    BY <1>2, <2>2, WorldSteps
  <2>3. CASE Watch!ReadThreads
    BY <1>2, <2>3, ReadHolds
  <2>4. CASE Watch!Resolve
    BY <1>2, <2>4, ResolveHolds
  <2>5. CASE \E h \in Watch!Hosts : Watch!ScanHost(h)
    BY <1>2, <2>5, ScanHolds
  <2>6. CASE Watch!EndCycle
    BY <1>2, <2>6, EndHolds
  <2>7. CASE \E c \in Callers : Watch!Read(c, "fresh") \/ Watch!Read(c, "normal") \/ Watch!Refresh(c) \/ Watch!RefreshGoesOn(c) \/ Watch!Answer(c)
    BY <1>2, <2>7, ReaderHolds
  <2>. QED  BY <1>2, <2>1, <2>2, <2>3, <2>4, <2>5, <2>6, <2>7 DEF Watch!WatchNext
<1>3. ASSUME ServeInv  PROVE Watch!ServingIsHeld
  <2>1. SUFFICES ASSUME ~Watch!InFlight, NEW t \in listed, Watch!Serves(t), since[t] < readAt
        PROVE  t \in Watch!HoldBackThreads(view, Watch!Known(listed))
    BY DEF Watch!ServingIsHeld
  <2>2. ~Watch!Scannable(view, EnvOf[t]) \/ \E l \in view.environments[EnvOf[t]] : l.owner = t
    BY <1>3, <2>1 DEF ServeInv, ViewHolds
  <2>3. EnvOf[t] # NoEnv
    BY <2>1 DEF Watch!Serves
  <2>. QED  BY <2>1, <2>2, <2>3 DEF Watch!HoldBackThreads, Watch!Known
<1>. QED  BY <1>1, <1>2, <1>3, PTL DEF Watch!WatchSpec

-----------------------------------------------------------------------------
(***************************************************************************)
(* AutoSettle: a change of settings is acted on.                           *)
(***************************************************************************)
CONSTANTS Parent, NoParent, Hidden, Env, FirstRows, PullKinds, AllSettings, MaxPasses

VARIABLES around, marks, pulls, serving, settings, pass, waiting, reclaims, loaded, terminals,
          changes, passes, applied, failed

Quiet == INSTANCE AutoSettle WITH bb <- around, rows <- marks

\* A pass that has read the settings, and not yet written.
ReadsUnder(p) == p.step \in {"list", "pulls", "held", "change", "write"}
PassIs(p) ==
  /\ "step" \in DOMAIN p
  /\ ReadsUnder(p) => "started" \in DOMAIN p
\* Once the settings are not the ones a pass started under, another waits behind it.
OvertakenHasNext == ReadsUnder(pass) /\ pass.started # settings => waiting
PassToCome == PassIs(pass) /\ OvertakenHasNext /\ Quiet!ChangesAreFollowed

LEMMA SamePassToCome ==
  ASSUME PassToCome, UNCHANGED <<pass, waiting, settings, applied, failed>>
  PROVE  PassToCome'
BY DEF PassToCome, PassIs, ReadsUnder, OvertakenHasNext, Quiet!ChangesAreFollowed

\* A pass that goes on goes on under the settings it started under.
LEMMA PassGoesOn ==
  ASSUME PassToCome, ReadsUnder(pass), PassIs(pass'), ReadsUnder(pass'), pass'.started = pass.started,
         UNCHANGED <<waiting, settings, applied, failed>>
  PROVE  PassToCome'
BY DEF PassToCome, ReadsUnder, OvertakenHasNext, Quiet!ChangesAreFollowed

\* A pass that begins reads the settings as they are.
LEMMA PassBegins ==
  ASSUME pass' = [step |-> "settings"]
  PROVE  PassToCome'
BY DEF PassToCome, PassIs, ReadsUnder, OvertakenHasNext, Quiet!ChangesAreFollowed

LEMMA NoPassReads == PassIs(Quiet!NoPass) /\ ~ReadsUnder(Quiet!NoPass)
BY DEF PassIs, ReadsUnder, Quiet!NoPass

\* The end of a pass leaves one to come, where the settings are not applied and no pass has failed.
LEMMA PassEnds ==
  ASSUME Quiet!EndPass, settings' # applied' => failed' \/ waiting
  PROVE  PassToCome'
<1>1. CASE waiting
  BY <1>1, PassBegins DEF Quiet!EndPass
<1>2. CASE ~waiting
  <2>1. pass' = Quiet!NoPass
    BY <1>2 DEF Quiet!EndPass
  <2>. QED  BY <1>2, <2>1, NoPassReads DEF PassToCome, OvertakenHasNext, Quiet!ChangesAreFollowed
<1>. QED  BY <1>1, <1>2

LEMMA RunComes ==
  ASSUME PassToCome, Quiet!Run
  PROVE  \/ pass' = [step |-> "settings"]
         \/ waiting' = TRUE /\ pass' = pass
BY DEF Quiet!Run

LEMMA WaitingComes ==
  ASSUME PassToCome, waiting' = TRUE, pass' = pass
  PROVE  PassToCome'
BY DEF PassToCome, OvertakenHasNext, Quiet!ChangesAreFollowed

LEMMA CheckSettingsGoesOn ==
  ASSUME PassToCome, Quiet!CheckSettings
  PROVE  PassToCome'
<1>1. ReadsUnder(pass) /\ UNCHANGED <<settings, applied, failed>>
  BY DEF Quiet!CheckSettings, ReadsUnder
<1>2. CASE pass.started # settings
  <2>1. waiting /\ Quiet!EndPass
    BY <1>1, <1>2 DEF Quiet!CheckSettings, PassToCome, OvertakenHasNext
  <2>. QED  BY <2>1, PassEnds
<1>3. CASE pass.started = settings
  <2>1. pass' = [pass EXCEPT !.step = "write"] /\ waiting' = waiting
    BY <1>3 DEF Quiet!CheckSettings
  <2>2. "step" \in DOMAIN pass /\ "started" \in DOMAIN pass
    BY <1>1 DEF PassToCome, PassIs
  <2>3. pass'.step = "write" /\ pass'.started = pass.started /\ DOMAIN pass' = DOMAIN pass
    BY <2>1, <2>2
  <2>4. PassIs(pass') /\ ReadsUnder(pass')
    BY <2>2, <2>3 DEF PassIs, ReadsUnder
  <2>. QED  BY <1>1, <2>1, <2>3, <2>4, PassGoesOn
<1>. QED  BY <1>2, <1>3

LEMMA WriteGoesOn ==
  ASSUME PassToCome, Quiet!Write
  PROVE  PassToCome'
<1>1. settings' = settings /\ ReadsUnder(pass)
  BY DEF Quiet!Write, ReadsUnder
<1>2. CASE pass' = [step |-> "reclaim"] /\ applied' = pass.started /\ UNCHANGED <<waiting, failed>>
  <2>1. PassIs(pass') /\ ~ReadsUnder(pass')
    BY <1>2 DEF PassIs, ReadsUnder
  <2>2. settings' # applied' => waiting'
    BY <1>1, <1>2 DEF PassToCome, OvertakenHasNext
  <2>. QED  BY <2>1, <2>2 DEF PassToCome, OvertakenHasNext, Quiet!ChangesAreFollowed
<1>3. CASE Quiet!Fails
  BY <1>3, PassEnds DEF Quiet!Fails
<1>. QED  BY <1>2, <1>3 DEF Quiet!Write

LEMMA ReclaimedGoesOn ==
  ASSUME PassToCome, Quiet!Reclaimed
  PROVE  PassToCome'
<1>1. Quiet!EndPass /\ UNCHANGED <<settings, applied, failed>> /\ pass.step = "reclaim"
  BY DEF Quiet!Reclaimed
<1>2. settings # applied => failed \/ waiting
  BY <1>1 DEF PassToCome, Quiet!ChangesAreFollowed
<1>. QED  BY <1>1, <1>2, PassEnds

LEMMA ReadsGoOn ==
  ASSUME PassToCome, Quiet!ReadThreads \/ Quiet!ReadPulls \/ Quiet!ReadHeld
  PROVE  PassToCome'
<1>1. CASE Quiet!ReadThreads
  <2>1. UNCHANGED <<settings, applied>> /\ ReadsUnder(pass)
    BY <1>1 DEF Quiet!ReadThreads, ReadsUnder
  <2>2. CASE Quiet!Fails
    BY <2>2, PassEnds DEF Quiet!Fails
  <2>3. CASE ~Quiet!Fails
    <3>1. /\ pass' = [step |-> "pulls", started |-> pass.started, asked |-> {Env[t] : t \in {u \in Threads : Quiet!NeedsPullRequest(u)}}]
          /\ UNCHANGED <<waiting, failed>>
      BY <1>1, <2>3 DEF Quiet!ReadThreads
    <3>2. PassIs(pass') /\ ReadsUnder(pass') /\ pass'.started = pass.started
      BY <3>1 DEF PassIs, ReadsUnder
    <3>. QED  BY <2>1, <3>1, <3>2, PassGoesOn
  <2>. QED  BY <2>2, <2>3
<1>2. CASE Quiet!ReadPulls
  <2>1. PICK read : pass' = [step |-> "held", started |-> pass.started, read |-> [e \in pass.asked |-> read[e]]]
    BY <1>2 DEF Quiet!ReadPulls
  <2>2. PassIs(pass') /\ ReadsUnder(pass') /\ pass'.started = pass.started
    BY <2>1 DEF PassIs, ReadsUnder
  <2>3. ReadsUnder(pass) /\ UNCHANGED <<waiting, settings, applied, failed>>
    BY <1>2 DEF Quiet!ReadPulls, ReadsUnder
  <2>. QED  BY <2>2, <2>3, PassGoesOn
<1>3. CASE Quiet!ReadHeld
  <2>1. PassIs(pass') /\ ReadsUnder(pass') /\ pass'.started = pass.started
    BY <1>3 DEF Quiet!ReadHeld, PassIs, ReadsUnder
  <2>2. ReadsUnder(pass) /\ UNCHANGED <<waiting, settings, applied, failed>>
    BY <1>3 DEF Quiet!ReadHeld, ReadsUnder
  <2>. QED  BY <2>1, <2>2, PassGoesOn
<1>. QED  BY <1>1, <1>2, <1>3

\* The change of settings asks for a pass, or leaves one waiting behind the pass that runs.
LEMMA AskGoesOn ==
  ASSUME PassToCome, Quiet!Ask \/ Quiet!SettingsChange
  PROVE  PassToCome'
<1>1. Quiet!Run
  BY DEF Quiet!Ask, Quiet!SettingsChange
<1>. QED  BY <1>1, RunComes, WaitingComes, PassBegins

LEMMA ReadSettingsGoesOn ==
  ASSUME Quiet!ReadSettings
  PROVE  PassToCome'
<1>1. pass' = [step |-> "list", started |-> settings] /\ settings' = settings
  BY DEF Quiet!ReadSettings
<1>2. PassIs(pass') /\ pass'.started = settings' /\ pass'.step = "list"
  BY <1>1 DEF PassIs
<1>. QED  BY <1>2 DEF PassToCome, OvertakenHasNext, Quiet!ChangesAreFollowed

\* A change to the settings is followed by a whole pass under it, unless a pass has failed since
\* (server/auto-settle.ts).
THEOREM SettingsAreFollowed == Quiet!SettleSpec => []Quiet!ChangesAreFollowed
<1>1. Quiet!SettleInit => PassToCome
  BY DEF Quiet!SettleInit, PassToCome, PassIs, ReadsUnder, OvertakenHasNext, Quiet!ChangesAreFollowed, Quiet!NoPass
<1>2. PassToCome /\ [Quiet!SettleNext]_(Quiet!settleVars) => PassToCome'
  <2>. SUFFICES ASSUME PassToCome, [Quiet!SettleNext]_(Quiet!settleVars)  PROVE PassToCome'
    OBVIOUS
  <2>1. CASE UNCHANGED Quiet!settleVars
    BY <2>1, SamePassToCome DEF Quiet!settleVars
  <2>2. CASE Quiet!Ask \/ Quiet!SettingsChange
    BY <2>2, AskGoesOn
  <2>3. CASE Quiet!ReadSettings
    BY <2>3, ReadSettingsGoesOn
  <2>4. CASE Quiet!ReadThreads \/ Quiet!ReadPulls \/ Quiet!ReadHeld
    BY <2>4, ReadsGoOn
  <2>5. CASE Quiet!CheckSettings
    BY <2>5, CheckSettingsGoesOn
  <2>6. CASE Quiet!Write
    BY <2>6, WriteGoesOn
  <2>7. CASE Quiet!Reclaimed
    BY <2>7, ReclaimedGoesOn
  <2>8. CASE \E t \in Threads : Quiet!Lives(t) \/ Quiet!Serves(t) \/ Quiet!Types(t) \/ Quiet!RowChanges(t) \/ Quiet!Check(t) \/ Quiet!Stop(t) \/ Quiet!CloseIfUntouched(t) \/ Quiet!ReleaseArchived(t)
    <3>1. UNCHANGED <<pass, waiting, settings, applied, failed>>
      BY <2>8 DEF Quiet!Lives, Quiet!Serves, Quiet!Types, Quiet!RowChanges, Quiet!Check, Quiet!Stop, Quiet!CloseIfUntouched, Quiet!ReleaseArchived, Quiet!passVars
    <3>. QED  BY <3>1, SamePassToCome
  <2>9. CASE \E e \in Quiet!Envs : Quiet!PullChanges(e)
    BY <2>9, SamePassToCome DEF Quiet!PullChanges, Quiet!passVars
  <2>. QED  BY <2>1, <2>2, <2>3, <2>4, <2>5, <2>6, <2>7, <2>8, <2>9 DEF Quiet!SettleNext
<1>3. PassToCome => Quiet!ChangesAreFollowed
  BY DEF PassToCome
<1>. QED  BY <1>1, <1>2, <1>3, PTL DEF Quiet!SettleSpec
-----------------------------------------------------------------------------
(***************************************************************************)
(* PortsPage: a page on screen keeps looking.                              *)
(***************************************************************************)
CONSTANTS MaxRounds, MaxLooks

VARIABLES visible, keeping, round, timers, running, freshWanted, joined, met, dialog, latest, looks, inFlight

Ports == INSTANCE PortsPage WITH mounted <- keeping, waiting <- joined

\* The one timer is this round's, and a round on screen has its timer, or a continuation.
RoundIsFollowed ==
  /\ timers \subseteq {round}
  /\ keeping /\ visible => round \in timers \cup joined \cup met
OffScreen ==
  /\ ~keeping => joined = {} /\ met = {}
  /\ ~visible \/ ~keeping => timers = {}
ReadRuns == joined # {} => running.on
DialogIsLatest == dialog.phase # "closed" => dialog.from = latest
Following == RoundIsFollowed /\ OffScreen /\ ReadRuns
FollowedPage == Following /\ DialogIsLatest

LEMMA SameFollowing ==
  ASSUME Following, UNCHANGED Ports!pageVars
  PROVE  Following'
BY DEF Following, RoundIsFollowed, OffScreen, ReadRuns, Ports!pageVars

LEMMA SameDialog ==
  ASSUME DialogIsLatest, UNCHANGED Ports!dialogVars
  PROVE  DialogIsLatest'
BY DEF DialogIsLatest, Ports!dialogVars

\* A refresh of a page on screen leaves its continuation on a read that runs.
LEMMA RefreshFollows ==
  ASSUME NEW fresh, Ports!Refresh(fresh), met' = met, keeping', visible'
  PROVE  Following'
<1>1. timers' = {} /\ round' \in joined' /\ running'.on
  BY DEF Ports!Refresh, Ports!Request
<1>. QED  BY <1>1 DEF Following, RoundIsFollowed, OffScreen, ReadRuns

LEMMA MountFollows ==
  ASSUME Following, Ports!Mount
  PROVE  Following'
<1>1. CASE visible
  BY <1>1, RefreshFollows DEF Ports!Mount
<1>2. CASE ~visible
  BY <1>2 DEF Ports!Mount, Following, RoundIsFollowed, OffScreen, ReadRuns
<1>. QED  BY <1>1, <1>2

LEMMA UnmountFollows ==
  ASSUME Following, Ports!Unmount
  PROVE  Following'
BY DEF Ports!Unmount, Following, RoundIsFollowed, OffScreen, ReadRuns

LEMMA ShowFollows ==
  ASSUME Following, Ports!Show
  PROVE  Following'
<1>1. CASE keeping
  BY <1>1, RefreshFollows DEF Ports!Show
<1>2. CASE ~keeping
  BY <1>2 DEF Ports!Show, Following, RoundIsFollowed, OffScreen, ReadRuns
<1>. QED  BY <1>1, <1>2

LEMMA HideFollows ==
  ASSUME Following, Ports!Hide
  PROVE  Following'
BY DEF Ports!Hide, Following, RoundIsFollowed, OffScreen, ReadRuns

LEMMA StopPortFollows ==
  ASSUME Following, Ports!StopPort
  PROVE  Following'
<1>1. running'.on = running.on \/ running'.on
  BY DEF Ports!StopPort, Ports!Request
<1>2. UNCHANGED <<visible, keeping, round, timers, joined, met>>
  BY DEF Ports!StopPort
<1>. QED  BY <1>1, <1>2 DEF Following, RoundIsFollowed, OffScreen, ReadRuns

\* Only a read that ends, with none to follow it, meets its continuations.
LEMMA AnswerFollows ==
  ASSUME Following, Ports!Answer
  PROVE  Following'
<1>1. UNCHANGED <<visible, keeping, round, timers>>
  BY DEF Ports!Answer
<1>2. CASE freshWanted
  BY <1>1, <1>2 DEF Ports!Answer, Following, RoundIsFollowed, OffScreen, ReadRuns
<1>3. CASE ~freshWanted
  BY <1>1, <1>3 DEF Ports!Answer, Following, RoundIsFollowed, OffScreen, ReadRuns
<1>. QED  BY <1>2, <1>3

LEMMA ContinueFollows ==
  ASSUME Following, NEW mine \in met, Ports!Continue(mine)
  PROVE  Following'
<1>1. UNCHANGED <<visible, keeping, round, running, joined>> /\ met' = met \ {mine} /\ keeping
  BY DEF Ports!Continue, Following, OffScreen
<1>2. CASE mine = round /\ visible
  BY <1>1, <1>2 DEF Ports!Continue, Following, RoundIsFollowed, OffScreen, ReadRuns
<1>3. CASE ~(mine = round /\ visible)
  BY <1>1, <1>3 DEF Ports!Continue, Following, RoundIsFollowed, OffScreen, ReadRuns
<1>. QED  BY <1>2, <1>3

LEMMA DueFollows ==
  ASSUME Following, Ports!Due
  PROVE  Following'
<1>1. keeping' /\ visible'
  BY DEF Ports!Due, Following, OffScreen
<1>. QED  BY <1>1, RefreshFollows DEF Ports!Due

LEMMA PageStepFollows ==
  ASSUME Following, Ports!Mount \/ Ports!Unmount \/ Ports!Show \/ Ports!Hide \/ Ports!StopPort \/ Ports!Answer \/ Ports!Due \/ \E mine \in met : Ports!Continue(mine)
  PROVE  Following' /\ UNCHANGED Ports!dialogVars
<1>1. Following'
  BY MountFollows, UnmountFollows, ShowFollows, HideFollows, StopPortFollows, AnswerFollows, DueFollows, ContinueFollows
<1>2. UNCHANGED Ports!dialogVars
  BY DEF Ports!Mount, Ports!Unmount, Ports!Show, Ports!Hide, Ports!StopPort, Ports!Answer, Ports!Due, Ports!Continue
<1>. QED  BY <1>1, <1>2

\* An answer that is not the last call's is not drawn.
LEMMA DialogStepIsLatest ==
  ASSUME DialogIsLatest, Ports!Look \/ Ports!CloseDialog \/ Ports!RunClean \/ \E call \in inFlight : Ports!DialogAnswer(call)
  PROVE  DialogIsLatest' /\ UNCHANGED Ports!pageVars
<1>1. UNCHANGED Ports!pageVars
  BY DEF Ports!Look, Ports!CloseDialog, Ports!RunClean, Ports!DialogAnswer
<1>2. CASE Ports!Look
  BY <1>2 DEF Ports!Look, DialogIsLatest
<1>3. CASE Ports!CloseDialog
  BY <1>3 DEF Ports!CloseDialog, DialogIsLatest, Ports!Closed
<1>4. CASE Ports!RunClean
  BY <1>4 DEF Ports!RunClean, DialogIsLatest
<1>5. CASE \E call \in inFlight : Ports!DialogAnswer(call)
  <2>1. PICK call \in inFlight : Ports!DialogAnswer(call)
    BY <1>5
  <2>. QED  BY <2>1 DEF Ports!DialogAnswer, DialogIsLatest
<1>. QED  BY <1>1, <1>2, <1>3, <1>4, <1>5

LEMMA OneLook ==
  ASSUME FollowedPage
  PROVE  Ports!PageIsFollowed
<1>1. ASSUME keeping, visible
      PROVE  Cardinality(timers \cup {r \in joined \cup met : r = round}) = 1
  <2>1. timers \cup {r \in joined \cup met : r = round} = {round}
    BY <1>1 DEF FollowedPage, Following, RoundIsFollowed
  <2>. QED  BY <2>1, FS_Singleton
<1>2. ASSUME NEW S  PROVE Ports!Cardinality(S) = Cardinality(S)
  BY DEF Ports!Cardinality, Cardinality
<1>. QED  BY <1>1, <1>2 DEF FollowedPage, Following, OffScreen, ReadRuns, DialogIsLatest, Ports!PageIsFollowed

\* A page that is followed and shown always has one look to come; a hidden one has no timer;
\* and what the dialog draws comes of its last call (ports-requests.ts; CleanDialog.tsx).
THEOREM PageLooksAgain == Ports!PageSpec => []Ports!PageIsFollowed
<1>1. Ports!PageInit => FollowedPage
  BY DEF Ports!PageInit, FollowedPage, Following, RoundIsFollowed, OffScreen, ReadRuns, DialogIsLatest, Ports!Closed
<1>2. FollowedPage /\ [Ports!PageNext]_(Ports!portsPageVars) => FollowedPage'
  <2>. SUFFICES ASSUME FollowedPage, [Ports!PageNext]_(Ports!portsPageVars)  PROVE FollowedPage'
    OBVIOUS
  <2>1. CASE UNCHANGED Ports!portsPageVars
    BY <2>1, SameFollowing, SameDialog DEF Ports!portsPageVars, Ports!pageVars, Ports!dialogVars, FollowedPage
  <2>2. CASE Ports!Mount \/ Ports!Unmount \/ Ports!Show \/ Ports!Hide \/ Ports!StopPort \/ Ports!Answer \/ Ports!Due \/ \E mine \in met : Ports!Continue(mine)
    BY <2>2, PageStepFollows, SameDialog DEF FollowedPage
  <2>3. CASE Ports!Look \/ Ports!CloseDialog \/ Ports!RunClean \/ \E call \in inFlight : Ports!DialogAnswer(call)
    BY <2>3, DialogStepIsLatest, SameFollowing DEF FollowedPage
  <2>. QED  BY <2>1, <2>2, <2>3 DEF Ports!PageNext
<1>. QED  BY <1>1, <1>2, OneLook, PTL DEF Ports!PageSpec

-----------------------------------------------------------------------------
(***************************************************************************)
(* ThreadCommands: an offer to close ports stands for a settle.            *)
(***************************************************************************)
VARIABLES row, signals, seesSettled, drawn, sweeping, commands, undo, lookup, prompt, made, elsewhere, offered

Commands == INSTANCE ThreadCommands WITH held <- seesSettled, calls <- commands, looking <- lookup

\* A lookup that counts is of the settle offered, and a prompt that has seen the row settled is up, and sees it still.
OfferInv ==
  /\ lookup \/ prompt.up => offered
  /\ prompt.seen => prompt.up /\ seesSettled
  /\ prompt \in [up : BOOLEAN, seen : BOOLEAN] /\ seesSettled \in BOOLEAN

LEMMA NoPromptOffers ==
  ASSUME ~lookup', prompt' = Commands!NoPrompt, seesSettled' \in BOOLEAN
  PROVE  OfferInv'
<1>1. ~prompt'.up /\ ~prompt'.seen /\ prompt' \in [up : BOOLEAN, seen : BOOLEAN]
  BY DEF Commands!NoPrompt
<1>. QED  BY <1>1 DEF OfferInv

LEMMA DismissedOffers ==
  ASSUME Commands!Dismissed, seesSettled' \in BOOLEAN
  PROVE  OfferInv'
BY NoPromptOffers DEF Commands!Dismissed

LEMMA AsideOffers ==
  ASSUME OfferInv, UNCHANGED <<lookup, prompt, seesSettled, offered>>
  PROVE  OfferInv'
BY DEF OfferInv

LEMMA SignalOffers ==
  ASSUME OfferInv, Commands!Signal, signals \in Seq(BOOLEAN)
  PROVE  OfferInv'
<1>1. seesSettled' \in BOOLEAN /\ offered' = offered
  BY DEF Commands!Signal
<1>2. CASE prompt.up /\ ~seesSettled' /\ prompt.seen
  BY <1>1, <1>2, DismissedOffers DEF Commands!Signal
<1>3. CASE ~(prompt.up /\ ~seesSettled' /\ prompt.seen)
  <2>1. prompt' = [prompt EXCEPT !.seen = @ \/ (prompt.up /\ seesSettled')] /\ lookup' = lookup
    BY <1>3 DEF Commands!Signal
  <2>2. prompt'.up = prompt.up /\ (prompt'.seen <=> prompt.seen \/ (prompt.up /\ seesSettled'))
    <3>1. "up" \in DOMAIN prompt /\ "seen" \in DOMAIN prompt
      BY DEF OfferInv
    <3>2. prompt'.up = prompt.up
      BY <2>1, <3>1
    <3>3. prompt'.seen = (prompt.seen \/ (prompt.up /\ seesSettled'))
      BY <2>1, <3>1, Zenon
    <3>. QED  BY <3>2, <3>3
  <2>3. prompt' \in [up : BOOLEAN, seen : BOOLEAN]
    BY <2>1 DEF OfferInv
  <2>. QED  BY <1>1, <1>3, <2>1, <2>2, <2>3 DEF OfferInv
<1>. QED  BY <1>2, <1>3

LEMMA AnsweredOffers ==
  ASSUME OfferInv, NEW i \in DOMAIN commands, Commands!Answered(i)
  PROVE  OfferInv'
<1>1. seesSettled' = seesSettled
  BY DEF Commands!Answered
<1>2. CASE commands[i].what = "settle" /\ commands[i].answer = "settled"
  <2>1. lookup' = TRUE /\ prompt' = Commands!NoPrompt /\ offered' = TRUE
    BY <1>2 DEF Commands!Answered
  <2>. QED  BY <1>1, <2>1 DEF OfferInv, Commands!NoPrompt
<1>3. CASE commands[i].what = "ownedPorts"
  <2>1. offered' = offered /\ lookup' = FALSE
        /\ prompt' = IF lookup /\ commands[i].answer = "ports" THEN [up |-> TRUE, seen |-> seesSettled] ELSE prompt
    BY <1>3 DEF Commands!Answered
  <2>. QED  BY <1>1, <2>1 DEF OfferInv
<1>4. CASE commands[i].what # "ownedPorts" /\ ~(commands[i].what = "settle" /\ commands[i].answer = "settled")
  <2>1. UNCHANGED <<lookup, prompt, offered>>
    BY <1>4 DEF Commands!Answered
  <2>. QED  BY <1>1, <2>1, AsideOffers
<1>. QED  BY <1>2, <1>3, <1>4

RowsSent == signals \in Seq(BOOLEAN) /\ row \in BOOLEAN

LEMMA ChangesSent ==
  ASSUME RowsSent, NEW settled \in BOOLEAN, Commands!Changes(settled)
  PROVE  RowsSent'
<1>1. signals' = signals \/ signals' = Append(signals, settled)
  BY DEF Commands!Changes
<1>2. signals' \in Seq(BOOLEAN)
  BY <1>1 DEF RowsSent
<1>. QED  BY <1>2 DEF RowsSent, Commands!Changes

LEMMA ServedSent ==
  ASSUME RowsSent, NEW i \in DOMAIN commands, Commands!Served(i)
  PROVE  RowsSent'
<1>1. Commands!Changes(TRUE) \/ Commands!Changes(FALSE) \/ UNCHANGED <<row, signals>>
  BY DEF Commands!Served
<1>. QED  BY <1>1, ChangesSent DEF RowsSent

\* A prompt that is up stands for a settle answered after this window's last action on the thread,
\* and goes with the thread's leaving Settled once it has seen it there (ports-prompt.ts).
THEOREM PromptIsForItsSettle == Commands!CommandSpec => []Commands!PromptStandsForASettle
<1>1. Commands!CommandInit => OfferInv /\ RowsSent
  <2>1. Commands!CommandInit => OfferInv
    <3>. SUFFICES ASSUME Commands!CommandInit  PROVE OfferInv
      OBVIOUS
    <3>1. ~lookup /\ seesSettled \in BOOLEAN /\ ~prompt.up /\ ~prompt.seen /\ prompt \in [up : BOOLEAN, seen : BOOLEAN]
      BY DEF Commands!CommandInit, Commands!NoPrompt
    <3>. QED  BY <3>1 DEF OfferInv
  <2>2. Commands!CommandInit => RowsSent
    <3>1. <<>> \in Seq(BOOLEAN)
      OBVIOUS
    <3>. QED  BY <3>1 DEF Commands!CommandInit, RowsSent
  <2>. QED  BY <2>1, <2>2
<1>2. OfferInv /\ RowsSent /\ [Commands!CommandNext]_(Commands!commandVars) => OfferInv' /\ RowsSent'
  <2>. SUFFICES ASSUME OfferInv, RowsSent, [Commands!CommandNext]_(Commands!commandVars)  PROVE OfferInv' /\ RowsSent'
    OBVIOUS
  <2>1. CASE Commands!Settle
    BY <2>1, DismissedOffers DEF Commands!Settle, RowsSent, OfferInv
  <2>2. CASE Commands!SweepEnds
    BY <2>2, AsideOffers DEF Commands!SweepEnds, RowsSent
  <2>3. CASE Commands!CancelSettle
    BY <2>3, AsideOffers DEF Commands!CancelSettle, RowsSent
  <2>4. CASE Commands!ClosePorts
    BY <2>4, DismissedOffers DEF Commands!ClosePorts, RowsSent, OfferInv
  <2>5. CASE Commands!KeepOpen
    BY <2>5, DismissedOffers DEF Commands!KeepOpen, RowsSent, OfferInv
  <2>6. CASE Commands!UndoGoes
    BY <2>6, AsideOffers DEF Commands!UndoGoes, RowsSent
  <2>7. CASE Commands!Signal
    <3>1. RowsSent'
      BY <2>7 DEF Commands!Signal, RowsSent
    <3>. QED  BY <2>7, <3>1, SignalOffers DEF RowsSent
  <2>8. CASE Commands!Elsewhere
    <3>1. (~row) \in BOOLEAN
      BY DEF RowsSent
    <3>. QED  BY <2>8, <3>1, AsideOffers, ChangesSent DEF Commands!Elsewhere
  <2>9. ASSUME NEW what \in Commands!Acts, Commands!Act(what)  PROVE OfferInv' /\ RowsSent'
    BY <2>9, DismissedOffers DEF Commands!Act, RowsSent, OfferInv
  <2>10. ASSUME NEW i \in DOMAIN commands, Commands!Answered(i)  PROVE OfferInv' /\ RowsSent'
    <3>1. RowsSent'
      BY <2>10 DEF Commands!Answered, RowsSent
    <3>. QED  BY <2>10, <3>1, AnsweredOffers
  <2>11. ASSUME NEW i \in DOMAIN commands, Commands!Served(i)  PROVE OfferInv' /\ RowsSent'
    BY <2>11, ServedSent, AsideOffers DEF Commands!Served
  <2>12. CASE UNCHANGED Commands!commandVars
    BY <2>12, AsideOffers DEF Commands!commandVars, RowsSent
  <2>. QED  BY <2>1, <2>2, <2>3, <2>4, <2>5, <2>6, <2>7, <2>8, <2>9, <2>10, <2>11, <2>12 DEF Commands!CommandNext
<1>3. OfferInv => Commands!PromptStandsForASettle
  BY DEF OfferInv, Commands!PromptStandsForASettle
<1>. QED  BY <1>1, <1>2, <1>3, PTL DEF Commands!CommandSpec

-----------------------------------------------------------------------------
(***************************************************************************)
(* RenameEditor: an open edit keeps the focus, and only its person ends it. *)
(***************************************************************************)
CONSTANTS Titles, Blank, MaxTurns

VARIABLES screen, editor, title, saving, removed, key, turns

Editing == INSTANCE RenameEditor WITH page <- screen

Anywhere == {"editor", "nothing", "item", "frame"} \cup Editing!Targets
AnyPage == [focus : Anywhere, window : BOOLEAN, dialogs : SUBSET Editing!Dialogs, menu : BOOLEAN]
AnyEditor == [open : BOOLEAN, ended : BOOLEAN, value : Titles \cup {Blank}, initial : Titles, leaving : BOOLEAN,
              before : SUBSET Editing!Dialogs]
EditTypes == screen \in AnyPage /\ editor \in AnyEditor /\ title \in Titles /\ saving \subseteq Titles
\* A dialog that has the focus is open.
FocusStands == screen.focus \in Editing!Dialogs => screen.focus \in screen.dialogs
\* The next blur ends the edit only after a Tab; an edit that has ended is not opened again.
LeavesByTab == editor.leaving => IF editor.open THEN key = "tab" ELSE editor.ended
\* An open edit has the focus, or a dialog opened since, or nothing has once what had it is removed.
HoldsFocus ==
  editor.open /\ screen.window /\ ~screen.menu
  => screen.focus = "editor" \/ screen.focus \in screen.dialogs \ editor.before \/ (removed /\ screen.focus = "nothing")
EditInv == EditTypes /\ FocusStands /\ LeavesByTab /\ HoldsFocus

LEMMA AsideEdits ==
  ASSUME EditInv, UNCHANGED <<screen, editor, removed, key>>, title' \in Titles, saving' \subseteq Titles
  PROVE  EditInv' /\ Editing!KeepsTheEdit
BY DEF EditInv, EditTypes, FocusStands, LeavesByTab, HoldsFocus, Editing!KeepsTheEdit

\* An edit that has ended, whoever has the focus.
LEMMA EndedEdits ==
  ASSUME EditInv, NEW saves \in BOOLEAN, Editing!Ended(saves), title' = title, screen' \in AnyPage, FocusStands'
  PROVE  EditInv'
<1>1. editor' \in AnyEditor /\ ~editor'.open /\ editor'.ended
  BY DEF Editing!Ended, EditInv, EditTypes, AnyEditor
<1>2. editor.value \notin {Blank, title} => editor.value \in Titles
  BY DEF EditInv, EditTypes, AnyEditor
<1>3. saving' \subseteq Titles
  BY <1>2 DEF Editing!Ended, EditInv, EditTypes
<1>. QED  BY <1>1, <1>3 DEF EditInv, EditTypes, LeavesByTab, HoldsFocus

LEMMA FocusMoves ==
  ASSUME EditInv, NEW target \in Anywhere, Editing!FocusIs(target), target \in Editing!Dialogs => target \in screen.dialogs
  PROVE  /\ screen' \in AnyPage /\ FocusStands'
         /\ screen'.window = screen.window /\ screen'.menu = screen.menu /\ screen'.dialogs = screen.dialogs
         /\ ~screen.menu => screen'.focus = target
<1>1. "item" \in Anywhere /\ "item" \notin Editing!Dialogs
  BY DEF Anywhere, Editing!Dialogs
<1>2. screen \in AnyPage
  BY DEF EditInv, EditTypes
<1>3. PICK f : f = (IF screen.menu THEN "item" ELSE target) /\ screen' = [screen EXCEPT !.focus = f]
  BY DEF Editing!FocusIs
<1>4. f \in Anywhere /\ (f \in Editing!Dialogs => f \in screen.dialogs)
  BY <1>1, <1>3
<1>5. screen' \in AnyPage /\ screen'.focus = f /\ screen'.window = screen.window /\ screen'.menu = screen.menu /\ screen'.dialogs = screen.dialogs
  BY <1>2, <1>3, <1>4 DEF AnyPage
<1>. QED  BY <1>3, <1>4, <1>5 DEF FocusStands

LEMMA TakesBackHolds ==
  ASSUME EditInv, NEW target \in Anywhere, Editing!TakesBack(target), target \in Editing!Dialogs => target \in screen.dialogs,
         title' = title, key' = key \/ target = "frame"
  PROVE  EditInv' /\ (editor.open /\ ~editor'.open => target = "frame")
<1>1. "editor" \in Anywhere /\ "editor" \notin Editing!Dialogs
  BY DEF Anywhere, Editing!Dialogs
<1>2. CASE ~editor.open \/ target = "editor" \/ Editing!IsHeldByDialog(target)
  <2>1. Editing!FocusIs(target) /\ UNCHANGED <<editor, saving>>
    BY <1>2 DEF Editing!TakesBack, Editing!Stays
  <2>2. screen' \in AnyPage /\ FocusStands' /\ screen'.menu = screen.menu /\ screen'.dialogs = screen.dialogs
        /\ (~screen.menu => screen'.focus = target)
    BY <2>1, FocusMoves
  <2>3. editor.open => target = "editor" \/ target \in screen.dialogs \ editor.before
    BY <1>2 DEF Editing!IsHeldByDialog
  <2>4. LeavesByTab'
    <3>1. CASE editor.open
      <4>1. target # "frame"
        BY <1>2, <3>1 DEF Editing!IsHeldByDialog, Editing!Dialogs
      <4>. QED  BY <2>1, <4>1 DEF EditInv, LeavesByTab
    <3>2. CASE ~editor.open
      BY <2>1, <3>2 DEF EditInv, LeavesByTab
    <3>. QED  BY <3>1, <3>2
  <2>5. HoldsFocus'
    BY <2>1, <2>2, <2>3 DEF HoldsFocus
  <2>. QED  BY <2>1, <2>2, <2>4, <2>5 DEF EditInv, EditTypes
<1>3. CASE editor.open /\ target # "editor" /\ ~Editing!IsHeldByDialog(target) /\ target = "frame"
  <2>1. Editing!FocusIs(target) /\ Editing!Ended(TRUE)
    BY <1>3 DEF Editing!TakesBack
  <2>. QED  BY <1>3, <2>1, FocusMoves, EndedEdits
<1>4. CASE editor.open /\ target # "editor" /\ ~Editing!IsHeldByDialog(target) /\ target # "frame"
  <2>1. Editing!FocusIs("editor") /\ UNCHANGED <<editor, saving>>
    BY <1>4 DEF Editing!TakesBack, Editing!Stays
  <2>2. screen' \in AnyPage /\ FocusStands' /\ screen'.menu = screen.menu /\ (~screen.menu => screen'.focus = "editor")
    BY <1>1, <2>1, FocusMoves
  <2>3. HoldsFocus' /\ LeavesByTab'
    BY <1>4, <2>1, <2>2 DEF HoldsFocus, EditInv, LeavesByTab
  <2>. QED  BY <2>1, <2>2, <2>3 DEF EditInv, EditTypes
<1>. QED  BY <1>2, <1>3, <1>4

LEMMA MovesHolds ==
  ASSUME EditInv, NEW target \in Anywhere, Editing!Moves(target), target \in Editing!Dialogs => target \in screen.dialogs,
         title' = title, key' = IF target = "frame" THEN "press" ELSE key
  PROVE  EditInv' /\ Editing!KeepsTheEdit
<1>1. CASE editor.open /\ screen.focus = "editor" /\ editor.leaving
  <2>1. Editing!FocusIs(target) /\ Editing!Ended(TRUE)
    BY <1>1 DEF Editing!Moves
  <2>2. EditInv'
    BY <2>1, FocusMoves, EndedEdits
  <2>3. key = "tab"
    BY <1>1 DEF EditInv, LeavesByTab
  <2>. QED  BY <2>2, <2>3 DEF Editing!KeepsTheEdit
<1>2. CASE ~(editor.open /\ screen.focus = "editor" /\ editor.leaving)
  <2>1. Editing!TakesBack(target)
    BY <1>2 DEF Editing!Moves
  <2>2. CASE target = "frame"
    BY <2>1, <2>2, TakesBackHolds DEF Editing!KeepsTheEdit
  <2>3. CASE target # "frame"
    BY <2>1, <2>3, TakesBackHolds DEF Editing!KeepsTheEdit
  <2>. QED  BY <2>2, <2>3
<1>. QED  BY <1>1, <1>2
LEMMA OpenHolds ==
  ASSUME EditInv, Editing!Open
  PROVE  EditInv' /\ Editing!KeepsTheEdit
<1>1. "editor" \in Anywhere /\ "editor" \notin Editing!Dialogs
  BY DEF Anywhere, Editing!Dialogs
<1>2. screen' \in AnyPage /\ FocusStands' /\ screen'.menu = screen.menu /\ (~screen.menu => screen'.focus = "editor")
  BY <1>1, FocusMoves DEF Editing!Open
<1>3. editor' \in AnyEditor /\ editor'.open /\ editor'.leaving = editor.leaving
  BY DEF Editing!Open, EditInv, EditTypes, AnyEditor, AnyPage
<1>. QED  BY <1>2, <1>3 DEF Editing!Open, EditInv, EditTypes, HoldsFocus, LeavesByTab, Editing!KeepsTheEdit
LEMMA TypeHolds ==
  ASSUME EditInv, Editing!Type
  PROVE  EditInv' /\ Editing!KeepsTheEdit
<1>1. PICK v \in Titles \cup {Blank} : editor' = [editor EXCEPT !.value = v, !.leaving = FALSE]
  BY DEF Editing!Type
<1>2. editor' \in AnyEditor /\ ~editor'.leaving /\ editor'.open = editor.open /\ editor'.before = editor.before
  BY <1>1 DEF EditInv, EditTypes, AnyEditor
<1>3. UNCHANGED <<screen, title, saving, removed>>
  BY DEF Editing!Type
<1>. QED  BY <1>2, <1>3 DEF EditInv, EditTypes, FocusStands, HoldsFocus, LeavesByTab, Editing!KeepsTheEdit

LEMMA OtherKeyHolds ==
  ASSUME EditInv, NEW k, Editing!OtherKey(k)
  PROVE  EditInv' /\ Editing!KeepsTheEdit
<1>1. editor' \in AnyEditor /\ editor'.leaving = (k = "tab") /\ editor'.open = editor.open /\ editor'.before = editor.before
  BY DEF Editing!OtherKey, Editing!Leaving, Editing!LeavesByKey, EditInv, EditTypes, AnyEditor
<1>2. UNCHANGED <<screen, title, saving, removed>> /\ key' = k /\ editor.open
  BY DEF Editing!OtherKey, Editing!InEditor
<1>. QED  BY <1>1, <1>2 DEF EditInv, EditTypes, FocusStands, HoldsFocus, LeavesByTab, Editing!KeepsTheEdit

\* A key or a press that ends the edit.
LEMMA KeyEnds ==
  ASSUME EditInv, NEW saves \in BOOLEAN, Editing!Ended(saves), title' = title, key' \in {"press", "enter", "escape", "tab"},
         NEW f \in Anywhere, screen' = [screen EXCEPT !.focus = f], f \in Editing!Dialogs => f \in screen.dialogs
  PROVE  EditInv' /\ Editing!KeepsTheEdit
<1>1. screen' \in AnyPage /\ screen'.focus = f /\ screen'.dialogs = screen.dialogs
  BY DEF EditInv, EditTypes, AnyPage
<1>2. EditInv'
  BY <1>1, EndedEdits DEF FocusStands
<1>. QED  BY <1>2 DEF Editing!KeepsTheEdit

LEMMA EndsHolds ==
  ASSUME EditInv, Editing!Enter \/ Editing!Escape \/ Editing!Tab
  PROVE  EditInv' /\ Editing!KeepsTheEdit
<1>1. {"nothing", "composer"} \subseteq Anywhere \ Editing!Dialogs
  BY DEF Anywhere, Editing!Targets, Editing!Dialogs
<1>2. CASE Editing!Enter
  BY <1>1, <1>2, KeyEnds DEF Editing!Enter
<1>3. CASE Editing!Escape
  BY <1>1, <1>3, KeyEnds DEF Editing!Escape
<1>4. CASE Editing!Tab
  BY <1>1, <1>4, KeyEnds DEF Editing!Tab
<1>. QED  BY <1>2, <1>3, <1>4

LEMMA PressHolds ==
  ASSUME EditInv, NEW target \in Editing!Targets \cup {"frame"}, Editing!Press(target)
  PROVE  EditInv' /\ Editing!KeepsTheEdit
<1>1. target \in Anywhere /\ (target \in Editing!Dialogs => target \in screen.dialogs) /\ title' = title /\ key' = "press"
  BY DEF Editing!Press, Anywhere
<1>2. CASE target = "frame"
  BY <1>1, <1>2, MovesHolds DEF Editing!Press
<1>3. CASE target # "frame"
  BY <1>1, <1>3, KeyEnds DEF Editing!Press
<1>. QED  BY <1>2, <1>3

LEMMA TakenHolds ==
  ASSUME EditInv, NEW target \in Editing!Targets, Editing!Taken(target)
  PROVE  EditInv' /\ Editing!KeepsTheEdit
<1>1. target \in Anywhere /\ target # "frame" /\ (target \in Editing!Dialogs => target \in screen.dialogs) /\ title' = title /\ key' = key
  BY DEF Editing!Taken, Anywhere, Editing!Targets
<1>. QED  BY <1>1, MovesHolds DEF Editing!Taken

\* The page changes, and not the edit.
LEMMA PageHolds ==
  ASSUME EditInv, UNCHANGED <<title, editor, saving, key>>, screen' \in AnyPage, FocusStands', HoldsFocus'
  PROVE  EditInv' /\ Editing!KeepsTheEdit
BY DEF EditInv, EditTypes, LeavesByTab, Editing!KeepsTheEdit

LEMMA DialogOpensHolds ==
  ASSUME EditInv, Editing!DialogOpens
  PROVE  EditInv' /\ Editing!KeepsTheEdit
<1>1. PICK d \in Editing!Dialogs : screen' = [screen EXCEPT !.dialogs = @ \cup {d}]
  BY DEF Editing!DialogOpens
<1>2. screen' \in AnyPage /\ screen'.focus = screen.focus /\ screen'.window = screen.window /\ screen'.menu = screen.menu
      /\ screen.dialogs \subseteq screen'.dialogs
  BY <1>1 DEF EditInv, EditTypes, AnyPage
<1>3. UNCHANGED <<title, editor, saving, key, removed>>
  BY DEF Editing!DialogOpens
<1>4. FocusStands' /\ HoldsFocus'
  BY <1>2, <1>3 DEF EditInv, FocusStands, HoldsFocus
<1>. QED  BY <1>2, <1>3, <1>4, PageHolds

LEMMA DialogClosesHolds ==
  ASSUME EditInv, NEW d \in Editing!Dialogs, Editing!DialogCloses(d)
  PROVE  EditInv' /\ Editing!KeepsTheEdit
<1>1. PICK f : f = (IF screen.focus = d THEN "nothing" ELSE screen.focus) /\ screen' = [screen EXCEPT !.dialogs = @ \ {d}, !.focus = f]
  BY DEF Editing!DialogCloses
<1>2. f \in Anywhere /\ (f = "nothing" \/ (f = screen.focus /\ f # d)) /\ "nothing" \notin Editing!Dialogs
  BY <1>1 DEF EditInv, EditTypes, AnyPage, Anywhere, Editing!Dialogs
<1>3. screen' \in AnyPage /\ screen'.focus = f /\ screen'.window = screen.window /\ screen'.menu = screen.menu
      /\ screen'.dialogs = screen.dialogs \ {d}
  BY <1>1, <1>2 DEF EditInv, EditTypes, AnyPage
<1>4. UNCHANGED <<title, editor, saving, key>> /\ removed' = (removed \/ screen.focus = d)
  BY DEF Editing!DialogCloses
<1>5. FocusStands'
  BY <1>2, <1>3 DEF EditInv, FocusStands
<1>6. HoldsFocus'
  <2>1. CASE screen.focus = d
    BY <1>1, <1>3, <1>4, <2>1 DEF HoldsFocus
  <2>2. CASE screen.focus # d
    BY <1>1, <1>3, <1>4, <2>2 DEF EditInv, HoldsFocus
  <2>. QED  BY <2>1, <2>2
<1>. QED  BY <1>3, <1>4, <1>5, <1>6, PageHolds

LEMMA MenuClosesHolds ==
  ASSUME EditInv, Editing!MenuCloses
  PROVE  EditInv' /\ Editing!KeepsTheEdit
<1>1. PICK f :
        /\ screen' = [screen EXCEPT !.menu = FALSE, !.focus = f]
        /\ \/ f = "nothing" /\ removed'
           \/ f = IF editor.open /\ screen.window THEN "editor" ELSE "trigger"
  BY DEF Editing!MenuCloses
<1>2. f \in Anywhere \ Editing!Dialogs
  BY <1>1 DEF Anywhere, Editing!Targets, Editing!Dialogs
<1>3. screen' \in AnyPage /\ screen'.focus = f /\ screen'.window = screen.window
  BY <1>1, <1>2 DEF EditInv, EditTypes, AnyPage
<1>4. UNCHANGED <<title, editor, saving, key>>
  BY DEF Editing!MenuCloses, Editing!Stays
<1>5. FocusStands' /\ HoldsFocus'
  BY <1>1, <1>2, <1>3, <1>4 DEF FocusStands, HoldsFocus
<1>. QED  BY <1>3, <1>4, <1>5, PageHolds

LEMMA ObserveHolds ==
  ASSUME EditInv, Editing!Observe
  PROVE  EditInv' /\ Editing!KeepsTheEdit
<1>1. CASE Editing!IsFocusOnNothing
  <2>1. "nothing" \in Anywhere \ Editing!Dialogs
    BY DEF Anywhere, Editing!Dialogs
  <2>. QED  BY <1>1, <2>1, TakesBackHolds DEF Editing!Observe, Editing!KeepsTheEdit
<1>2. CASE ~Editing!IsFocusOnNothing
  <2>1. UNCHANGED <<screen, title, editor, saving, key>>
    BY <1>2 DEF Editing!Observe
  <2>2. FocusStands' /\ HoldsFocus'
    BY <1>2, <2>1 DEF EditInv, FocusStands, HoldsFocus, Editing!IsFocusOnNothing
  <2>. QED  BY <2>1, <2>2, PageHolds DEF EditInv, EditTypes
<1>. QED  BY <1>1, <1>2

LEMMA BlurHolds ==
  ASSUME EditInv, Editing!Blur
  PROVE  EditInv' /\ Editing!KeepsTheEdit
<1>1. CASE editor.leaving
  <2>1. "nothing" \in Anywhere \ Editing!Dialogs
    BY DEF Anywhere, Editing!Dialogs
  <2>2. key' = "tab"
    BY <1>1 DEF Editing!Blur, Editing!InEditor, EditInv, LeavesByTab
  <2>. QED  BY <1>1, <2>1, <2>2, KeyEnds DEF Editing!Blur
<1>2. CASE ~editor.leaving
  BY <1>2, AsideEdits DEF Editing!Blur, Editing!Stays, EditInv, EditTypes
<1>. QED  BY <1>1, <1>2

LEMMA WindowLeftHolds ==
  ASSUME EditInv, Editing!WindowLeft
  PROVE  EditInv' /\ Editing!KeepsTheEdit
<1>1. screen' \in AnyPage /\ ~screen'.window /\ FocusStands'
  BY DEF Editing!WindowLeft, EditInv, EditTypes, AnyPage, FocusStands
<1>2. CASE Editing!InEditor /\ editor.leaving
  <2>1. Editing!Ended(TRUE) /\ title' = title /\ key' = key
    BY <1>2 DEF Editing!WindowLeft
  <2>2. key = "tab"
    BY <1>2 DEF Editing!InEditor, EditInv, LeavesByTab
  <2>. QED  BY <1>1, <2>1, <2>2, EndedEdits DEF Editing!KeepsTheEdit
<1>3. CASE ~(Editing!InEditor /\ editor.leaving)
  <2>1. UNCHANGED <<title, editor, saving, key>>
    BY <1>3 DEF Editing!WindowLeft, Editing!Stays
  <2>. QED  BY <1>1, <2>1, PageHolds DEF HoldsFocus
<1>. QED  BY <1>2, <1>3

LEMMA WindowReturnsHolds ==
  ASSUME EditInv, Editing!WindowReturns
  PROVE  EditInv' /\ Editing!KeepsTheEdit
<1>1. UNCHANGED <<title, editor, saving, key, removed>>
  BY DEF Editing!WindowReturns
<1>2. CASE ~editor.open \/ screen.menu \/ screen.focus = "editor" \/ Editing!IsHeldByDialog(screen.focus)
  <2>1. screen' = [screen EXCEPT !.window = TRUE]
    BY <1>2 DEF Editing!WindowReturns
  <2>2. screen' \in AnyPage /\ screen'.focus = screen.focus /\ screen'.menu = screen.menu /\ screen'.dialogs = screen.dialogs
    BY <2>1 DEF EditInv, EditTypes, AnyPage
  <2>3. FocusStands'
    BY <2>2 DEF EditInv, FocusStands
  <2>4. HoldsFocus'
    BY <1>1, <1>2, <2>2 DEF EditInv, FocusStands, HoldsFocus, Editing!IsHeldByDialog
  <2>. QED  BY <1>1, <2>2, <2>3, <2>4, PageHolds
<1>3. CASE ~(~editor.open \/ screen.menu \/ screen.focus = "editor" \/ Editing!IsHeldByDialog(screen.focus))
  <2>1. screen' = [screen EXCEPT !.window = TRUE, !.focus = "editor"]
    BY <1>3 DEF Editing!WindowReturns
  <2>2. screen' \in AnyPage /\ screen'.focus = "editor" /\ "editor" \notin Editing!Dialogs
    BY <2>1 DEF EditInv, EditTypes, AnyPage, Anywhere, Editing!Dialogs
  <2>. QED  BY <1>1, <2>2, PageHolds DEF FocusStands, HoldsFocus
<1>. QED  BY <1>2, <1>3

LEMMA StoredHolds ==
  ASSUME EditInv, Editing!Stored \/ Editing!Elsewhere
  PROVE  EditInv' /\ Editing!KeepsTheEdit
<1>1. title' \in Titles /\ saving' \subseteq Titles
  BY DEF Editing!Stored, Editing!Elsewhere, EditInv, EditTypes
<1>. QED  BY <1>1, AsideEdits DEF Editing!Stored, Editing!Elsewhere

LEMMA EditStep ==
  ASSUME EditInv, [Editing!EditorNext]_(Editing!editorVars)
  PROVE  EditInv' /\ [Editing!KeepsTheEdit]_(Editing!editorVars)
<1>1. CASE Editing!Open
  BY <1>1, OpenHolds
<1>2. CASE Editing!Type
  BY <1>2, TypeHolds
<1>3. CASE Editing!Enter \/ Editing!Escape \/ Editing!Tab
  BY <1>3, EndsHolds
<1>4. ASSUME NEW k, Editing!OtherKey(k)  PROVE EditInv' /\ Editing!KeepsTheEdit
  BY <1>4, OtherKeyHolds
<1>5. ASSUME NEW target \in Editing!Targets \cup {"frame"}, Editing!Press(target)  PROVE EditInv' /\ Editing!KeepsTheEdit
  BY <1>5, PressHolds
<1>6. ASSUME NEW target \in Editing!Targets, Editing!Taken(target)  PROVE EditInv' /\ Editing!KeepsTheEdit
  BY <1>6, TakenHolds
<1>7. CASE Editing!DialogOpens
  BY <1>7, DialogOpensHolds
<1>8. ASSUME NEW d \in Editing!Dialogs, Editing!DialogCloses(d)  PROVE EditInv' /\ Editing!KeepsTheEdit
  BY <1>8, DialogClosesHolds
<1>9. CASE Editing!MenuCloses
  BY <1>9, MenuClosesHolds
<1>10. CASE Editing!Observe
  BY <1>10, ObserveHolds
<1>11. CASE Editing!Blur
  BY <1>11, BlurHolds
<1>12. CASE Editing!WindowLeft
  BY <1>12, WindowLeftHolds
<1>13. CASE Editing!WindowReturns
  BY <1>13, WindowReturnsHolds
<1>14. CASE Editing!Stored \/ Editing!Elsewhere
  BY <1>14, StoredHolds
<1>15. CASE UNCHANGED Editing!editorVars
  BY <1>15, AsideEdits DEF Editing!editorVars, EditInv, EditTypes
<1>. QED  BY <1>1, <1>2, <1>3, <1>4, <1>5, <1>6, <1>7, <1>8, <1>9, <1>10, <1>11, <1>12, <1>13, <1>14, <1>15 DEF Editing!EditorNext

LEMMA InitEdits == Editing!EditorInit => EditInv
<1>. SUFFICES ASSUME Editing!EditorInit  PROVE EditInv
  OBVIOUS
<1>1. ~editor.open /\ ~editor.leaving
  BY DEF Editing!EditorInit
<1>2. PICK menu \in BOOLEAN, dialogs \in SUBSET {"old"} :
        screen = [focus |-> IF menu THEN "item" ELSE "trigger", window |-> TRUE, dialogs |-> dialogs, menu |-> menu]
  BY DEF Editing!EditorInit
<1>3. (IF menu THEN "item" ELSE "trigger") \in Anywhere \ Editing!Dialogs /\ dialogs \in SUBSET Editing!Dialogs
  BY DEF Anywhere, Editing!Targets, Editing!Dialogs
<1>4. screen \in AnyPage /\ FocusStands
  BY <1>2, <1>3 DEF AnyPage, FocusStands
<1>5. editor \in AnyEditor
  BY DEF Editing!EditorInit, AnyEditor
<1>. QED  BY <1>1, <1>4, <1>5 DEF Editing!EditorInit, EditInv, EditTypes, HoldsFocus, LeavesByTab

\* In a window that has focus, with no menu closing, an open edit has the focus, or a dialog opened
\* since has it (rename-focus.ts).
THEOREM EditKeepsFocus == Editing!EditorSpec => []Editing!KeepsFocus
<1>1. EditInv => Editing!KeepsFocus
  BY DEF EditInv, HoldsFocus, Editing!KeepsFocus
<1>. QED  BY <1>1, InitEdits, EditStep, PTL DEF Editing!EditorSpec

\* Only a press, Enter, Escape or a Tab pressed last ends an edit (rename-focus.ts).
THEOREM EditIsKept == Editing!EditorSpec => [][Editing!KeepsTheEdit]_(Editing!editorVars)
BY InitEdits, EditStep, PTL DEF Editing!EditorSpec

-----------------------------------------------------------------------------
(***************************************************************************)
(* ProjectLooks: a row draws no icon from before what its window has heard *)
(* of.                                                                     *)
(***************************************************************************)
CONSTANTS Projects, Own, Hues, Gap, HueStep, Attempts, Picked, NoColour, NoIcon, NoEntry, Candidates, Sources, Named,
          FileKinds, MaxUploads

VARIABLES colours, icon, stamp, files, found, pending, iconReads, lastRead, heard, entry, queued, fetches, uploads,
          colourPicks, failures

Looks == INSTANCE ProjectLooks WITH reads <- iconReads, waiting <- queued, calls <- fetches, picks <- colourPicks

AnyResult == [kind : {"none", "found", "missing", "unreadable"}, stamp : Nat]
States == {"asking", "failed", "done"}
AnyEntry == [src : Nat \cup {NoIcon}, since : Nat, url : AnyResult, waits : Int, answer : AnyResult,
             state : States]
AnyReading == [id : Nat, stamp : Nat]
LookTypes ==
  /\ icon \in Nat \cup {NoIcon} /\ stamp \in Nat
  /\ found \in AnyResult \cup {NoIcon}
  /\ pending \in Nat /\ lastRead \in Nat /\ iconReads \subseteq AnyReading
  /\ entry \in AnyEntry \cup {NoEntry}

\* What the server keeps is of now.
IsOfNow == (icon # NoIcon => icon = stamp) /\ (found # NoIcon => found.stamp = stamp)
\* A read, by its id: no earlier than a stamp.
NoEarlier(id, s) == \A r \in iconReads : r.id = id => r.stamp >= s
ReadsAreNumbered == pending <= lastRead /\ \A r \in iconReads : 0 < r.id /\ r.id <= lastRead
\* The read that a request would join is of now.
JoinedIsOfNow == pending # 0 => NoEarlier(pending, stamp)
\* What the window waits for, was answered and draws is no earlier than what it had heard of.
AsksForNow(e) ==
  /\ e.since <= stamp /\ e.waits <= lastRead
  /\ e.waits > 0 => NoEarlier(e.waits, e.since)
  /\ e.waits = -1 => e.answer.stamp >= e.since
  /\ e.url # Looks!NoAnswer => e.url.stamp >= e.since
EntryIsOfNow == entry # NoEntry => AsksForNow(entry)
LookInv == LookTypes /\ IsOfNow /\ ReadsAreNumbered /\ JoinedIsOfNow /\ EntryIsOfNow
LEMMA EntryTyped ==
  ASSUME NEW e \in AnyEntry, NEW u \in AnyResult, NEW w \in Int, NEW a \in AnyResult, NEW s \in States
  PROVE  /\ [e EXCEPT !.waits = w, !.answer = a] \in AnyEntry
         /\ [e EXCEPT !.state = s, !.waits = w, !.answer = a] \in AnyEntry
         /\ [e EXCEPT !.url = u, !.state = s, !.waits = w, !.answer = a] \in AnyEntry
BY DEF AnyEntry

LEMMA AsideLooks ==
  ASSUME LookInv, UNCHANGED <<icon, stamp, found, pending, iconReads, lastRead, entry>>
  PROVE  LookInv'
BY DEF LookInv, LookTypes, IsOfNow, ReadsAreNumbered, JoinedIsOfNow, EntryIsOfNow, AsksForNow, NoEarlier

\* Only the window's icon changes.
LEMMA EntryLooks ==
  ASSUME LookInv, UNCHANGED <<icon, stamp, found, pending, iconReads, lastRead>>,
         NEW e \in AnyEntry, AsksForNow(e), entry' = e
  PROVE  LookInv'
<1>1. AsksForNow(entry)'
  BY DEF AsksForNow, NoEarlier
<1>. QED  BY <1>1 DEF LookInv, LookTypes, IsOfNow, ReadsAreNumbered, JoinedIsOfNow, EntryIsOfNow, NoEarlier

\* An upload, a clear or a removal: reads under way are joined no more.
LEMMA InvalidateLooks ==
  ASSUME LookInv, Looks!Invalidate, icon' \in {NoIcon, stamp + 1}, UNCHANGED <<iconReads, lastRead, entry>>
  PROVE  LookInv'
<1>1. stamp' = stamp + 1 /\ found' = NoIcon /\ pending' = 0 /\ stamp \in Nat /\ lastRead \in Nat
  BY DEF Looks!Invalidate, LookInv, LookTypes
<1>2. LookTypes' /\ IsOfNow' /\ ReadsAreNumbered' /\ JoinedIsOfNow'
  BY <1>1 DEF LookInv, LookTypes, IsOfNow, ReadsAreNumbered, JoinedIsOfNow
<1>3. ASSUME entry # NoEntry  PROVE AsksForNow(entry)'
  <2>1. entry.since \in Nat /\ AsksForNow(entry)
    BY <1>3 DEF LookInv, LookTypes, AnyEntry, EntryIsOfNow
  <2>. QED  BY <1>1, <2>1 DEF AsksForNow, NoEarlier
<1>. QED  BY <1>2, <1>3 DEF LookInv, EntryIsOfNow

LEMMA ExpireLooks ==
  ASSUME LookInv, Looks!Expire
  PROVE  LookInv'
<1>1. found' = NoIcon /\ UNCHANGED <<icon, stamp, pending, iconReads, lastRead, entry>>
  BY DEF Looks!Expire, Looks!windowVars
<1>2. entry # NoEntry => AsksForNow(entry)'
  BY <1>1 DEF LookInv, EntryIsOfNow, AsksForNow, NoEarlier
<1>. QED  BY <1>1, <1>2 DEF LookInv, LookTypes, IsOfNow, ReadsAreNumbered, JoinedIsOfNow, EntryIsOfNow, NoEarlier

LEMMA FindIconKinds == Looks!FindIcon(files) \in {"found", "unreadable", "missing"}
BY DEF Looks!FindIcon

\* A read that ends: what it found is of now where the stamp is still the read's.
LEMMA EndReadLooks ==
  ASSUME LookInv, NEW r \in iconReads, Looks!EndRead(r)
  PROVE  LookInv'
<1>1. PICK result : result = Looks!Result(Looks!FindIcon(files), r.stamp)
  OBVIOUS
<1>2. /\ iconReads' = iconReads \ {r}
      /\ pending' = IF pending = r.id THEN 0 ELSE pending
      /\ found' = IF r.stamp = stamp /\ result.kind # "unreadable" THEN result ELSE found
      /\ entry' = IF entry # NoEntry /\ entry.waits = r.id THEN [entry EXCEPT !.waits = -1, !.answer = result] ELSE entry
      /\ UNCHANGED <<icon, stamp, lastRead>>
  BY <1>1 DEF Looks!EndRead
<1>3. r.stamp \in Nat /\ r.id \in Nat
  BY DEF LookInv, LookTypes, AnyReading
<1>4. result \in AnyResult /\ result.stamp = r.stamp
  BY <1>1, <1>3, FindIconKinds DEF Looks!Result, AnyResult
<1>5. entry # NoEntry => entry \in AnyEntry /\ AsksForNow(entry)
  BY DEF LookInv, LookTypes, EntryIsOfNow
<1>6. CASE entry # NoEntry /\ entry.waits = r.id
  <2>1. PICK e : e = [entry EXCEPT !.waits = -1, !.answer = result]
    OBVIOUS
  <2>2. e \in AnyEntry /\ e.waits = -1 /\ e.answer = result /\ e.since = entry.since /\ e.url = entry.url
    <3>1. e.waits = -1 /\ e.answer = result /\ e.since = entry.since /\ e.url = entry.url
      BY <1>4, <1>5, <1>6, <2>1 DEF AnyEntry
    <3>2. e \in AnyEntry
      BY <1>4, <1>5, <1>6, <2>1, -1 \in Int, EntryTyped DEF States
    <3>. QED  BY <3>1, <3>2
  <2>3. entry.waits \in Int /\ lastRead \in Nat /\ -1 <= lastRead
    BY <1>5, <1>6 DEF AnyEntry, LookInv, LookTypes
  <2>4. e.answer.stamp >= e.since
    <3>1. CASE r.id > 0
      BY <1>4, <1>5, <1>6, <2>2, <3>1 DEF AsksForNow, NoEarlier
    <3>2. CASE r.id = 0
      BY <1>4, <1>5, <1>6, <2>2, <3>2 DEF LookInv, ReadsAreNumbered
    <3>. QED  BY <1>3, <3>1, <3>2
  <2>5. entry' = e
    BY <1>2, <1>6, <2>1
  <2>6. AsksForNow(entry)'
    BY <1>2, <1>5, <1>6, <2>2, <2>3, <2>4, <2>5 DEF AsksForNow
  <2>7. LookTypes' /\ EntryIsOfNow'
    BY <1>2, <1>4, <2>2, <2>5, <2>6 DEF LookInv, LookTypes, EntryIsOfNow
  <2>8. IsOfNow' /\ ReadsAreNumbered' /\ JoinedIsOfNow'
    BY <1>2, <1>3, <1>4 DEF LookInv, LookTypes, IsOfNow, ReadsAreNumbered, JoinedIsOfNow, NoEarlier
  <2>. QED  BY <2>7, <2>8 DEF LookInv
<1>7. CASE ~(entry # NoEntry /\ entry.waits = r.id)
  <2>1. entry' = entry
    BY <1>2, <1>7
  <2>2. entry # NoEntry => AsksForNow(entry)'
    BY <1>2, <1>5, <2>1 DEF AsksForNow, NoEarlier
  <2>3. LookTypes' /\ EntryIsOfNow'
    BY <1>2, <1>4, <2>1, <2>2 DEF LookInv, LookTypes, EntryIsOfNow
  <2>4. IsOfNow' /\ ReadsAreNumbered' /\ JoinedIsOfNow'
    BY <1>2, <1>3, <1>4 DEF LookInv, LookTypes, IsOfNow, ReadsAreNumbered, JoinedIsOfNow, NoEarlier
  <2>. QED  BY <2>3, <2>4 DEF LookInv
<1>. QED  BY <1>6, <1>7

LEMMA HearLooks ==
  ASSUME LookInv, Looks!Hear
  PROVE  LookInv'
<1>1. CASE entry # NoEntry /\ entry.src = icon
  BY <1>1, AsideLooks DEF Looks!Hear, Looks!Want, Looks!iconVars
<1>2. CASE ~(entry # NoEntry /\ entry.src = icon)
  <2>1. PICK e : e = Looks!Asking(icon, stamp)
    OBVIOUS
  <2>2. Looks!NoAnswer \in AnyResult
    BY DEF Looks!NoAnswer, Looks!Result, AnyResult
  <2>3. e \in AnyEntry /\ e.since = stamp /\ e.waits = 0 /\ e.url = Looks!NoAnswer
    <3>1. e.since = stamp /\ e.waits = 0 /\ e.url = Looks!NoAnswer
      BY <2>1, <2>2 DEF Looks!Asking, AnyEntry, LookInv, LookTypes
    <3>2. e \in AnyEntry
      BY <2>1, <2>2 DEF Looks!Asking, AnyEntry, States, LookInv, LookTypes
    <3>. QED  BY <3>1, <3>2
  <2>4. AsksForNow(e)
    BY <2>3 DEF AsksForNow, LookInv, LookTypes
  <2>. QED  BY <1>2, <2>1, <2>3, <2>4, EntryLooks DEF Looks!Hear, Looks!Want, Looks!iconVars
<1>. QED  BY <1>1, <1>2

\* What is kept answers at once.
LEMMA AnsweredLooks ==
  ASSUME LookInv, entry # NoEntry, NEW result \in AnyResult, result.stamp = stamp,
         entry' = [entry EXCEPT !.waits = -1, !.answer = result],
         UNCHANGED <<icon, stamp, found, pending, iconReads, lastRead>>
  PROVE  LookInv'
<1>1. PICK e : e = [entry EXCEPT !.waits = -1, !.answer = result]
  OBVIOUS
<1>2. entry \in AnyEntry /\ AsksForNow(entry)
  BY DEF LookInv, LookTypes, EntryIsOfNow
<1>3. e \in AnyEntry /\ e.waits = -1 /\ e.answer = result /\ e.since = entry.since /\ e.url = entry.url
  <2>1. e.waits = -1 /\ e.answer = result /\ e.since = entry.since /\ e.url = entry.url
    BY <1>1, <1>2 DEF AnyEntry
  <2>2. e \in AnyEntry
    BY <1>1, <1>2, -1 \in Int, EntryTyped DEF States
  <2>. QED  BY <2>1, <2>2
<1>4. AsksForNow(e)
  BY <1>2, <1>3 DEF AsksForNow, LookInv, LookTypes
<1>. QED  BY <1>1, <1>3, <1>4, EntryLooks

LEMMA ServeLooks ==
  ASSUME LookInv, Looks!Serve
  PROVE  LookInv'
<1>1. entry # NoEntry /\ UNCHANGED <<icon, stamp, found>>
  BY DEF Looks!Serve
<1>2. entry \in AnyEntry /\ AsksForNow(entry)
  BY <1>1 DEF LookInv, LookTypes, EntryIsOfNow
<1>3. CASE icon # NoIcon /\ entry' = [entry EXCEPT !.waits = -1, !.answer = Looks!Result("found", icon)] /\ UNCHANGED <<pending, iconReads, lastRead>>
  <2>1. PICK result : result = Looks!Result("found", icon)
    OBVIOUS
  <2>2. result \in AnyResult /\ result.stamp = stamp
    BY <1>3, <2>1 DEF Looks!Result, AnyResult, LookInv, LookTypes, IsOfNow
  <2>. QED  BY <1>1, <1>3, <2>1, <2>2, AnsweredLooks
<1>4. CASE found # NoIcon /\ entry' = [entry EXCEPT !.waits = -1, !.answer = found] /\ UNCHANGED <<pending, iconReads, lastRead>>
  <2>1. found \in AnyResult /\ found.stamp = stamp
    BY <1>4 DEF LookInv, LookTypes, IsOfNow
  <2>. QED  BY <1>1, <1>4, <2>1, AnsweredLooks
<1>5. CASE pending # 0 /\ entry' = [entry EXCEPT !.waits = pending] /\ UNCHANGED <<pending, iconReads, lastRead>>
  <2>1. PICK e : e = [entry EXCEPT !.waits = pending]
    OBVIOUS
  <2>2. e \in AnyEntry /\ e.waits = pending /\ e.since = entry.since /\ e.url = entry.url /\ e.since \in Nat
    <3>1. e.waits = pending /\ e.since = entry.since /\ e.url = entry.url /\ e.since \in Nat
      BY <1>2, <2>1 DEF AnyEntry, LookInv, LookTypes
    <3>2. e \in AnyEntry
      BY <1>2, <2>1 DEF AnyEntry, LookInv, LookTypes
    <3>. QED  BY <3>1, <3>2
  <2>3. NoEarlier(pending, e.since)
    BY <1>2, <1>5, <2>2 DEF AsksForNow, NoEarlier, LookInv, LookTypes, AnyReading, JoinedIsOfNow
  <2>4. AsksForNow(e)
    BY <1>2, <2>2, <2>3 DEF AsksForNow, LookInv, LookTypes, ReadsAreNumbered
  <2>. QED  BY <1>1, <1>5, <2>1, <2>2, <2>4, EntryLooks
<1>6. CASE /\ pending = 0 /\ lastRead' = lastRead + 1 /\ pending' = lastRead + 1
           /\ iconReads' = iconReads \cup {[id |-> lastRead + 1, stamp |-> stamp]}
           /\ entry' = [entry EXCEPT !.waits = lastRead + 1]
  <2>1. PICK e : e = [entry EXCEPT !.waits = lastRead + 1]
    OBVIOUS
  <2>2. PICK q : q = [id |-> lastRead + 1, stamp |-> stamp]
    OBVIOUS
  <2>3. stamp \in Nat /\ lastRead \in Nat
    BY DEF LookInv, LookTypes
  <2>4. q \in AnyReading /\ q.id = lastRead + 1 /\ q.stamp = stamp /\ iconReads' = iconReads \cup {q}
    BY <1>6, <2>2, <2>3 DEF AnyReading
  <2>5. e \in AnyEntry /\ e.waits = lastRead + 1 /\ e.since = entry.since /\ e.url = entry.url /\ e.since \in Nat /\ entry' = e
    <3>1. e.waits = lastRead + 1 /\ e.since = entry.since /\ e.url = entry.url /\ e.since \in Nat /\ entry' = e
      BY <1>2, <1>6, <2>1, <2>3 DEF AnyEntry
    <3>2. e \in AnyEntry
      BY <1>2, <1>6, <2>1, <2>3 DEF AnyEntry
    <3>. QED  BY <3>1, <3>2
  <2>6. \A r \in iconReads : r.id \in Nat /\ 0 < r.id /\ r.id <= lastRead
    BY DEF LookInv, LookTypes, AnyReading, ReadsAreNumbered
  <2>7. LookTypes' /\ IsOfNow'
    BY <1>1, <1>6, <2>3, <2>4, <2>5 DEF LookInv, LookTypes, IsOfNow
  <2>8. ReadsAreNumbered' /\ JoinedIsOfNow'
    <3>1. ReadsAreNumbered'
      BY <1>6, <2>3, <2>4, <2>6 DEF ReadsAreNumbered
    <3>2. \A r \in iconReads : r.id # lastRead + 1
      BY <2>3, <2>6
    <3>3. \A r \in iconReads' : r.id = lastRead + 1 => r.stamp >= stamp
      BY <2>3, <2>4, <3>2
    <3>. QED  BY <1>1, <1>6, <3>1, <3>3 DEF JoinedIsOfNow, NoEarlier
  <2>9. NoEarlier(entry.waits, entry.since)'
    BY <1>2, <2>3, <2>4, <2>5, <2>6 DEF NoEarlier, AsksForNow
  <2>10. AsksForNow(entry)'
    BY <1>1, <1>2, <1>6, <2>3, <2>5, <2>9 DEF AsksForNow
  <2>. QED  BY <2>7, <2>8, <2>10 DEF LookInv, EntryIsOfNow
<1>. QED  BY <1>3, <1>4, <1>5, <1>6 DEF Looks!Serve

\* The window waits to ask again, and draws nothing meanwhile.
LEMMA WaitLooks ==
  ASSUME LookInv, entry # NoEntry, entry' = Looks!Wait, UNCHANGED Looks!iconVars
  PROVE  LookInv'
<1>1. PICK e : e = Looks!Wait
  OBVIOUS
<1>2. entry \in AnyEntry /\ AsksForNow(entry)
  BY DEF LookInv, LookTypes, EntryIsOfNow
<1>3. e \in AnyEntry /\ e.waits = 0 /\ e.url = Looks!NoAnswer /\ e.since = entry.since
  <2>1. e.waits = 0 /\ e.url = Looks!NoAnswer /\ e.since = entry.since
    BY <1>1, <1>2 DEF Looks!Wait, AnyEntry, Looks!NoAnswer, Looks!Result, AnyResult
  <2>2. e \in AnyEntry
    <3>1. "failed" \in States /\ 0 \in Int /\ Looks!NoAnswer \in AnyResult
      BY DEF States, Looks!NoAnswer, Looks!Result, AnyResult
    <3>2. [entry EXCEPT !.url = Looks!NoAnswer, !.state = "failed", !.waits = 0, !.answer = Looks!NoAnswer] \in AnyEntry
      BY <1>2, <3>1, EntryTyped
    <3>. QED  BY <1>1, <3>2 DEF Looks!Wait
  <2>. QED  BY <2>1, <2>2
<1>4. AsksForNow(e)
  BY <1>2, <1>3 DEF AsksForNow, LookInv, LookTypes
<1>. QED  BY <1>1, <1>3, <1>4, EntryLooks DEF Looks!iconVars

LEMMA LoadLooks ==
  ASSUME LookInv, Looks!Load
  PROVE  LookInv'
<1>1. entry # NoEntry /\ entry.waits = -1 /\ UNCHANGED Looks!iconVars
  BY DEF Looks!Load
<1>2. entry \in AnyEntry /\ AsksForNow(entry)
  BY <1>1 DEF LookInv, LookTypes, EntryIsOfNow
<1>3. Looks!NoAnswer \in AnyResult
  BY DEF Looks!NoAnswer, Looks!Result, AnyResult
<1>4. CASE entry' = Looks!Wait
  BY <1>1, <1>4, WaitLooks
<1>5. CASE entry' = [entry EXCEPT !.state = "done", !.waits = 0, !.answer = Looks!NoAnswer]
  <2>1. PICK e : e = [entry EXCEPT !.state = "done", !.waits = 0, !.answer = Looks!NoAnswer]
    OBVIOUS
  <2>2. e \in AnyEntry /\ e.waits = 0 /\ e.url = entry.url /\ e.since = entry.since
    <3>1. e.waits = 0 /\ e.url = entry.url /\ e.since = entry.since
      BY <1>2, <1>3, <2>1 DEF AnyEntry
    <3>2. e \in AnyEntry
      <4>1. "done" \in States /\ 0 \in Int /\ entry.answer \in AnyResult
        BY <1>2 DEF States, AnyEntry
      <4>. QED  BY <1>2, <1>3, <2>1, <4>1, EntryTyped
    <3>. QED  BY <3>1, <3>2
  <2>3. AsksForNow(e)
    BY <1>2, <2>2 DEF AsksForNow, LookInv, LookTypes
  <2>. QED  BY <1>1, <1>5, <2>1, <2>2, <2>3, EntryLooks DEF Looks!iconVars
<1>6. CASE entry' = [entry EXCEPT !.url = entry.answer, !.state = "done", !.waits = 0, !.answer = Looks!NoAnswer]
  <2>1. PICK e : e = [entry EXCEPT !.url = entry.answer, !.state = "done", !.waits = 0, !.answer = Looks!NoAnswer]
    OBVIOUS
  <2>2. e \in AnyEntry /\ e.waits = 0 /\ e.url = entry.answer /\ e.since = entry.since
    <3>1. e.waits = 0 /\ e.url = entry.answer /\ e.since = entry.since
      BY <1>2, <1>3, <2>1 DEF AnyEntry
    <3>2. e \in AnyEntry
      <4>1. "done" \in States /\ 0 \in Int /\ entry.answer \in AnyResult
        BY <1>2 DEF States, AnyEntry
      <4>. QED  BY <1>2, <1>3, <2>1, <4>1, EntryTyped
    <3>. QED  BY <3>1, <3>2
  <2>3. AsksForNow(e)
    BY <1>1, <1>2, <2>2 DEF AsksForNow, LookInv, LookTypes
  <2>. QED  BY <1>1, <1>6, <2>1, <2>2, <2>3, EntryLooks DEF Looks!iconVars
<1>. QED  BY <1>4, <1>5, <1>6 DEF Looks!Load

LEMMA RetryLooks ==
  ASSUME LookInv, Looks!Retry
  PROVE  LookInv'
<1>1. PICK e : e = [entry EXCEPT !.state = "asking"]
  OBVIOUS
<1>2. entry \in AnyEntry /\ AsksForNow(entry)
  BY DEF Looks!Retry, LookInv, LookTypes, EntryIsOfNow
<1>3. e \in AnyEntry /\ e.waits = entry.waits /\ e.url = entry.url /\ e.since = entry.since /\ e.answer = entry.answer
  <2>1. e.waits = entry.waits /\ e.url = entry.url /\ e.since = entry.since /\ e.answer = entry.answer
    BY <1>1, <1>2 DEF AnyEntry
  <2>2. e \in AnyEntry
    BY <1>1, <1>2 DEF AnyEntry, States
  <2>. QED  BY <2>1, <2>2
<1>4. AsksForNow(e)
  BY <1>2, <1>3 DEF AsksForNow
<1>. QED  BY <1>1, <1>3, <1>4, EntryLooks DEF Looks!Retry, Looks!iconVars

LEMMA LookStep ==
  ASSUME LookInv, [Looks!LooksNext]_(Looks!looksVars)
  PROVE  LookInv'
<1>1. ASSUME NEW p \in Projects, Looks!Reset(p) \/ \E hue \in Picked \cup {NoColour} : Looks!Pick(p, hue)  PROVE LookInv'
  BY <1>1, AsideLooks DEF Looks!Reset, Looks!Pick, Looks!iconVars, Looks!windowVars
<1>2. CASE Looks!Save \/ Looks!SetColour
  BY <1>2, AsideLooks DEF Looks!Save, Looks!SetColour, Looks!iconVars, Looks!windowVars
<1>3. ASSUME NEW upload, Looks!Upload(upload)  PROVE LookInv'
  <2>1. CASE Looks!Accepted(upload)
    BY <1>3, <2>1, InvalidateLooks DEF Looks!Upload, Looks!windowVars
  <2>2. CASE ~Looks!Accepted(upload)
    BY <1>3, <2>2, AsideLooks DEF Looks!Upload, Looks!windowVars
  <2>. QED  BY <2>1, <2>2
<1>4. ASSUME NEW forgets, Looks!Clear(forgets)  PROVE LookInv'
  BY <1>4, InvalidateLooks DEF Looks!Clear, Looks!windowVars
<1>5. CASE Looks!FilesChange
  BY <1>5, AsideLooks DEF Looks!FilesChange, Looks!windowVars
<1>6. CASE Looks!Expire
  BY <1>6, ExpireLooks
<1>7. ASSUME NEW r \in iconReads, Looks!EndRead(r)  PROVE LookInv'
  BY <1>7, EndReadLooks
<1>8. CASE Looks!Hear
  BY <1>8, HearLooks
<1>9. CASE Looks!Serve
  BY <1>9, ServeLooks
<1>10. CASE Looks!Load
  BY <1>10, LoadLooks
<1>11. CASE Looks!Retry
  BY <1>11, RetryLooks
<1>12. CASE Looks!Drawn
  <2>1. CASE entry' = entry
    BY <1>12, <2>1, AsideLooks DEF Looks!Drawn, Looks!iconVars
  <2>2. CASE entry' = Looks!Wait
    BY <1>12, <2>2, WaitLooks DEF Looks!Drawn
  <2>. QED  BY <1>12, <2>1, <2>2 DEF Looks!Drawn
<1>13. CASE UNCHANGED Looks!looksVars
  BY <1>13, AsideLooks DEF Looks!looksVars, Looks!iconVars, Looks!windowVars
<1>. QED  BY <1>1, <1>2, <1>3, <1>4, <1>5, <1>6, <1>7, <1>8, <1>9, <1>10, <1>11, <1>12, <1>13 DEF Looks!LooksNext

\* Once the window has heard that the icon was uploaded, cleared or forgotten, it draws neither an upload nor a favicon from
\* before: a read of the files under way then is not joined, kept or drawn (project-icons.ts; icon-loader.ts).
THEOREM DrawsIconsOfNow == Looks!LooksSpec => []Looks!DrawsNoEarlierIcon
<1>1. Looks!LooksInit => LookInv
  BY DEF Looks!LooksInit, LookInv, LookTypes, IsOfNow, ReadsAreNumbered, JoinedIsOfNow, EntryIsOfNow
<1>2. LookInv => Looks!DrawsNoEarlierIcon
  BY DEF LookInv, EntryIsOfNow, AsksForNow, Looks!DrawsNoEarlierIcon
<1>. QED  BY <1>1, <1>2, LookStep, PTL DEF Looks!LooksSpec

-----------------------------------------------------------------------------
(***************************************************************************)
(* HostScan: a scan of a machine that stands still is what it is taken for.*)
(***************************************************************************)
CONSTANTS Pids, Inodes, Port, Programs, Containers, MaxRange, Paths, Platforms, MaxStarts

VARIABLES platform, alive, scanStarts, scanFaults, were, boot, scan

Scanning == INSTANCE HostScan WITH Place <- EnvPlace, procs <- alive, starts <- scanStarts, faults <- scanFaults

ScanFields == {"stage", "inodes", "pids", "held", "cwd", "id", "failed", "listeners", "since"}
Stages == {"idle", "table", "pids", "fds", "cwds", "identify", "docker", "done"}
Runs(p) == p.kind \in {"user", "bb"} /\ p.inodes \subseteq Inodes /\ p.cwd # NoPath
Running ==
  /\ alive \subseteq were /\ IsFiniteSet(were) /\ \A p \in were : Runs(p)
  /\ \A p, q \in alive : p.pid = q.pid => p = q
  /\ scanStarts \in Nat /\ scanFaults \in Nat
  /\ DOMAIN scan = ScanFields /\ scan.stage \in Stages /\ scan.since \in Nat /\ scan.since <= scanStarts
  /\ platform \in {"linux", "darwin", "win32"}
  /\ boot \in {"unread", "read", "lost"} /\ (boot = "lost" => scanFaults > 0)

\* Nothing started, ended or failed since the scan began, and no socket has two holders.
StoodStill ==
  /\ were = alive /\ scan.since = scanStarts /\ scanFaults = 0
  /\ \A p \in alive : p.readable
  /\ \A i \in Inodes : ~Scanning!Shared(i)

Opened == UNION {p.inodes : p \in alive}
HeldBy(p) == {[inode |-> i, pid |-> p.pid] : i \in p.inodes}
AllPairs == UNION {HeldBy(p) : p \in alive}
ListenersOf(p) ==
  {[port |-> Port[i], pid |-> p.pid, startedAt |-> p.startedAt, path |-> Scanning!MatchWorkspace(p.cwd, Paths), owner |-> Scanning!OwnerOf(p)] : i \in p.inodes}
UserListeners == UNION {ListenersOf(p) : p \in {q \in alive : q.kind = "user" /\ Scanning!MatchWorkspace(q.cwd, Paths) # NoPath}}

\* What each stage has read of a machine that stood still.
NothingFound == scan.cwd = <<>> /\ scan.id = <<>> /\ scan.listeners = {}
CwdsAreTheirs == \A p \in alive : p.pid \in DOMAIN scan.cwd => scan.cwd[p.pid] = p.cwd
IsIdentity(r, p) ==
  /\ DOMAIN r = DOMAIN Scanning!Gone
  /\ r.gone <=> p.kind = "bb"
  /\ ~r.gone => r.startedAt = p.startedAt /\ (r.owned => r.owner = Scanning!OwnerOf(p))
FdsFound ==
  /\ scan.inodes = Opened /\ scan.held \subseteq AllPairs
  /\ \A p \in alive : p.pid \in scan.pids \/ HeldBy(p) \subseteq scan.held
IdentitiesFound ==
  /\ Scanning!PidsHeld \subseteq DOMAIN scan.cwd /\ scan.pids = {pid \in Scanning!PidsHeld : Scanning!Inside(pid)}
  /\ DOMAIN scan.id \subseteq scan.pids
  /\ \A p \in alive : p.pid \in DOMAIN scan.id => IsIdentity(scan.id[p.pid], p)
StageFound ==
  /\ scan.stage = "table" => scan.held = {} /\ NothingFound
  /\ scan.stage = "pids" => scan.inodes = Opened /\ scan.held = {} /\ NothingFound
  /\ scan.stage = "fds" => FdsFound /\ NothingFound
  /\ scan.stage = "cwds" => scan.held = AllPairs /\ CwdsAreTheirs /\ scan.id = <<>> /\ scan.listeners = {}
  /\ scan.stage = "identify" => scan.held = AllPairs /\ CwdsAreTheirs /\ IdentitiesFound /\ scan.listeners = {}
  /\ scan.stage = "docker" => scan.listeners = UserListeners
  /\ scan.stage = "done" /\ ~scan.failed => scan.listeners = UserListeners \cup Scanning!DockerOnly(UserListeners, Scanning!Published)
FoundInv == Running /\ (StoodStill => StageFound)

-----------------------------------------------------------------------------
LEMMA ScanCounts ==
  ASSUME NEW S  PROVE Scanning!Cardinality(S) = Cardinality(S)
BY DEF Scanning!Cardinality, Cardinality

\* A socket that is not shared has one holder.
LEMMA OneHolder ==
  ASSUME Running, StoodStill, NEW p \in alive, NEW q \in alive, NEW i \in p.inodes, i \in q.inodes
  PROVE  p = q
<1>. DEFINE S == {r \in were : i \in r.inodes}
<1>1. IsFiniteSet(S) /\ p \in S /\ q \in S
  BY FS_Subset DEF Running
<1>2. Cardinality({p}) = 1 /\ IsFiniteSet({p})
  BY FS_Singleton
<1>3. Cardinality(S) \in Nat /\ Cardinality({p}) <= Cardinality(S)
  BY <1>1, FS_Subset, FS_CardinalityType
<1>4. ~(Cardinality(S) > 1)
  <2>1. i \in Inodes
    BY DEF Running, Runs
  <2>. QED  BY <2>1, ScanCounts DEF StoodStill, Scanning!Shared
<1>5. Cardinality(S) = Cardinality({p})
  BY <1>2, <1>3, <1>4
<1>6. S = {p}
  BY <1>1, <1>5, FS_Subset
<1>. QED  BY <1>1, <1>6

\* A pid is one process's.
LEMMA OneProcess ==
  ASSUME Running, NEW p \in alive
  PROVE  Scanning!WithPid(p.pid) = {p} /\ (p.readable => Scanning!ReadableWith(p.pid) = {p})
BY DEF Running, Scanning!WithPid, Scanning!ReadableWith

LEMMA SameSets ==
  ASSUME UNCHANGED alive
  PROVE  Opened' = Opened /\ AllPairs' = AllPairs /\ UserListeners' = UserListeners
BY DEF Opened, AllPairs, UserListeners

\* A machine that has stood still by the end of a step of the scan had before it.
LEMMA StoodBefore ==
  ASSUME Running, UNCHANGED <<alive, were, scanStarts>>, scan'.since = scan.since, scanFaults' \in Nat, scanFaults' >= scanFaults, StoodStill'
  PROVE  StoodStill /\ scanFaults' = 0
BY DEF Running, StoodStill, Scanning!Shared

LEMMA ScanRuns ==
  ASSUME Running, UNCHANGED <<platform, alive, were, scanStarts>>, scanFaults' \in Nat,
         boot' \in {"unread", "read", "lost"}, boot' = "lost" => scanFaults' > 0,
         DOMAIN scan' = ScanFields, scan'.stage \in Stages, scan'.since \in {0, scan.since, scanStarts}
  PROVE  Running'
BY DEF Running, Runs

LEMMA SpawnFinds ==
  ASSUME Scanning!ScanAssumption, FoundInv, Scanning!Spawn
  PROVE  FoundInv'
<1>1. PICK program \in Programs, pid \in Pids \ {p.pid : p \in alive} :
        LET p == [pid |-> pid, startedAt |-> scanStarts', inodes |-> program.inodes, cwd |-> program.cwd,
                  names |-> program.names, kind |-> program.kind, readable |-> program.readable]
        IN alive' = alive \cup {p} /\ were' = were \cup {p}
  BY DEF Scanning!Spawn
<1>2. PICK p : p = [pid |-> pid, startedAt |-> scanStarts', inodes |-> program.inodes, cwd |-> program.cwd,
                    names |-> program.names, kind |-> program.kind, readable |-> program.readable]
  OBVIOUS
<1>9. /\ alive' = alive \cup {p} /\ were' = were \cup {p} /\ p.pid = pid
      /\ p.inodes = program.inodes /\ p.cwd = program.cwd /\ p.kind = program.kind
  BY <1>1, <1>2
<1>3. scanStarts' = scanStarts + 1 /\ UNCHANGED <<platform, scanFaults, boot, scan>>
  BY DEF Scanning!Spawn
<1>4. Runs(p)
  BY <1>9 DEF Runs, Scanning!ScanAssumption
<1>5. IsFiniteSet(were')
  BY <1>9, FS_AddElement DEF FoundInv, Running
<1>6. \A q, r \in alive' : q.pid = r.pid => q = r
  BY <1>1, <1>9 DEF FoundInv, Running
<1>7. Running'
  BY <1>9, <1>3, <1>4, <1>5, <1>6 DEF FoundInv, Running, Runs
<1>8. ~StoodStill'
  BY <1>3 DEF FoundInv, Running, StoodStill
<1>. QED  BY <1>7, <1>8 DEF FoundInv

LEMMA ExitFinds ==
  ASSUME FoundInv, NEW p \in alive, Scanning!Exit(p)
  PROVE  FoundInv'
<1>1. alive' = alive \ {p} /\ UNCHANGED <<platform, scanStarts, scanFaults, were, boot, scan>>
  BY DEF Scanning!Exit
<1>2. Running'
  BY <1>1 DEF FoundInv, Running, Runs
<1>3. ~StoodStill'
  BY <1>1 DEF FoundInv, Running, StoodStill
<1>. QED  BY <1>2, <1>3 DEF FoundInv

LEMMA BeginFinds ==
  ASSUME Paths # {}, FoundInv, Scanning!Begin
  PROVE  FoundInv'
<1>1. were' = alive /\ UNCHANGED <<platform, alive, scanStarts, scanFaults, boot>>
  BY DEF Scanning!Begin
<1>2. \/ /\ scan'.stage = "done" /\ scan'.failed = TRUE /\ scan'.since = 0
      \/ /\ scan'.stage = "table" /\ scan'.since = scanStarts /\ scan'.held = {} /\ NothingFound'
  BY DEF Scanning!Begin, Scanning!NoScan, NothingFound
<1>3. DOMAIN scan' = ScanFields
  BY DEF Scanning!Begin, Scanning!NoScan, ScanFields
<1>4. IsFiniteSet(alive)
  BY FS_Subset DEF FoundInv, Running
<1>5. Running'
  BY <1>1, <1>2, <1>3, <1>4 DEF FoundInv, Running, Runs, Stages
<1>6. StageFound'
  BY <1>2 DEF StageFound
<1>. QED  BY <1>5, <1>6 DEF FoundInv

LEMMA FailFinds ==
  ASSUME FoundInv, Scanning!Fail
  PROVE  FoundInv'
<1>1. scan'.stage = "done" /\ scan'.since = 0 /\ DOMAIN scan' = ScanFields
  BY DEF Scanning!Fail, Scanning!Goes, Scanning!NoScan, ScanFields
<1>2. scanFaults' > 0 /\ scanFaults' \in Nat /\ UNCHANGED <<platform, alive, were, scanStarts, boot>>
  BY DEF Scanning!Fail, Scanning!Goes, FoundInv, Running
<1>3. Running'
  <2>1. scan'.stage \in Stages
    BY <1>1 DEF Stages
  <2>2. boot' \in {"unread", "read", "lost"} /\ (boot' = "lost" => scanFaults' > 0)
    BY <1>2 DEF FoundInv, Running
  <2>. QED  BY <1>1, <1>2, <2>1, <2>2, ScanRuns DEF FoundInv
<1>4. ~StoodStill'
  BY <1>2 DEF StoodStill
<1>. QED  BY <1>3, <1>4 DEF FoundInv

\* A step that reads goes on as it should if, on a machine that stood still, it finds what is there.
LEMMA GoesFinds ==
  ASSUME FoundInv, NEW next, Scanning!Goes(next), scanFaults' = scanFaults, DOMAIN next = ScanFields, next.stage \in Stages,
         next.since = scan.since, StoodStill => StageFound'
  PROVE  FoundInv'
<1>1. scan' = next /\ UNCHANGED <<platform, alive, scanStarts, were, boot>>
  BY DEF Scanning!Goes
<1>2. Running'
  BY <1>1, ScanRuns DEF FoundInv, Running
<1>3. StoodStill' => StoodStill
  BY <1>1, StoodBefore DEF FoundInv, Running
<1>. QED  BY <1>2, <1>3 DEF FoundInv

LEMMA TableFinds ==
  ASSUME FoundInv, Scanning!ReadTable
  PROVE  FoundInv'
<1>1. CASE platform = "darwin"
  <2>. DEFINE pairs == UNION {{[inode |-> i, pid |-> p.pid] : i \in p.inodes} : p \in {q \in alive : q.readable}}
              next == [scan EXCEPT !.stage = "cwds", !.held = pairs]
  <2>1. Scanning!Goes(next)
    BY <1>1 DEF Scanning!ReadTable
  <2>2. /\ DOMAIN next = ScanFields /\ next.stage = "cwds" /\ next.since = scan.since /\ next.held = pairs
        /\ next.cwd = scan.cwd /\ next.id = scan.id /\ next.listeners = scan.listeners
    BY DEF FoundInv, Running, ScanFields
  <2>3. ASSUME StoodStill  PROVE StageFound'
    <3>1. NothingFound
      BY <2>3 DEF FoundInv, StageFound, Scanning!ReadTable
    <3>2. pairs = AllPairs
      BY <2>3 DEF StoodStill, AllPairs, HeldBy
    <3>3. scan' = next /\ AllPairs' = AllPairs
      BY <2>1, SameSets DEF Scanning!Goes
    <3>4. CwdsAreTheirs'
      BY <2>2, <3>1, <3>3 DEF CwdsAreTheirs, NothingFound
    <3>. QED  BY <2>2, <3>1, <3>2, <3>3, <3>4 DEF StageFound, NothingFound
  <2>. QED  BY <2>1, <2>2, <2>3, GoesFinds DEF Scanning!ReadTable, Stages
<1>2. CASE platform # "darwin"
  <2>. DEFINE next == [scan EXCEPT !.stage = IF Opened = {} THEN "docker" ELSE "pids", !.inodes = Opened]
  <2>1. Scanning!Goes(next)
    BY <1>2 DEF Scanning!ReadTable, Opened
  <2>2. /\ DOMAIN next = ScanFields /\ next.stage = (IF Opened = {} THEN "docker" ELSE "pids") /\ next.since = scan.since
        /\ next.held = scan.held /\ next.inodes = Opened
        /\ next.cwd = scan.cwd /\ next.id = scan.id /\ next.listeners = scan.listeners
    BY DEF FoundInv, Running, ScanFields
  <2>3. ASSUME StoodStill  PROVE StageFound'
    <3>1. NothingFound /\ scan.held = {}
      BY <2>3 DEF FoundInv, StageFound, Scanning!ReadTable
    <3>2. Opened = {} => UserListeners = {}
      BY DEF Opened, UserListeners, ListenersOf
    <3>3. scan' = next /\ Opened' = Opened /\ UserListeners' = UserListeners
      BY <2>1, SameSets DEF Scanning!Goes
    <3>4. NothingFound' /\ scan'.held = {} /\ scan'.inodes = Opened'
      BY <2>2, <3>1, <3>3 DEF NothingFound
    <3>5. CASE Opened = {}
      <4>1. scan'.stage = "docker" /\ scan'.listeners = UserListeners'
        BY <2>2, <3>1, <3>2, <3>3, <3>5 DEF NothingFound
      <4>. QED  BY <4>1 DEF StageFound
    <3>6. CASE Opened # {}
      <4>1. scan'.stage = "pids"
        BY <2>2, <3>3, <3>6
      <4>. QED  BY <3>4, <4>1 DEF StageFound
    <3>. QED  BY <3>5, <3>6
  <2>. QED  BY <2>1, <2>2, <2>3, GoesFinds DEF Scanning!ReadTable, Stages
<1>. QED  BY <1>1, <1>2

LEMMA PidsFinds ==
  ASSUME FoundInv, Scanning!ReadPids
  PROVE  FoundInv'
<1>. DEFINE next == [scan EXCEPT !.stage = "fds", !.pids = {p.pid : p \in alive}]
<1>1. Scanning!Goes(next)
  BY DEF Scanning!ReadPids
<1>2. /\ DOMAIN next = ScanFields /\ next.stage = "fds" /\ next.since = scan.since /\ next.pids = {p.pid : p \in alive}
      /\ next.held = scan.held /\ next.inodes = scan.inodes
      /\ next.cwd = scan.cwd /\ next.id = scan.id /\ next.listeners = scan.listeners
  BY DEF FoundInv, Running, ScanFields
<1>3. ASSUME StoodStill  PROVE StageFound'
  <2>1. NothingFound /\ scan.held = {} /\ scan.inodes = Opened
    BY <1>3 DEF FoundInv, StageFound, Scanning!ReadPids
  <2>2. scan' = next /\ Opened' = Opened /\ AllPairs' = AllPairs /\ alive' = alive
    BY <1>1, SameSets DEF Scanning!Goes
  <2>3. FdsFound'
    BY <1>2, <2>1, <2>2 DEF FdsFound
  <2>. QED  BY <1>2, <2>1, <2>2, <2>3 DEF StageFound, NothingFound
<1>. QED  BY <1>1, <1>2, <1>3, GoesFinds DEF Scanning!ReadPids, Stages

LEMMA FdsFinds ==
  ASSUME FoundInv, NEW pid \in Pids, Scanning!ReadFds(pid)
  PROVE  FoundInv'
<1>1. ASSUME NEW more, Scanning!Goes([scan EXCEPT !.pids = @ \ {pid}, !.held = @ \cup more]),
             StoodStill => more \subseteq AllPairs /\ \A p \in alive : p.pid = pid => HeldBy(p) \subseteq scan.held \cup more
      PROVE  FoundInv'
  <2>. DEFINE next == [scan EXCEPT !.pids = @ \ {pid}, !.held = @ \cup more]
  <2>1. /\ DOMAIN next = ScanFields /\ next.stage = "fds" /\ next.since = scan.since /\ next.pids = scan.pids \ {pid}
        /\ next.held = scan.held \cup more /\ next.inodes = scan.inodes
        /\ next.cwd = scan.cwd /\ next.id = scan.id /\ next.listeners = scan.listeners
    BY DEF FoundInv, Running, ScanFields, Scanning!ReadFds
  <2>2. ASSUME StoodStill  PROVE StageFound'
    <3>1. NothingFound /\ FdsFound
      BY <2>2 DEF FoundInv, StageFound, Scanning!ReadFds
    <3>2. scan' = next /\ Opened' = Opened /\ AllPairs' = AllPairs /\ alive' = alive
      BY <1>1, SameSets DEF Scanning!Goes
    <3>3. FdsFound'
      BY <1>1, <2>1, <2>2, <3>1, <3>2 DEF FdsFound
    <3>4. NothingFound'
      BY <2>1, <3>1, <3>2 DEF NothingFound
    <3>. QED  BY <2>1, <3>2, <3>3, <3>4 DEF StageFound
  <2>. QED  BY <1>1, <2>1, <2>2, GoesFinds DEF Scanning!ReadFds, Stages
<1>2. CASE Scanning!Goes([scan EXCEPT !.pids = @ \ {pid},
                             !.held = @ \cup UNION {{[inode |-> i, pid |-> pid] : i \in p.inodes \cap scan.inodes} : p \in Scanning!ReadableWith(pid)}])
  <2>1. PICK more : more = UNION {{[inode |-> i, pid |-> pid] : i \in p.inodes \cap scan.inodes} : p \in Scanning!ReadableWith(pid)}
    OBVIOUS
  <2>2. ASSUME StoodStill
        PROVE  more \subseteq AllPairs /\ \A p \in alive : p.pid = pid => HeldBy(p) \subseteq scan.held \cup more
    <3>1. more \subseteq AllPairs
      BY <2>1 DEF AllPairs, HeldBy, Scanning!ReadableWith, Scanning!WithPid
    <3>2. scan.inodes = Opened
      BY <2>2 DEF FoundInv, StageFound, FdsFound, Scanning!ReadFds
    <3>3. ASSUME NEW p \in alive, p.pid = pid  PROVE HeldBy(p) \subseteq more
      <4>1. p \in Scanning!ReadableWith(pid)
        BY <2>2, <3>3 DEF StoodStill, Scanning!ReadableWith, Scanning!WithPid
      <4>2. p.inodes \cap scan.inodes = p.inodes
        BY <3>2 DEF Opened
      <4>. QED  BY <2>1, <3>3, <4>1, <4>2 DEF HeldBy
    <3>. QED  BY <3>1, <3>3
  <2>. QED  BY <1>1, <1>2, <2>1, <2>2
<1>3. CASE Scanning!AllHeld /\ Scanning!Goes([scan EXCEPT !.pids = @ \ {pid}])
  <2>0. PICK none : none = {}
    OBVIOUS
  <2>1. Scanning!Goes([scan EXCEPT !.pids = @ \ {pid}, !.held = @ \cup none])
    BY <1>3, <2>0 DEF FoundInv, Running, ScanFields
  <2>2. ASSUME StoodStill, NEW p \in alive, NEW i \in p.inodes
        PROVE  [inode |-> i, pid |-> p.pid] \in scan.held
    <3>1. scan.inodes = Opened /\ scan.held \subseteq AllPairs
      BY <2>2 DEF FoundInv, StageFound, FdsFound, Scanning!ReadFds
    <3>2. PICK h \in scan.held : h.inode = i
      <4>1. i \in scan.inodes
        BY <3>1 DEF Opened
      <4>. QED  BY <1>3, <4>1 DEF Scanning!AllHeld
    <3>3. PICK q \in alive : \E j \in q.inodes : h = [inode |-> j, pid |-> q.pid]
      BY <3>1, <3>2 DEF AllPairs, HeldBy
    <3>4. h = [inode |-> i, pid |-> q.pid] /\ i \in q.inodes
      BY <3>2, <3>3
    <3>5. p = q
      BY <2>2, <3>4, OneHolder DEF FoundInv
    <3>. QED  BY <3>2, <3>4, <3>5
  <2>3. StoodStill => \A p \in alive : HeldBy(p) \subseteq scan.held
    BY <2>2 DEF HeldBy
  <2>4. StoodStill => none \subseteq AllPairs /\ \A p \in alive : p.pid = pid => HeldBy(p) \subseteq scan.held \cup none
    BY <2>0, <2>3
  <2>. QED  BY <1>1, <2>1, <2>4
<1>. QED  BY <1>2, <1>3 DEF Scanning!ReadFds

LEMMA HoldersFinds ==
  ASSUME FoundInv, Scanning!FdsRead
  PROVE  FoundInv'
<1>. DEFINE next == [scan EXCEPT !.stage = "cwds"]
<1>1. Scanning!Goes(next)
  BY DEF Scanning!FdsRead
<1>2. /\ DOMAIN next = ScanFields /\ next.stage = "cwds" /\ next.since = scan.since
      /\ next.held = scan.held /\ next.cwd = scan.cwd /\ next.id = scan.id /\ next.listeners = scan.listeners
  BY DEF FoundInv, Running, ScanFields
<1>3. ASSUME StoodStill  PROVE StageFound'
  <2>1. NothingFound /\ FdsFound /\ scan.pids = {}
    BY <1>3 DEF FoundInv, StageFound, Scanning!FdsRead
  <2>2. scan' = next /\ AllPairs' = AllPairs /\ alive' = alive
    BY <1>1, SameSets DEF Scanning!Goes
  <2>3. scan.held = AllPairs
    BY <2>1 DEF FdsFound, AllPairs
  <2>4. CwdsAreTheirs'
    BY <1>2, <2>1, <2>2 DEF CwdsAreTheirs, NothingFound
  <2>. QED  BY <1>2, <2>1, <2>2, <2>3, <2>4 DEF StageFound, NothingFound
<1>. QED  BY <1>1, <1>2, <1>3, GoesFinds DEF Scanning!FdsRead, Stages

LEMMA CwdFinds ==
  ASSUME FoundInv, NEW pid \in Pids, Scanning!ReadCwd(pid)
  PROVE  FoundInv'
<1>. DEFINE read(q) == IF Scanning!ReadableWith(q) = {} THEN NoPath ELSE (CHOOSE p \in Scanning!ReadableWith(q) : TRUE).cwd
            those == IF platform = "darwin" THEN Scanning!PidsHeld ELSE {pid}
            known == [q \in those \cup DOMAIN scan.cwd |-> IF q \in those THEN read(q) ELSE scan.cwd[q]]
            next == [scan EXCEPT !.cwd = known]
<1>1. Scanning!Goes(next)
  BY DEF Scanning!ReadCwd
<1>2. /\ DOMAIN next = ScanFields /\ next.stage = "cwds" /\ next.since = scan.since
      /\ next.held = scan.held /\ next.cwd = known /\ next.id = scan.id /\ next.listeners = scan.listeners
  BY DEF FoundInv, Running, ScanFields, Scanning!ReadCwd
<1>3. ASSUME StoodStill  PROVE StageFound'
  <2>1. scan.held = AllPairs /\ CwdsAreTheirs /\ scan.id = <<>> /\ scan.listeners = {}
    BY <1>3 DEF FoundInv, StageFound, Scanning!ReadCwd
  <2>2. scan' = next /\ AllPairs' = AllPairs /\ alive' = alive
    BY <1>1, SameSets DEF Scanning!Goes
  <2>3. ASSUME NEW p \in alive  PROVE read(p.pid) = p.cwd
    <3>1. Scanning!ReadableWith(p.pid) = {p}
      BY <1>3, OneProcess DEF FoundInv, StoodStill
    <3>. QED  BY <3>1
  <2>4. \A p \in alive : p.pid \in DOMAIN known => known[p.pid] = p.cwd
    BY <2>1, <2>3 DEF CwdsAreTheirs
  <2>5. CwdsAreTheirs'
    BY <1>2, <2>2, <2>4 DEF CwdsAreTheirs
  <2>. QED  BY <1>2, <2>1, <2>2, <2>5 DEF StageFound
<1>. QED  BY <1>1, <1>2, <1>3, GoesFinds DEF Scanning!ReadCwd, Stages

LEMMA PlacesFinds ==
  ASSUME FoundInv, Scanning!CwdsRead
  PROVE  FoundInv'
<1>. DEFINE next == [scan EXCEPT !.stage = "identify", !.pids = {pid \in Scanning!PidsHeld : Scanning!Inside(pid)}]
<1>1. Scanning!Goes(next)
  BY DEF Scanning!CwdsRead
<1>2. /\ DOMAIN next = ScanFields /\ next.stage = "identify" /\ next.since = scan.since /\ next.pids = {pid \in Scanning!PidsHeld : Scanning!Inside(pid)}
      /\ next.held = scan.held /\ next.cwd = scan.cwd /\ next.id = scan.id /\ next.listeners = scan.listeners
  BY DEF FoundInv, Running, ScanFields
<1>3. ASSUME StoodStill  PROVE StageFound'
  <2>1. scan.held = AllPairs /\ CwdsAreTheirs /\ scan.id = <<>> /\ scan.listeners = {} /\ Scanning!PidsHeld \subseteq DOMAIN scan.cwd
    BY <1>3 DEF FoundInv, StageFound, Scanning!CwdsRead
  <2>2. scan' = next /\ AllPairs' = AllPairs /\ alive' = alive
    BY <1>1, SameSets DEF Scanning!Goes
  <2>3. Scanning!PidsHeld' = Scanning!PidsHeld /\ \A pid : Scanning!Inside(pid)' = Scanning!Inside(pid)
    BY <1>2, <2>2 DEF Scanning!PidsHeld, Scanning!Inside
  <2>4. CwdsAreTheirs'
    BY <1>2, <2>1, <2>2 DEF CwdsAreTheirs
  <2>5. IdentitiesFound'
    BY <1>2, <2>1, <2>2, <2>3 DEF IdentitiesFound
  <2>. QED  BY <1>2, <2>1, <2>2, <2>4, <2>5 DEF StageFound
<1>. QED  BY <1>1, <1>2, <1>3, GoesFinds DEF Scanning!CwdsRead, Stages

LEMMA IdentifyFinds ==
  ASSUME FoundInv, NEW pid \in Pids, Scanning!Identify(pid)
  PROVE  FoundInv'
<1>1. PICK b \in {"read", "lost"} :
        /\ boot # "unread" => b = boot
        /\ boot' = b /\ scanFaults' = scanFaults + IF boot = "unread" /\ b = "lost" THEN 1 ELSE 0
        /\ platform = "darwin" => b = "read"
        /\ scan' = [scan EXCEPT !.id = [q \in {pid} \cup DOMAIN scan.id |->
             IF q # pid THEN scan.id[q]
             ELSE IF b = "lost" \/ Scanning!WithPid(pid) = {} THEN Scanning!Gone
             ELSE LET p == CHOOSE p \in Scanning!WithPid(pid) : TRUE
                  IN IF p.kind = "bb" THEN Scanning!Gone
                     ELSE [gone |-> FALSE, startedAt |-> p.startedAt, owned |-> FALSE, owner |-> NoThread]]]
  BY DEF Scanning!Identify
<1>2. PICK new : new = (IF b = "lost" \/ Scanning!WithPid(pid) = {} THEN Scanning!Gone
                        ELSE LET p == CHOOSE p \in Scanning!WithPid(pid) : TRUE
                             IN IF p.kind = "bb" THEN Scanning!Gone
                                ELSE [gone |-> FALSE, startedAt |-> p.startedAt, owned |-> FALSE, owner |-> NoThread])
  OBVIOUS
<1>3. scan' = [scan EXCEPT !.id = [q \in {pid} \cup DOMAIN scan.id |-> IF q # pid THEN scan.id[q] ELSE new]]
  BY <1>1, <1>2
<1>4. /\ DOMAIN scan' = ScanFields /\ scan'.stage = "identify" /\ scan'.since = scan.since /\ scan'.pids = scan.pids
      /\ scan'.held = scan.held /\ scan'.cwd = scan.cwd /\ scan'.listeners = scan.listeners
      /\ scan'.id = [q \in {pid} \cup DOMAIN scan.id |-> IF q # pid THEN scan.id[q] ELSE new]
  BY <1>3 DEF FoundInv, Running, ScanFields, Scanning!Identify
<1>5. /\ UNCHANGED <<platform, alive, scanStarts, were>> /\ scanFaults' \in Nat /\ scanFaults' >= scanFaults
      /\ boot' \in {"unread", "read", "lost"} /\ (boot' = "lost" => scanFaults' > 0)
  BY <1>1 DEF FoundInv, Running, Scanning!Identify
<1>6. Running'
  BY <1>4, <1>5, ScanRuns DEF FoundInv, Stages
<1>7. ASSUME StoodStill'  PROVE StageFound'
  <2>1. StoodStill /\ scanFaults' = 0
    BY <1>4, <1>5, <1>7, StoodBefore DEF FoundInv
  <2>2. scan.held = AllPairs /\ CwdsAreTheirs /\ IdentitiesFound /\ scan.listeners = {} /\ pid \in scan.pids
    BY <2>1 DEF FoundInv, StageFound, Scanning!Identify
  <2>3. b # "lost"
    BY <1>1, <1>5, <2>1
  <2>4. PICK p \in alive : p.pid = pid
    BY <2>2 DEF IdentitiesFound, Scanning!PidsHeld, AllPairs, HeldBy
  <2>5. Scanning!WithPid(pid) = {p}
    BY <2>4, OneProcess DEF FoundInv
  <2>6. new = IF p.kind = "bb" THEN Scanning!Gone ELSE [gone |-> FALSE, startedAt |-> p.startedAt, owned |-> FALSE, owner |-> NoThread]
    BY <1>2, <2>3, <2>5
  <2>7. IsIdentity(new, p)
    BY <2>6 DEF IsIdentity, Scanning!Gone
  <2>8. \A q \in alive : q.pid \in DOMAIN scan'.id => IsIdentity(scan'.id[q.pid], q)
    BY <1>4, <2>2, <2>4, <2>7 DEF IdentitiesFound, FoundInv, Running
  <2>9. Scanning!PidsHeld' = Scanning!PidsHeld /\ \A q : Scanning!Inside(q)' = Scanning!Inside(q)
    BY <1>4 DEF Scanning!PidsHeld, Scanning!Inside
  <2>10. AllPairs' = AllPairs /\ alive' = alive
    BY <1>5, SameSets
  <2>11. CwdsAreTheirs'
    BY <1>4, <2>2, <2>10 DEF CwdsAreTheirs
  <2>12. IdentitiesFound'
    <3>1. DOMAIN scan'.id \subseteq scan'.pids
      BY <1>4, <2>2 DEF IdentitiesFound
    <3>. QED  BY <1>4, <2>2, <2>8, <2>9, <2>10, <3>1 DEF IdentitiesFound, IsIdentity
  <2>. QED  BY <1>4, <2>2, <2>10, <2>11, <2>12 DEF StageFound
<1>. QED  BY <1>6, <1>7 DEF FoundInv

LEMMA OwnerFinds ==
  ASSUME FoundInv, NEW pid \in Pids, Scanning!ReadOwner(pid)
  PROVE  FoundInv'
<1>1. PICK owner : owner = (IF Scanning!ReadableWith(pid) = {} THEN NoThread ELSE Scanning!OwnerOf(CHOOSE p \in Scanning!ReadableWith(pid) : TRUE))
  OBVIOUS
<1>2. PICK new : new = [scan.id[pid] EXCEPT !.owned = TRUE, !.owner = owner]
  OBVIOUS
<1>. DEFINE next == [scan EXCEPT !.id[pid].owned = TRUE, !.id[pid].owner = owner]
<1>3. Scanning!Goes(next) /\ pid \in DOMAIN scan.id /\ ~scan.id[pid].gone /\ scan.stage = "identify"
  BY <1>1 DEF Scanning!ReadOwner
<1>4. /\ DOMAIN next = ScanFields /\ next.stage = "identify" /\ next.since = scan.since /\ next.pids = scan.pids
      /\ next.held = scan.held /\ next.cwd = scan.cwd /\ next.listeners = scan.listeners
      /\ next.id = [scan.id EXCEPT ![pid] = new]
  BY <1>2, <1>3 DEF FoundInv, Running, ScanFields
<1>5. ASSUME StoodStill  PROVE StageFound'
  <2>1. scan.held = AllPairs /\ CwdsAreTheirs /\ IdentitiesFound /\ scan.listeners = {}
    BY <1>3, <1>5 DEF FoundInv, StageFound
  <2>2. scan' = next /\ AllPairs' = AllPairs /\ alive' = alive
    BY <1>3, SameSets DEF Scanning!Goes
  <2>3. PICK p \in alive : p.pid = pid
    BY <1>3, <2>1 DEF IdentitiesFound, Scanning!PidsHeld, AllPairs, HeldBy
  <2>4. owner = Scanning!OwnerOf(p)
    <3>1. Scanning!ReadableWith(pid) = {p}
      BY <1>5, <2>3, OneProcess DEF FoundInv, StoodStill
    <3>. QED  BY <1>1, <3>1
  <2>5. IsIdentity(scan.id[pid], p)
    BY <1>3, <2>1, <2>3 DEF IdentitiesFound
  <2>6. IsIdentity(new, p)
    BY <1>2, <2>4, <2>5 DEF IsIdentity, Scanning!Gone
  <2>7. ASSUME NEW q \in alive, q.pid \in DOMAIN next.id  PROVE IsIdentity(next.id[q.pid], q)
    <3>1. q.pid \in DOMAIN scan.id /\ next.id[q.pid] = IF q.pid = pid THEN new ELSE scan.id[q.pid]
      <4>1. PICK ids : ids = next.id
        OBVIOUS
      <4>2. ids = [scan.id EXCEPT ![pid] = new] /\ q.pid \in DOMAIN ids
        BY <1>4, <2>7, <4>1
      <4>3. q.pid \in DOMAIN scan.id /\ ids[q.pid] = IF q.pid = pid THEN new ELSE scan.id[q.pid]
        BY <4>2
      <4>. QED  BY <4>1, <4>3
    <3>2. q.pid = pid => q = p
      BY <2>3 DEF FoundInv, Running
    <3>. QED  BY <2>1, <2>6, <3>1, <3>2 DEF IdentitiesFound
  <2>8. Scanning!PidsHeld' = Scanning!PidsHeld /\ \A q : Scanning!Inside(q)' = Scanning!Inside(q)
    BY <1>4, <2>2 DEF Scanning!PidsHeld, Scanning!Inside
  <2>9. CwdsAreTheirs'
    BY <1>4, <2>1, <2>2 DEF CwdsAreTheirs
  <2>10. DOMAIN next.id \subseteq next.pids
    BY <1>4, <2>1 DEF IdentitiesFound
  <2>11. IdentitiesFound'
    BY <1>4, <2>1, <2>2, <2>7, <2>8, <2>10 DEF IdentitiesFound, IsIdentity
  <2>. QED  BY <1>4, <2>1, <2>2, <2>9, <2>11 DEF StageFound
<1>6. scanFaults' = scanFaults
  BY DEF Scanning!ReadOwner
<1>. QED  BY <1>3, <1>4, <1>5, <1>6, GoesFinds DEF Stages

\* The sockets of the processes inside, as the scan lists them.
LEMMA ListsUsers ==
  ASSUME FoundInv, StoodStill, scan.stage = "identify", scan.pids \subseteq DOMAIN scan.id,
         \A pid \in scan.pids : scan.id[pid].gone \/ scan.id[pid].owned
  PROVE  Scanning!Listeners = UserListeners
<1>1. scan.held = AllPairs /\ CwdsAreTheirs /\ IdentitiesFound
  BY DEF FoundInv, StageFound
<1>2. ASSUME NEW x \in Scanning!Listeners  PROVE x \in UserListeners
  <2>1. PICK f \in Scanning!Found(scan.held) : /\ f.pid \in DOMAIN scan.id /\ ~scan.id[f.pid].gone
                                      /\ x = [port |-> f.port, pid |-> f.pid, startedAt |-> scan.id[f.pid].startedAt,
                                              path |-> Scanning!MatchWorkspace(scan.cwd[f.pid], Paths), owner |-> scan.id[f.pid].owner]
    BY <1>2 DEF Scanning!Listeners
  <2>0. PICK p \in alive : \E i \in p.inodes : f = [pid |-> p.pid, port |-> Port[i]]
    BY <1>1, <2>1 DEF Scanning!Found, Scanning!Pairs, AllPairs, HeldBy
  <2>2. PICK i \in p.inodes : f = [pid |-> p.pid, port |-> Port[i]]
    BY <2>0
  <2>3. /\ f.pid = p.pid /\ f.port = Port[i] /\ p.pid \in scan.pids /\ IsIdentity(scan.id[p.pid], p)
        /\ scan.cwd[p.pid] = p.cwd /\ Scanning!Inside(p.pid)
    BY <1>1, <2>1, <2>2 DEF IdentitiesFound, CwdsAreTheirs
  <2>4. p.kind = "user" /\ Scanning!MatchWorkspace(p.cwd, Paths) # NoPath
    BY <2>1, <2>3 DEF IsIdentity, Scanning!Inside, FoundInv, Running, Runs
  <2>5. scan.id[p.pid].startedAt = p.startedAt /\ scan.id[p.pid].owner = Scanning!OwnerOf(p)
    BY <2>1, <2>3 DEF IsIdentity
  <2>6. x \in ListenersOf(p)
    BY <2>1, <2>2, <2>3, <2>5 DEF ListenersOf
  <2>. QED  BY <2>4, <2>6 DEF UserListeners
<1>3. ASSUME NEW x \in UserListeners  PROVE x \in Scanning!Listeners
  <2>1. PICK p \in alive : p.kind = "user" /\ Scanning!MatchWorkspace(p.cwd, Paths) # NoPath /\ x \in ListenersOf(p)
    BY <1>3 DEF UserListeners
  <2>2. PICK i \in p.inodes :
          x = [port |-> Port[i], pid |-> p.pid, startedAt |-> p.startedAt, path |-> Scanning!MatchWorkspace(p.cwd, Paths), owner |-> Scanning!OwnerOf(p)]
    BY <2>1 DEF ListenersOf
  <2>3. [inode |-> i, pid |-> p.pid] \in scan.held
    BY <1>1 DEF AllPairs, HeldBy
  <2>4. p.pid \in Scanning!PidsHeld /\ [pid |-> p.pid, port |-> Port[i]] \in Scanning!Found(scan.held)
    BY <2>3 DEF Scanning!PidsHeld, Scanning!Found, Scanning!Pairs
  <2>5. scan.cwd[p.pid] = p.cwd /\ p.cwd # NoPath
    BY <1>1, <2>4 DEF IdentitiesFound, CwdsAreTheirs, FoundInv, Running, Runs
  <2>6. p.pid \in scan.pids
    BY <1>1, <2>1, <2>4, <2>5 DEF IdentitiesFound, Scanning!Inside
  <2>7. IsIdentity(scan.id[p.pid], p) /\ p.pid \in DOMAIN scan.id
    BY <1>1, <2>6 DEF IdentitiesFound
  <2>8. ~scan.id[p.pid].gone /\ scan.id[p.pid].startedAt = p.startedAt /\ scan.id[p.pid].owner = Scanning!OwnerOf(p)
    BY <2>1, <2>6, <2>7 DEF IsIdentity
  <2>9. PICK f : f = [pid |-> p.pid, port |-> Port[i]]
    OBVIOUS
  <2>10. /\ f \in Scanning!Found(scan.held) /\ f.pid \in DOMAIN scan.id /\ ~scan.id[f.pid].gone
         /\ x = [port |-> f.port, pid |-> f.pid, startedAt |-> scan.id[f.pid].startedAt,
                 path |-> Scanning!MatchWorkspace(scan.cwd[f.pid], Paths), owner |-> scan.id[f.pid].owner]
    <3>1. f.pid = p.pid /\ f.port = Port[i]
      BY <2>9
    <3>. QED  BY <2>2, <2>4, <2>5, <2>7, <2>8, <2>9, <3>1
  <2>. QED  BY <2>10 DEF Scanning!Listeners
<1>. QED  BY <1>2, <1>3

LEMMA ListenersFinds ==
  ASSUME FoundInv, Scanning!IdentitiesRead
  PROVE  FoundInv'
<1>. DEFINE next == [scan EXCEPT !.stage = "docker", !.listeners = Scanning!Listeners]
<1>1. Scanning!Goes(next)
  BY DEF Scanning!IdentitiesRead
<1>2. DOMAIN next = ScanFields /\ next.stage = "docker" /\ next.since = scan.since /\ next.listeners = Scanning!Listeners
  BY DEF FoundInv, Running, ScanFields
<1>3. ASSUME StoodStill  PROVE StageFound'
  <2>1. Scanning!Listeners = UserListeners
    BY <1>3, ListsUsers DEF Scanning!IdentitiesRead
  <2>2. scan' = next /\ UserListeners' = UserListeners
    BY <1>1, SameSets DEF Scanning!Goes
  <2>. QED  BY <1>2, <2>1, <2>2 DEF StageFound
<1>. QED  BY <1>1, <1>2, <1>3, GoesFinds DEF Scanning!IdentitiesRead, Stages

LEMMA DockerFinds ==
  ASSUME FoundInv, Scanning!ReadDocker
  PROVE  FoundInv'
<1>1. CASE scanFaults' = scanFaults /\ Scanning!Goes([scan EXCEPT !.stage = "done", !.listeners = @ \cup Scanning!DockerOnly(@, Scanning!Published)])
  <2>. DEFINE next == [scan EXCEPT !.stage = "done", !.listeners = @ \cup Scanning!DockerOnly(@, Scanning!Published)]
  <2>1. /\ DOMAIN next = ScanFields /\ next.stage = "done" /\ next.since = scan.since
        /\ next.listeners = scan.listeners \cup Scanning!DockerOnly(scan.listeners, Scanning!Published)
    BY DEF FoundInv, Running, ScanFields
  <2>2. ASSUME StoodStill  PROVE StageFound'
    <3>1. scan.listeners = UserListeners
      BY <2>2 DEF FoundInv, StageFound, Scanning!ReadDocker
    <3>2. scan' = next /\ alive' = alive /\ UserListeners' = UserListeners
      BY <1>1, SameSets DEF Scanning!Goes
    <3>3. scan'.listeners = UserListeners \cup Scanning!DockerOnly(UserListeners, Scanning!Published)
      BY <2>1, <3>1, <3>2
    <3>4. Scanning!DockerOnly(UserListeners, Scanning!Published)' = Scanning!DockerOnly(UserListeners, Scanning!Published)
      <4>1. PICK U, P : U = UserListeners /\ P = Scanning!Published
        OBVIOUS
      <4>2. UserListeners' = U /\ Scanning!Published' = P
        <5>1. Scanning!Published' = Scanning!Published
          OBVIOUS
        <5>. QED  BY <3>2, <4>1, <5>1
      <4>3. Scanning!DockerOnly(UserListeners, Scanning!Published) = Scanning!DockerOnly(U, P)
        BY <4>1
      <4>4. Scanning!DockerOnly(UserListeners, Scanning!Published)' = Scanning!DockerOnly(U, P)
        <5>1. \A x : x \in Scanning!DockerOnly(UserListeners, Scanning!Published)' <=> x \in Scanning!DockerOnly(U, P)
          BY <4>2 DEF Scanning!DockerOnly
        <5>. QED  BY <5>1 DEF Scanning!DockerOnly
      <4>. QED  BY <4>3, <4>4
    <3>. QED  BY <2>1, <3>2, <3>3, <3>4 DEF StageFound
  <2>. QED  BY <1>1, <2>1, <2>2, GoesFinds DEF Stages
<1>2. CASE scanFaults' = scanFaults + 1 /\ Scanning!Goes([scan EXCEPT !.stage = "done"])
  <2>1. DOMAIN scan' = ScanFields /\ scan'.stage = "done" /\ scan'.since = scan.since
    BY <1>2 DEF Scanning!Goes, FoundInv, Running, ScanFields
  <2>2. scanFaults' > 0 /\ scanFaults' \in Nat /\ UNCHANGED <<platform, alive, were, scanStarts, boot>>
    BY <1>2 DEF Scanning!Goes, FoundInv, Running
  <2>3. scan'.stage \in Stages
    BY <2>1 DEF Stages
  <2>4. Running'
    BY <2>1, <2>2, <2>3, ScanRuns DEF FoundInv, Running
  <2>5. ~StoodStill'
    BY <2>2 DEF StoodStill
  <2>. QED  BY <2>4, <2>5 DEF FoundInv
<1>. QED  BY <1>1, <1>2 DEF Scanning!ReadDocker

LEMMA SameNames ==
  ASSUME NEW a, NEW p, a.names = p.names
  PROVE  Scanning!OwnerOf(a) = Scanning!OwnerOf(p)
BY DEF Scanning!OwnerOf

LEMMA SameProcess ==
  ASSUME NEW p
  PROVE  /\ Scanning!AsProcess(p).pid = p.pid /\ Scanning!AsProcess(p).startedAt = p.startedAt /\ Scanning!AsProcess(p).cwd = p.cwd
         /\ Scanning!AsProcess(p).ports = {Port[i] : i \in p.inodes} /\ Scanning!AsProcess(p).own = (p.kind # "user")
         /\ Scanning!OwnerOf(Scanning!AsProcess(p)) = Scanning!OwnerOf(p)
<1>1. Scanning!AsProcess(p).names = p.names
  BY DEF Scanning!AsProcess
<1>2. Scanning!OwnerOf(Scanning!AsProcess(p)) = Scanning!OwnerOf(p)
  BY <1>1, SameNames
<1>3. Scanning!AsProcess(p).pid = p.pid /\ Scanning!AsProcess(p).startedAt = p.startedAt /\ Scanning!AsProcess(p).cwd = p.cwd /\ Scanning!AsProcess(p).own = (p.kind # "user")
  BY DEF Scanning!AsProcess
<1>4. Scanning!AsProcess(p).ports = {Port[i] : i \in p.inodes}
  BY DEF Scanning!AsProcess
<1>. QED  BY <1>2, <1>3, <1>4

\* PortRules' listing of the processes there are is the same.
LEMMA RulesListUsers ==
  ASSUME FoundInv
  PROVE  LET processes == {Scanning!AsProcess(p) : p \in alive}
         IN Scanning!ScanListeners(processes, processes, Scanning!Published, Paths) = UserListeners \cup Scanning!DockerOnly(UserListeners, Scanning!Published)
<1>. DEFINE processes == {Scanning!AsProcess(p) : p \in alive}
            of(s) == {[port |-> s.port, pid |-> s.proc.pid, startedAt |-> p.startedAt,
                       path |-> Scanning!MatchWorkspace(s.proc.cwd, Paths), owner |-> Scanning!OwnerOf(p)] :
                        p \in {q \in processes : q.pid = s.proc.pid /\ ~q.own}}
            told == UNION {of(s) : s \in Scanning!Sockets(processes, Paths)}
<1>1. ASSUME NEW x \in told  PROVE x \in UserListeners
  <2>1. PICK s \in Scanning!Sockets(processes, Paths) : x \in of(s)
    BY <1>1
  <2>2. PICK p \in alive, q \in alive :
          /\ s.proc = Scanning!AsProcess(p) /\ Scanning!AsProcess(q).pid = s.proc.pid /\ ~Scanning!AsProcess(q).own
          /\ x = [port |-> s.port, pid |-> s.proc.pid, startedAt |-> Scanning!AsProcess(q).startedAt,
                  path |-> Scanning!MatchWorkspace(s.proc.cwd, Paths), owner |-> Scanning!OwnerOf(Scanning!AsProcess(q))]
    BY <2>1 DEF Scanning!Sockets
  <2>3. p = q
    BY <2>2 DEF Scanning!AsProcess, FoundInv, Running
  <2>4. /\ Scanning!AsProcess(p).pid = p.pid /\ Scanning!AsProcess(p).startedAt = p.startedAt /\ Scanning!AsProcess(p).cwd = p.cwd
        /\ Scanning!AsProcess(p).ports = {Port[i] : i \in p.inodes} /\ (~Scanning!AsProcess(p).own => p.kind = "user")
        /\ Scanning!OwnerOf(Scanning!AsProcess(p)) = Scanning!OwnerOf(p)
    BY SameProcess
  <2>5. s.port \in {Port[i] : i \in p.inodes} /\ Scanning!MatchWorkspace(p.cwd, Paths) # NoPath
    BY <2>1, <2>2, <2>4 DEF Scanning!Sockets
  <2>6. x \in ListenersOf(p) /\ p.kind = "user"
    BY <2>2, <2>3, <2>4, <2>5 DEF ListenersOf
  <2>. QED  BY <2>5, <2>6 DEF UserListeners
<1>2. ASSUME NEW x \in UserListeners  PROVE x \in told
  <2>1. PICK p \in alive : p.kind = "user" /\ Scanning!MatchWorkspace(p.cwd, Paths) # NoPath /\ x \in ListenersOf(p)
    BY <1>2 DEF UserListeners
  <2>2. PICK i \in p.inodes :
          x = [port |-> Port[i], pid |-> p.pid, startedAt |-> p.startedAt, path |-> Scanning!MatchWorkspace(p.cwd, Paths), owner |-> Scanning!OwnerOf(p)]
    BY <2>1 DEF ListenersOf
  <2>3. PICK a : a = Scanning!AsProcess(p)
    OBVIOUS
  <2>4. /\ a.pid = p.pid /\ a.startedAt = p.startedAt /\ a.cwd = p.cwd /\ Port[i] \in a.ports /\ ~a.own
        /\ Scanning!OwnerOf(a) = Scanning!OwnerOf(p) /\ a \in processes
    BY <2>1, <2>3, SameProcess
  <2>5. PICK s : s = [proc |-> a, port |-> Port[i]]
    OBVIOUS
  <2>6. s \in Scanning!Sockets(processes, Paths)
    BY <2>1, <2>4, <2>5 DEF Scanning!Sockets
  <2>7. x \in of(s)
    BY <2>2, <2>4, <2>5
  <2>. QED  BY <2>6, <2>7
<1>3. told = UserListeners
  BY <1>1, <1>2
<1>4. Scanning!ScanListeners(processes, processes, Scanning!Published, Paths) = told \cup Scanning!DockerOnly(told, Scanning!Published)
  BY DEF Scanning!ScanListeners, Scanning!DockerOnly
<1>. QED  BY <1>3, <1>4

\* A scan of at least one workspace, on a machine that stands still and can be read, finds what it is
\* taken for (scanListeners), whatever order it reads in.
THEOREM StillScanIsTrue ==
  ASSUME Scanning!ScanAssumption, Paths # {}
  PROVE  Scanning!ScanSpec => []Scanning!ScanIsWhatItIsTakenFor
<1>1. ASSUME Scanning!ScanInit  PROVE FoundInv
  <2>1. DOMAIN scan = ScanFields /\ scan.stage = "idle" /\ scan.since = 0
    BY <1>1 DEF Scanning!ScanInit, Scanning!NoScan, ScanFields
  <2>2. IsFiniteSet(were)
    BY <1>1, FS_EmptySet DEF Scanning!ScanInit
  <2>3. Running
    BY <1>1, <2>1, <2>2 DEF Scanning!ScanInit, Running, Stages, Scanning!ScanAssumption
  <2>. QED  BY <2>1, <2>3 DEF FoundInv, StageFound
<1>2. ASSUME FoundInv, [Scanning!ScanNext]_(Scanning!scanVars)  PROVE FoundInv'
  <2>1. CASE UNCHANGED Scanning!scanVars
    <3>1. Running'
      BY <1>2, <2>1 DEF Scanning!scanVars, FoundInv, Running, Runs
    <3>2. StoodStill' = StoodStill /\ StageFound' = StageFound
      BY <2>1, SameSets DEF Scanning!scanVars, StoodStill, Scanning!Shared, StageFound, NothingFound, FdsFound, CwdsAreTheirs, IdentitiesFound,
                  Scanning!PidsHeld, Scanning!Inside, Scanning!DockerOnly
    <3>. QED  BY <1>2, <3>1, <3>2 DEF FoundInv
  <2>2. CASE Scanning!ScanNext
    BY <1>2, <2>2, SpawnFinds, ExitFinds, BeginFinds, FailFinds, TableFinds, PidsFinds, FdsFinds, HoldersFinds, CwdFinds,
       PlacesFinds, IdentifyFinds, OwnerFinds, ListenersFinds, DockerFinds DEF Scanning!ScanNext
  <2>. QED  BY <1>2, <2>1, <2>2
<1>3. ASSUME FoundInv  PROVE Scanning!ScanIsWhatItIsTakenFor
  <2>. SUFFICES ASSUME Scanning!Done, StoodStill
       PROVE  scan.listeners = Scanning!ScanListeners({Scanning!AsProcess(p) : p \in alive}, {Scanning!AsProcess(p) : p \in alive}, Scanning!Published, Paths)
    BY DEF Scanning!ScanIsWhatItIsTakenFor, StoodStill
  <2>1. scan.listeners = UserListeners \cup Scanning!DockerOnly(UserListeners, Scanning!Published)
    BY <1>3 DEF FoundInv, StageFound, Scanning!Done
  <2>. QED  BY <1>3, <2>1, RulesListUsers
<1>. QED  BY <1>1, <1>2, <1>3, PTL DEF Scanning!ScanSpec

-----------------------------------------------------------------------------
(***************************************************************************)
(* ListClock: a snooze is drawn as ended in time.                          *)
(***************************************************************************)
CONSTANTS Wakes, Never, Minute, Slack, LongestTimeout

VARIABLES clockTime, snoozed, drawnAt, deadline, listClock, hidden, news, clockChanges

Clocking == INSTANCE ListClock WITH time <- clockTime, rows <- snoozed, drawn <- drawnAt, clock <- listClock, changes <- clockChanges

ClockFields == {"on", "minute", "deadline"}
ClockTimes == Nat \cup {Never}
ClockTypes ==
  /\ clockTime \in Nat /\ drawnAt \in Nat /\ drawnAt <= clockTime
  /\ snoozed \in [Threads -> ClockTimes] /\ deadline = Clocking!NextWakeAt(snoozed, drawnAt)
  /\ DOMAIN listClock = ClockFields /\ listClock.on \in BOOLEAN /\ news \in BOOLEAN /\ hidden \in BOOLEAN
  /\ listClock.minute \in ClockTimes /\ listClock.deadline \in ClockTimes
\* Before the list mounts, no time passes and no visibility event comes.
NotBegun == ~listClock.on => clockTime = 0 /\ ~news
\* The clock of a shown window runs: its minute is due at most one past what is drawn, and its
\* timer, where one is set, at most the slack past the deadline, or past now.
MinuteRuns == listClock.minute # Never /\ clockTime <= listClock.minute /\ listClock.minute <= drawnAt + Minute
DeadlineRuns ==
  listClock.deadline # Never =>
    /\ clockTime <= listClock.deadline /\ deadline # Never
    /\ listClock.deadline <= (IF deadline > clockTime THEN deadline ELSE clockTime) + Slack
ClockRuns == listClock.on /\ ~news /\ ~hidden => MinuteRuns /\ DeadlineRuns
ClockInv == ClockTypes /\ NotBegun /\ ClockRuns

-----------------------------------------------------------------------------
LEMMA LessIsWellFounded ==
  \E R : /\ IsWellFoundedOn(R, Nat)
         /\ \A x, y \in Nat : <<x, y>> \in R <=> x < y
<1>1. \A x, y \in Nat : <<x, y>> \in OpToRel(<, Nat) <=> x < y
  BY DEF OpToRel
<1>. QED  BY <1>1, NatLessThanWellFounded

\* Numbers have a least one.
LEMMA LeastOf ==
  ASSUME NEW T, T \subseteq Nat, T # {}
  PROVE  \E x \in T : \A y \in T : x <= y
<1>1. PICK R : /\ IsWellFoundedOn(R, Nat)
               /\ \A x, y \in Nat : <<x, y>> \in R <=> x < y
  BY LessIsWellFounded
<1>2. IsWellFoundedOn(R, Nat)
  BY <1>1
<1>3. PICK x \in T : \A y \in T : ~(<<y, x>> \in R)
  BY <1>2, WFMin, Zenon
<1>4. ASSUME NEW y \in T  PROVE x <= y
  <2>1. ~(<<y, x>> \in R) /\ x \in Nat /\ y \in Nat
    BY <1>3
  <2>2. ~(y < x)
    BY <1>1, <2>1
  <2>. QED  BY <2>1, <2>2
<1>. QED  BY <1>4

\* The next deadline is the soonest of the times ahead.
Soonest(next, until, moment) ==
  /\ next \in ClockTimes
  /\ next # Never => next > moment
  /\ \A t \in Threads : until[t] # Never /\ until[t] > moment => next # Never /\ next <= until[t]
LEMMA NextIsSoonest ==
  ASSUME Clocking!ClockAssumption, NEW until \in [Threads -> ClockTimes], NEW moment \in Nat
  PROVE  Soonest(Clocking!NextWakeAt(until, moment), until, moment)
<1>. DEFINE ahead == {until[t] : t \in Threads} \ ({Never} \cup 0..moment)
<1>1. ahead \subseteq Nat /\ \A w \in ahead : w > moment
  BY DEF ClockTimes
<1>2. ASSUME NEW t \in Threads, until[t] # Never, until[t] > moment  PROVE until[t] \in ahead
  <2>1. until[t] \in Nat
    BY <1>2 DEF ClockTimes
  <2>. QED  BY <1>2, <2>1
<1>3. CASE ahead = {}
  <2>1. Clocking!NextWakeAt(until, moment) = Never
    BY <1>3 DEF Clocking!NextWakeAt
  <2>. QED  BY <1>2, <1>3, <2>1 DEF Soonest, ClockTimes
<1>4. CASE ahead # {}
  <2>. DEFINE next == CHOOSE w \in ahead : \A v \in ahead : w <= v
  <2>1. Clocking!NextWakeAt(until, moment) = next
    BY <1>4 DEF Clocking!NextWakeAt
  <2>2. \E w \in ahead : \A v \in ahead : w <= v
    <3>. HIDE DEF ahead
    <3>. QED  BY <1>1, <1>4, LeastOf
  <2>3. next \in ahead /\ \A v \in ahead : next <= v
    <3>. HIDE DEF ahead
    <3>. QED  BY <2>2
  <2>4. next \in Nat /\ next > moment /\ next # Never
    BY <1>1, <2>3 DEF Clocking!ClockAssumption
  <2>. HIDE DEF next, ahead
  <2>. QED  BY <1>2, <2>1, <2>3, <2>4 DEF Soonest, ClockTimes
<1>. QED  BY <1>3, <1>4

\* A timer that is set again is the slack past its deadline.
Timed(c, moment) ==
  /\ c.deadline \in ClockTimes
  /\ c.deadline # Never =>
       /\ clockTime <= c.deadline /\ moment # Never
       /\ c.deadline <= (IF moment > clockTime THEN moment ELSE clockTime) + Slack
LEMMA RescheduledTimed ==
  ASSUME Clocking!ClockAssumption, clockTime \in Nat, NEW c, DOMAIN c = ClockFields, NEW moment \in ClockTimes
  PROVE  LET d == Clocking!Rescheduled(c, moment)
         IN DOMAIN d = ClockFields /\ d.on = c.on /\ d.minute = c.minute /\ Timed(d, moment)
<1>. DEFINE due == IF moment = Never \/ hidden \/ moment - clockTime > LongestTimeout THEN Never
                   ELSE (IF moment > clockTime THEN moment ELSE clockTime) + Slack
            d == [c EXCEPT !.deadline = due]
<1>1. Clocking!Rescheduled(c, moment) = d
  BY DEF Clocking!Rescheduled
<1>2. DOMAIN d = ClockFields /\ d.on = c.on /\ d.minute = c.minute /\ d.deadline = due
  BY DEF ClockFields
<1>3. /\ due \in ClockTimes
      /\ due # Never => clockTime <= due /\ moment # Never /\ due <= (IF moment > clockTime THEN moment ELSE clockTime) + Slack
  <2>1. CASE moment = Never
    BY <2>1 DEF ClockTimes
  <2>2. CASE moment # Never
    BY <2>2 DEF ClockTimes, Clocking!ClockAssumption
  <2>. QED  BY <2>1, <2>2
<1>. HIDE DEF d, due
<1>. QED  BY <1>1, <1>2, <1>3 DEF Timed

\* The timer that stands for the deadline stands at.
Standing(c) == Timed(c, deadline)
\* A commit keeps what the clock's timers are for.
LEMMA CommitRuns ==
  ASSUME Clocking!ClockAssumption, ClockTypes, NEW until \in [Threads -> ClockTimes], NEW moment \in Nat, moment <= clockTime,
         NEW c, DOMAIN c = ClockFields, c.on \in BOOLEAN, c.minute \in ClockTimes, c.deadline \in ClockTimes,
         c.on /\ ~news /\ ~hidden => Standing(c),
         UNCHANGED <<clockTime, hidden, news>>, Clocking!Commit(until, moment, c)
  PROVE  /\ ClockTypes' /\ listClock'.on = c.on /\ listClock'.minute = c.minute /\ drawnAt' = moment
         /\ listClock'.on /\ ~news /\ ~hidden => DeadlineRuns'
<1>. DEFINE next == Clocking!NextWakeAt(until, moment)
<1>1. next \in ClockTimes
  BY NextIsSoonest DEF Soonest
<1>2. /\ snoozed' = until /\ drawnAt' = moment /\ deadline' = next /\ clockTime' = clockTime
      /\ listClock' = IF c.on /\ next # deadline THEN Clocking!Rescheduled(c, next) ELSE c
  BY DEF Clocking!Commit
<1>3. deadline' = Clocking!NextWakeAt(snoozed', drawnAt')
  BY <1>2
<1>. HIDE DEF next
<1>4. CASE c.on /\ next # deadline
  <2>1. listClock' = Clocking!Rescheduled(c, next)
    BY <1>2, <1>4
  <2>2. DOMAIN listClock' = ClockFields /\ listClock'.on = c.on /\ listClock'.minute = c.minute /\ Timed(listClock', next)
    BY <1>1, <2>1, RescheduledTimed DEF ClockTypes
  <2>3. DeadlineRuns'
    BY <1>2, <2>2 DEF DeadlineRuns, Timed
  <2>. QED  BY <1>2, <1>3, <2>2, <2>3 DEF ClockTypes, Timed
<1>5. CASE ~(c.on /\ next # deadline)
  <2>1. listClock' = c
    BY <1>2, <1>5
  <2>2. ASSUME listClock'.on, ~news, ~hidden  PROVE DeadlineRuns'
    <3>1. next = deadline /\ Standing(c)
      BY <1>5, <2>1, <2>2
    <3>. QED  BY <1>2, <2>1, <3>1 DEF DeadlineRuns, Standing, Timed
  <2>. QED  BY <1>2, <1>3, <2>1, <2>2 DEF ClockTypes
<1>. QED  BY <1>4, <1>5

LEMMA RunsIsStanding ==
  ASSUME ClockInv
  PROVE  listClock.on /\ ~news /\ ~hidden => Standing(listClock)
BY DEF ClockInv, ClockTypes, ClockRuns, DeadlineRuns, Standing, Timed

LEMMA ClockBegins == ASSUME Clocking!ClockAssumption, Clocking!ClockInit  PROVE ClockInv
<1>1. snoozed \in [Threads -> ClockTimes]
  BY DEF Clocking!ClockInit, Clocking!ClockAssumption, ClockTimes
<1>2. listClock = [on |-> FALSE, minute |-> Never, deadline |-> Never]
  BY DEF Clocking!ClockInit, Clocking!Stopped
<1>3. DOMAIN listClock = ClockFields /\ listClock.on = FALSE /\ listClock.minute = Never /\ listClock.deadline = Never
  BY <1>2 DEF ClockFields
<1>4. listClock.on \in BOOLEAN /\ listClock.minute \in ClockTimes /\ listClock.deadline \in ClockTimes
  BY <1>3 DEF ClockTimes
<1>5. deadline = Clocking!NextWakeAt(snoozed, drawnAt) /\ clockTime \in Nat /\ drawnAt \in Nat /\ drawnAt <= clockTime
  BY DEF Clocking!ClockInit
<1>6. news \in BOOLEAN /\ hidden \in BOOLEAN
  BY DEF Clocking!ClockInit
<1>7. ClockTypes
  BY <1>1, <1>3, <1>4, <1>5, <1>6 DEF ClockTypes
<1>. QED  BY <1>3, <1>7 DEF ClockInv, NotBegun, ClockRuns, Clocking!ClockInit

\* Started with what is drawn now, the clock runs.
LEMMA StartRuns ==
  ASSUME Clocking!ClockAssumption, clockTime \in Nat, NEW c, DOMAIN c = ClockFields, NEW moment \in ClockTimes
  PROVE  LET d == Clocking!Started(c, moment)
         IN DOMAIN d = ClockFields /\ d.on = TRUE /\ d.minute = clockTime + Minute /\ Timed(d, moment)
<1>. DEFINE b == [c EXCEPT !.on = TRUE, !.minute = clockTime + Minute]
<1>1. Clocking!Started(c, moment) = Clocking!Rescheduled(b, moment)
  BY DEF Clocking!Started
<1>2. DOMAIN b = ClockFields /\ b.on = TRUE /\ b.minute = clockTime + Minute
  BY DEF ClockFields
<1>. HIDE DEF b
<1>. QED  BY <1>1, <1>2, RescheduledTimed

LEMMA StoppedClock ==
  LET d == [Clocking!Stopped EXCEPT !.on = TRUE]
  IN /\ DOMAIN d = ClockFields /\ d.on = TRUE /\ d.minute = Never /\ d.deadline = Never
     /\ DOMAIN Clocking!Stopped = ClockFields
BY DEF Clocking!Stopped, ClockFields

LEMMA AttachRuns == ASSUME Clocking!ClockAssumption, ClockInv, Clocking!Attach  PROVE ClockInv'
<1>1. UNCHANGED <<clockTime, snoozed, drawnAt, deadline, hidden, news>> /\ clockTime = 0 /\ drawnAt = 0 /\ ~news
  BY DEF Clocking!Attach, ClockInv, NotBegun, ClockTypes
<1>2. deadline \in ClockTimes /\ clockTime \in Nat
  BY NextIsSoonest DEF Soonest, ClockInv, ClockTypes
<1>3. CASE hidden
  <2>1. listClock' = [Clocking!Stopped EXCEPT !.on = TRUE]
    BY <1>3 DEF Clocking!Attach
  <2>2. DOMAIN listClock' = ClockFields /\ listClock'.on = TRUE /\ listClock'.minute = Never /\ listClock'.deadline = Never
    BY <2>1, StoppedClock
  <2>. QED  BY <1>1, <1>3, <2>2 DEF ClockInv, ClockTypes, NotBegun, ClockRuns, ClockTimes
<1>4. CASE ~hidden
  <2>1. listClock' = Clocking!Started(Clocking!Stopped, deadline)
    BY <1>4 DEF Clocking!Attach
  <2>2. DOMAIN listClock' = ClockFields /\ listClock'.on = TRUE /\ listClock'.minute = clockTime + Minute /\ Timed(listClock', deadline)
    BY <1>2, <2>1, StartRuns, StoppedClock
  <2>3. MinuteRuns'
    BY <1>1, <2>2 DEF MinuteRuns, Clocking!ClockAssumption
  <2>4. DeadlineRuns'
    BY <1>1, <2>2 DEF DeadlineRuns, Timed
  <2>5. ClockTypes'
    <3>1. listClock'.minute \in ClockTimes /\ listClock'.deadline \in ClockTimes
      BY <1>2, <2>2 DEF ClockTimes, Timed, Clocking!ClockAssumption
    <3>3. listClock'.on \in BOOLEAN
      BY <2>2
    <3>2. deadline' = Clocking!NextWakeAt(snoozed', drawnAt') /\ snoozed' \in [Threads -> ClockTimes] /\ news' \in BOOLEAN /\ hidden' \in BOOLEAN
      BY <1>1 DEF ClockInv, ClockTypes
    <3>. QED  BY <1>1, <2>2, <3>1, <3>2, <3>3 DEF ClockTypes
  <2>. QED  BY <2>2, <2>3, <2>4, <2>5 DEF ClockInv, NotBegun, ClockRuns
<1>. QED  BY <1>3, <1>4

LEMMA RowComesRuns == ASSUME Clocking!ClockAssumption, ClockInv, Clocking!RowComes  PROVE ClockInv'
<1>. PICK t \in Threads, w \in Wakes \cup {Never} : Clocking!Commit([snoozed EXCEPT ![t] = w], drawnAt, listClock)
  BY DEF Clocking!RowComes
<1>1. UNCHANGED <<clockTime, hidden, news>>
  BY DEF Clocking!RowComes
<1>. DEFINE until == [snoozed EXCEPT ![t] = w]
<1>2. until \in [Threads -> ClockTimes]
  BY DEF ClockInv, ClockTypes, Clocking!ClockAssumption, ClockTimes
<1>3. /\ drawnAt \in Nat /\ drawnAt <= clockTime /\ DOMAIN listClock = ClockFields /\ listClock.on \in BOOLEAN
      /\ listClock.minute \in ClockTimes /\ listClock.deadline \in ClockTimes /\ ClockTypes
  BY DEF ClockInv, ClockTypes
<1>. HIDE DEF until
<1>4. Clocking!Commit(until, drawnAt, listClock)
  BY DEF until
<1>5. /\ ClockTypes' /\ listClock'.on = listClock.on /\ listClock'.minute = listClock.minute /\ drawnAt' = drawnAt
      /\ listClock'.on /\ ~news /\ ~hidden => DeadlineRuns'
  BY <1>1, <1>2, <1>3, <1>4, CommitRuns, RunsIsStanding
<1>6. NotBegun'
  BY <1>1, <1>5 DEF ClockInv, NotBegun
<1>7. ClockRuns'
  BY <1>1, <1>5 DEF ClockInv, ClockRuns, MinuteRuns
<1>. QED  BY <1>5, <1>6, <1>7 DEF ClockInv

\* A tick keeps the clock running where its minute is due after what is drawn anew.
LEMMA TickRuns ==
  ASSUME Clocking!ClockAssumption, ClockInv, UNCHANGED <<clockTime, hidden, news>>,
         NEW c, DOMAIN c = ClockFields, c.on = listClock.on, c.minute \in ClockTimes, c.deadline \in ClockTimes,
         c.on /\ ~news /\ ~hidden =>
           c.minute # Never /\ clockTime <= c.minute /\ c.minute <= clockTime + Minute /\ Standing(c),
         Clocking!Ticks(c)
  PROVE  ClockInv'
<1>1. CASE hidden
  <2>1. listClock' = c /\ UNCHANGED <<snoozed, drawnAt, deadline>>
    BY <1>1 DEF Clocking!Ticks
  <2>. QED  BY <1>1, <2>1 DEF ClockInv, ClockTypes, NotBegun, ClockRuns
<1>2. CASE ~hidden
  <2>1. Clocking!Commit(snoozed, clockTime, c)
    BY <1>2 DEF Clocking!Ticks
  <2>2. snoozed \in [Threads -> ClockTimes] /\ clockTime \in Nat /\ clockTime <= clockTime /\ c.on \in BOOLEAN /\ ClockTypes
    BY DEF ClockInv, ClockTypes
  <2>3. /\ ClockTypes' /\ listClock'.on = c.on /\ listClock'.minute = c.minute /\ drawnAt' = clockTime
        /\ listClock'.on /\ ~news /\ ~hidden => DeadlineRuns'
    BY <2>1, <2>2, CommitRuns
  <2>4. NotBegun'
    BY <2>3 DEF ClockInv, NotBegun
  <2>5. ClockRuns'
    BY <2>3 DEF ClockRuns, MinuteRuns
  <2>. QED  BY <2>3, <2>4, <2>5 DEF ClockInv
<1>. QED  BY <1>1, <1>2

LEMMA MinuteFiresRuns == ASSUME Clocking!ClockAssumption, ClockInv, Clocking!MinuteFires  PROVE ClockInv'
<1>. DEFINE c == [listClock EXCEPT !.minute = clockTime + Minute]
<1>1. /\ DOMAIN c = ClockFields /\ c.on = listClock.on /\ c.minute = clockTime + Minute
      /\ c.deadline = listClock.deadline /\ clockTime \in Nat /\ listClock.deadline \in ClockTimes
  BY DEF ClockFields, ClockInv, ClockTypes
<1>2. Clocking!Ticks(c) /\ UNCHANGED <<clockTime, hidden, news>>
  BY DEF Clocking!MinuteFires
<1>. HIDE DEF c
<1>3. c.minute \in Nat /\ c.minute # Never /\ clockTime <= c.minute /\ c.minute <= clockTime + Minute
  BY <1>1 DEF Clocking!ClockAssumption
<1>4. c.on /\ ~news /\ ~hidden => Standing(c)
  BY <1>1, RunsIsStanding DEF Standing, Timed
<1>. QED  BY <1>1, <1>2, <1>3, <1>4, TickRuns DEF ClockTimes

LEMMA DeadlineFiresRuns == ASSUME Clocking!ClockAssumption, ClockInv, Clocking!DeadlineFires  PROVE ClockInv'
<1>. DEFINE c == [listClock EXCEPT !.deadline = Never]
<1>1. /\ DOMAIN c = ClockFields /\ c.on = listClock.on /\ c.minute = listClock.minute /\ c.deadline = Never
      /\ clockTime \in Nat /\ drawnAt \in Nat /\ drawnAt <= clockTime /\ listClock.minute \in ClockTimes
  BY DEF ClockFields, ClockInv, ClockTypes
<1>2. Clocking!Ticks(c) /\ UNCHANGED <<clockTime, hidden, news>>
  BY DEF Clocking!DeadlineFires
<1>. HIDE DEF c
<1>3. Standing(c)
  BY <1>1 DEF Standing, Timed, ClockTimes
<1>4. c.on /\ ~news /\ ~hidden => c.minute # Never /\ clockTime <= c.minute /\ c.minute <= clockTime + Minute
  BY <1>1 DEF ClockInv, ClockRuns, MinuteRuns, ClockTimes, Clocking!ClockAssumption
<1>. QED  BY <1>1, <1>2, <1>3, <1>4, TickRuns DEF ClockTimes

LEMMA VisibilityRuns == ASSUME Clocking!ClockAssumption, ClockInv, Clocking!OnVisibility  PROVE ClockInv'
<1>1. listClock.on /\ news' = FALSE /\ UNCHANGED <<clockTime, hidden, snoozed>> /\ clockTime \in Nat
  BY DEF Clocking!OnVisibility, ClockInv, ClockTypes
<1>2. CASE hidden
  <2>1. listClock' = [Clocking!Stopped EXCEPT !.on = TRUE] /\ UNCHANGED <<drawnAt, deadline>>
    BY <1>2 DEF Clocking!OnVisibility
  <2>2. DOMAIN listClock' = ClockFields /\ listClock'.on = TRUE /\ listClock'.minute = Never /\ listClock'.deadline = Never
    BY <2>1, StoppedClock
  <2>. QED  BY <1>1, <1>2, <2>1, <2>2 DEF ClockInv, ClockTypes, NotBegun, ClockRuns, ClockTimes
<1>3. CASE ~hidden
  <2>. DEFINE next == Clocking!NextWakeAt(snoozed, clockTime)
              s == [Clocking!Stopped EXCEPT !.on = TRUE]
  <2>1. drawnAt' = clockTime /\ deadline' = next /\ listClock' = Clocking!Started(s, next)
    BY <1>3 DEF Clocking!OnVisibility
  <2>2. deadline' = Clocking!NextWakeAt(snoozed', drawnAt') /\ snoozed \in [Threads -> ClockTimes]
    BY <1>1, <2>1 DEF ClockInv, ClockTypes
  <2>3. next \in ClockTimes /\ DOMAIN s = ClockFields
    BY <1>1, <2>2, NextIsSoonest, StoppedClock DEF Soonest
  <2>. HIDE DEF next, s
  <2>4. DOMAIN listClock' = ClockFields /\ listClock'.on = TRUE /\ listClock'.minute = clockTime + Minute /\ Timed(listClock', next)
    BY <1>1, <2>1, <2>3, StartRuns
  <2>5. MinuteRuns'
    BY <1>1, <2>1, <2>4 DEF MinuteRuns, Clocking!ClockAssumption
  <2>6. DeadlineRuns'
    BY <1>1, <2>1, <2>4 DEF DeadlineRuns, Timed
  <2>7. ClockTypes'
    <3>1. listClock'.minute \in ClockTimes /\ listClock'.deadline \in ClockTimes
      BY <1>1, <2>4 DEF ClockTimes, Timed, Clocking!ClockAssumption
    <3>3. listClock'.on \in BOOLEAN
      BY <2>4
    <3>2. snoozed' \in [Threads -> ClockTimes] /\ news' \in BOOLEAN /\ hidden' \in BOOLEAN
      BY <1>1 DEF ClockInv, ClockTypes
    <3>. QED  BY <1>1, <2>1, <2>2, <2>4, <3>1, <3>2, <3>3 DEF ClockTypes
  <2>. QED  BY <2>4, <2>5, <2>6, <2>7 DEF ClockInv, NotBegun, ClockRuns
<1>. QED  BY <1>2, <1>3

LEMMA FlipRuns == ASSUME Clocking!ClockAssumption, ClockInv, Clocking!Flip  PROVE ClockInv'
<1>1. hidden' = ~hidden /\ news' = listClock.on /\ UNCHANGED <<clockTime, snoozed, drawnAt, deadline, listClock>>
  BY DEF Clocking!Flip
<1>. QED  BY <1>1 DEF ClockInv, ClockTypes, NotBegun, ClockRuns

LEMMA TimeRuns == ASSUME Clocking!ClockAssumption, ClockInv, Clocking!Tick  PROVE ClockInv'
<1>1. /\ listClock.on /\ ~news /\ clockTime # listClock.minute /\ clockTime # listClock.deadline /\ clockTime' = clockTime + 1
      /\ UNCHANGED <<snoozed, drawnAt, deadline, listClock, hidden, news>>
  BY DEF Clocking!Tick
<1>2. /\ clockTime \in Nat /\ drawnAt \in Nat /\ drawnAt <= clockTime /\ listClock.minute \in ClockTimes /\ listClock.deadline \in ClockTimes
  BY DEF ClockInv, ClockTypes
<1>3. deadline \in ClockTimes
  BY NextIsSoonest DEF Soonest, ClockInv, ClockTypes
<1>4. ClockTypes' /\ NotBegun'
  <2>1. clockTime' \in Nat /\ drawnAt' <= clockTime' /\ listClock'.on
    BY <1>1, <1>2
  <2>2. deadline' = Clocking!NextWakeAt(snoozed', drawnAt') /\ news' \in BOOLEAN /\ hidden' \in BOOLEAN
    BY <1>1 DEF ClockInv, ClockTypes
  <2>. QED  BY <1>1, <2>1, <2>2 DEF ClockInv, ClockTypes, NotBegun
<1>5. ClockRuns'
  <2>1. ASSUME ~hidden  PROVE MinuteRuns /\ DeadlineRuns
    BY <1>1, <2>1 DEF ClockInv, ClockRuns
  <2>2. ASSUME ~hidden  PROVE MinuteRuns'
    BY <1>1, <1>2, <2>1, <2>2 DEF MinuteRuns, ClockTimes
  <2>3. ASSUME ~hidden  PROVE DeadlineRuns'
    BY <1>1, <1>2, <1>3, <2>1, <2>3 DEF DeadlineRuns, ClockTimes, Clocking!ClockAssumption
  <2>. QED  BY <1>1, <2>2, <2>3 DEF ClockRuns
<1>. QED  BY <1>4, <1>5 DEF ClockInv

LEMMA ClockHolds == ASSUME Clocking!ClockAssumption  PROVE Clocking!ClockSpec => []ClockInv
<1>1. Clocking!ClockInit => ClockInv
  BY ClockBegins
<1>2. ClockInv /\ [Clocking!ClockNext]_(Clocking!clockVars) => ClockInv'
  <2>. SUFFICES ASSUME ClockInv, [Clocking!ClockNext]_(Clocking!clockVars)  PROVE ClockInv'
    OBVIOUS
  <2>1. CASE UNCHANGED Clocking!clockVars
    BY <2>1 DEF Clocking!clockVars, ClockInv, ClockTypes, NotBegun, ClockRuns, MinuteRuns, DeadlineRuns
  <2>. QED  BY <2>1, AttachRuns, RowComesRuns, MinuteFiresRuns, DeadlineFiresRuns, FlipRuns,
               VisibilityRuns, TimeRuns DEF Clocking!ClockNext
<1>. QED  BY <1>1, <1>2, PTL DEF Clocking!ClockSpec

LEMMA ClockIsInTime == ASSUME Clocking!ClockAssumption, ClockInv  PROVE Clocking!SnoozesEndInTime
<1>. SUFFICES ASSUME Clocking!Shown, NEW t \in Threads, snoozed[t] # Never, snoozed[t] > drawnAt
              PROVE  /\ snoozed[t] + Minute > clockTime
                     /\ listClock.deadline # Never =>
                          listClock.deadline <= (IF snoozed[t] > clockTime THEN snoozed[t] ELSE clockTime) + Slack
  BY DEF Clocking!SnoozesEndInTime
<1>1. MinuteRuns /\ DeadlineRuns /\ clockTime # listClock.minute
  BY DEF Clocking!Shown, ClockInv, ClockRuns
<1>2. /\ clockTime \in Nat /\ drawnAt \in Nat /\ listClock.minute \in ClockTimes /\ listClock.deadline \in ClockTimes /\ snoozed[t] \in Nat
  BY DEF ClockInv, ClockTypes, ClockTimes
<1>3. deadline \in Nat /\ deadline <= snoozed[t]
  BY NextIsSoonest DEF Soonest, ClockInv, ClockTypes, ClockTimes
<1>4. snoozed[t] + Minute > clockTime
  BY <1>1, <1>2 DEF MinuteRuns, ClockTimes, Clocking!ClockAssumption
<1>5. ASSUME listClock.deadline # Never
      PROVE  listClock.deadline <= (IF snoozed[t] > clockTime THEN snoozed[t] ELSE clockTime) + Slack
  BY <1>1, <1>2, <1>3, <1>5 DEF DeadlineRuns, ClockTimes, Clocking!ClockAssumption
<1>. QED  BY <1>4, <1>5

\* A snooze whose time is past is drawn as ended in time, whatever rows come and however often the
\* window is hidden (store/clock.ts:1-3, 39).
THEOREM SnoozesEndWithin ==
  ASSUME Clocking!ClockAssumption
  PROVE  Clocking!ClockSpec => []Clocking!SnoozesEndInTime
<1>1. ClockInv => Clocking!SnoozesEndInTime
  BY ClockIsInTime
<1>. QED  BY <1>1, ClockHolds, PTL
=============================================================================
