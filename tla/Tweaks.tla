------------------------------- MODULE Tweaks -------------------------------
(***************************************************************************)
(* The UI Tweaks plugin: two saved choices, a window's copy of them, the    *)
(* stylesheet drawn from the copy, and the watch for screens of bb's that   *)
(* lack what the stylesheet reaches for.                                    *)
(*                                                                          *)
(* The copy is filled by reads, by the signals of every save and by the     *)
(* answers of the window's own saves. Signals arrive in the order they were *)
(* sent, and are lost while the window is disconnected; an answer arrives   *)
(* at any time.                                                             *)
(***************************************************************************)
EXTENDS Naturals, Sequences, FiniteSets

CONSTANTS
  NoCopy,       \* nothing has been read yet
  Choices,      \* the choices of either tweak; Medium is one
  Medium,       \* bb's own look
  Grace,        \* ticks a screen may lack a target
  Elements,     \* the elements screens are drawn in
  Gone,         \* an element that draws no screen
  Screens,      \* the screens an element can draw
  MaxSaves,     \* bound: saves in all windows
  MaxReads,     \* bound: reads asked
  MaxDrops,     \* bound: lost connections, and failed calls
  MaxDraws,     \* bound: changes of the page
  MaxTime       \* bound: the clock

TweaksAssumption ==
  /\ Medium \in Choices
       /\ \A n \in {Grace, MaxSaves, MaxReads, MaxDrops, MaxDraws, MaxTime} : n \in Nat

VARIABLES
  stored,     \* the saved choices
  saving,     \* the saves the server handles
  signals,    \* the signals on their way to the window, and the save's answer
  copy,       \* the window's copy
  style,      \* the stylesheet in the window's page
  connected,  \* whether the window hears signals
  heard,      \* how many signals the window has heard
  reads,      \* the reads on their way, with what they saw when asked
  answers,    \* the answers of the window's own saves
  bySave,     \* whether the copy is an answer of the window's own save
  page,       \* what each element draws
  text,       \* whether bb's page holds the text size variable
  phone,      \* whether the window is a phone's
  firstSeen,  \* when the watch first saw each element
  warned,     \* the elements warned about
  scans,      \* the times scans are due at
  clock, saves, asked, drops, draws

tvars == <<stored, saving, signals, copy, style, connected, heard, reads, answers,
           bySave, page, text, phone, firstSeen, warned, scans, clock, saves, asked, drops, draws>>

dataVars == <<stored, saving, signals, copy, connected, heard, reads, answers,
              bySave, saves, asked>>
pageVars == <<page, text, phone, firstSeen, warned, scans, clock, draws>>

Keys == {"textSize", "width"}
Never == 0

----------------------------------------------------------------------------
\* What a screen lacks, and whether the stylesheet's selectors match it. A
\* thread view has the transcript column, and the composer column with an
\* editor and its wrapper or without an editor. A New-thread screen is the
\* elements around its editor, from the inside out.

ViewLacks(s) ==
  {t \in {"column", "composer"} : ~s[t]}
    \cup (IF s.composer /\ s.editable /\ ~s.wrapper THEN {"wrapper"} ELSE {})

Innermost(around, kind) ==
  IF \E i \in DOMAIN around : around[i] = kind
  THEN CHOOSE i \in DOMAIN around :
         around[i] = kind /\ \A j \in 1..(i - 1) : around[j] # kind
  ELSE 0

NewThreadLacks(s) ==
  LET column == Innermost(s.around, "column")
      wrapper == Innermost(s.around, "wrapper")
  IN (IF column = 0 THEN {"column"} ELSE {})
       \cup (IF wrapper = 0 \/ (column # 0 /\ column < wrapper) THEN {"wrapper"} ELSE {})

Missing(s, hasText) ==
  (IF s.kind = "view" THEN ViewLacks(s) ELSE NewThreadLacks(s))
    \cup (IF hasText THEN {} ELSE {"text"})

MatchesBare(s, hasText) ==  \* mutant: an editor without its wrapper matches
  /\ hasText
  /\ IF s.kind = "view" THEN s.column /\ s.composer
     ELSE \E i, j \in DOMAIN s.around :
            i < j /\ s.around[i] = "wrapper" /\ s.around[j] = "column"

Matches(s, hasText) ==
  /\ hasText
  /\ IF s.kind = "view"
     THEN s.column /\ s.composer /\ (s.editable => s.wrapper)
     ELSE \E i, j \in DOMAIN s.around :
            i < j /\ s.around[i] = "wrapper" /\ s.around[j] = "column"

\* The stylesheet as drawn: nothing on a phone, for Medium and without a copy.
Drawn(tweaks, onPhone) ==
  IF tweaks = NoCopy \/ onPhone \/ ~text THEN {}
  ELSE {<<k, tweaks[k]>> : k \in {x \in Keys : tweaks[x] # Medium}}

\* The copy changes, and the stylesheet with it.
SetCopy(tweaks) ==
  /\ copy' = tweaks
  /\ style' = IF tweaks = copy THEN style ELSE Drawn(tweaks, phone)

----------------------------------------------------------------------------
TweaksInit ==
  /\ stored = [k \in Keys |-> Medium]
  /\ saving = {}
  /\ signals = <<>>
  /\ copy = NoCopy
  /\ style = {}
  /\ connected = TRUE
  /\ heard = 0
  /\ reads = {}
  /\ answers = {}
  /\ bySave = FALSE
  /\ page = [e \in Elements |-> Gone]
  /\ text = TRUE
  /\ phone = FALSE
  /\ firstSeen = [e \in Elements |-> Never]
  /\ warned = {}
  /\ scans = {}
  /\ clock = 1
  /\ saves = 0 /\ asked = 0 /\ drops = 0 /\ draws = 0

\* A segment is chosen in this window, whose own segments are disabled until
\* it has a copy, or in another one.
ChooseTweak ==
  /\ saves < MaxSaves
  /\ saves' = saves + 1
  /\ \E k \in Keys, v \in Choices, own \in BOOLEAN :
       /\ own => copy # NoCopy
       /\ saving' = saving \cup {[n |-> saves, key |-> k, value |-> v, own |-> own,
                                  step |-> "set"]}
  /\ UNCHANGED <<stored, signals, copy, style, connected, heard, reads, answers, bySave,
                 asked, drops, pageVars>>

SetKey(s) ==
  /\ s.step = "set"
  /\ stored' = [stored EXCEPT ![s.key] = s.value]
  /\ saving' = (saving \ {s}) \cup {[s EXCEPT !.step = "read"]}
  /\ UNCHANGED <<signals, copy, style, connected, heard, reads, answers, bySave, saves,
                 asked, drops, pageVars>>

\* The save reads both choices again, signals them and answers with them.
PublishSave(s) ==
  /\ s.step = "read"
  /\ saving' = saving \ {s}
  /\ signals' = IF connected THEN Append(signals, stored) ELSE signals
  /\ answers' = IF s.own THEN answers \cup {[n |-> s.n, value |-> stored]} ELSE answers
  /\ UNCHANGED <<stored, copy, style, connected, heard, reads, bySave, saves, asked, drops,
                 pageVars>>

\* The server refuses or does not answer: the section says so.
FailSave(s) ==
  /\ s.step = "set"
  /\ drops < MaxDrops /\ drops' = drops + 1
  /\ saving' = saving \ {s}
  /\ UNCHANGED <<stored, signals, copy, style, connected, heard, reads, answers, bySave,
                 saves, asked, pageVars>>

HearSignal ==
  /\ signals # <<>>
  /\ SetCopy(Head(signals))
  /\ signals' = Tail(signals)
  /\ heard' = heard + 1
  /\ bySave' = FALSE
  /\ UNCHANGED <<stored, saving, connected, reads, answers, saves, asked, drops,
                 pageVars>>

HearAnswer ==
  /\ \E a \in answers :
       /\ SetCopy(a.value)
       /\ answers' = answers \ {a}
  /\ bySave' = TRUE
  /\ UNCHANGED <<stored, saving, signals, connected, heard, reads, saves, asked, drops,
                 pageVars>>

\* The first read, and one at every connection. A read that failed is asked
\* again, and one of an earlier connection counts for nothing.
AskRead ==
  /\ connected
  /\ reads = {}
  /\ asked < MaxReads
  /\ asked = 0 \/ copy = NoCopy
  /\ asked' = asked + 1
  /\ reads' = {[seen |-> heard, step |-> "asked", value |-> stored]}
  /\ UNCHANGED <<stored, saving, signals, copy, style, connected, heard, answers, bySave,
                 saves, drops, pageVars>>

ServeRead ==
  /\ \E r \in reads :
       /\ r.step = "asked"
       /\ reads' = {[r EXCEPT !.step = "served", !.value = stored]}
  /\ UNCHANGED <<stored, saving, signals, copy, style, connected, heard, answers, bySave,
                 saves, asked, drops, pageVars>>

AppliesAnyRead(r) == TRUE  \* mutant: a read undoes a signal heard since

AppliesRead(r) == r.seen = heard

HearRead ==
  /\ \E r \in reads :
       /\ r.step = "served"
       /\ SetCopy(IF AppliesRead(r) THEN r.value ELSE copy)
       /\ bySave' = (bySave /\ ~AppliesRead(r))
       /\ reads' = {}
  /\ UNCHANGED <<stored, saving, signals, connected, heard, answers, saves, asked,
                 drops, pageVars>>

FailRead ==
  /\ drops < MaxDrops /\ drops' = drops + 1
  /\ asked < MaxReads /\ asked' = asked + 1
  /\ reads # {}
  /\ reads' = {[seen |-> heard, step |-> "asked", value |-> stored]}
  /\ UNCHANGED <<stored, saving, signals, copy, style, connected, heard, answers, bySave,
                 saves, pageVars>>

Disconnect ==
  /\ connected
  /\ drops < MaxDrops /\ drops' = drops + 1
  /\ connected' = FALSE
  /\ signals' = <<>>
  /\ reads' = {}
  /\ UNCHANGED <<stored, saving, copy, style, heard, answers, bySave, saves, asked, pageVars>>

Reconnect ==
  /\ ~connected
  /\ connected' = TRUE
  /\ asked < MaxReads /\ asked' = asked + 1
  /\ reads' = {[seen |-> heard, step |-> "asked", value |-> stored]}
  /\ UNCHANGED <<stored, saving, signals, copy, style, heard, answers, bySave, saves, drops,
                 pageVars>>

----------------------------------------------------------------------------
\* The page and the watch. A change of the page asks for a scan half a second
\* on, which is before the next tick; `scans` holds the times scans are due,
\* and Never is the one a change asked for.

\* bb draws, changes or takes away a screen, or its own style sheets change:
\* only the first is heard of.
Draw ==
  /\ draws < MaxDraws /\ draws' = draws + 1
  /\ \/ /\ \E e \in Elements, s \in Screens \cup {Gone} :
             /\ page[e] # s
             /\ page' = [page EXCEPT ![e] = s]
             /\ firstSeen' = IF s = Gone THEN [firstSeen EXCEPT ![e] = Never]
                                         ELSE firstSeen
             /\ warned' = IF s = Gone THEN warned \ {e} ELSE warned
        /\ scans' = scans \cup {Never}
        /\ UNCHANGED <<text, phone, style>>
     \/ /\ text' = ~text
        /\ UNCHANGED <<page, phone, style, firstSeen, warned, scans>>
     \/ /\ phone' = ~phone
        /\ style' = Drawn(copy, ~phone)
        /\ UNCHANGED <<page, text, firstSeen, warned, scans>>
  /\ UNCHANGED <<dataVars, clock, drops>>

Watched == {e \in Elements : page[e] # Gone /\ e \notin warned}

New == {e \in Watched : firstSeen[e] = Never}


Due == {e \in Watched \ New : clock - firstSeen[e] >= Grace}

Lacking == {e \in Due : Missing(page[e], text) # {}}

Scan ==
  /\ \E t \in scans :
       /\ t <= clock
       /\ scans' = (scans \ {t}) \cup {clock + Grace : e \in New}
  /\ firstSeen' = [e \in Elements |-> IF e \in New THEN clock ELSE firstSeen[e]]
  /\ warned' = warned \cup Lacking
  /\ UNCHANGED <<dataVars, style, page, text, phone, clock, draws, drops>>

\* No tick passes a scan that is due.
TweaksTick ==
  /\ clock < MaxTime
  /\ \A t \in scans : t > clock
  /\ clock' = clock + 1
  /\ UNCHANGED <<dataVars, style, page, text, phone, firstSeen, warned, scans, draws, drops>>

TweaksNext ==
  \/ ChooseTweak
  \/ \E s \in saving : SetKey(s) \/ PublishSave(s) \/ FailSave(s)
  \/ HearSignal \/ HearAnswer
  \/ AskRead \/ ServeRead \/ HearRead \/ FailRead \/ Disconnect \/ Reconnect
  \/ Draw \/ Scan \/ TweaksTick

TweaksSpec == TweaksInit /\ [][TweaksNext]_tvars

----------------------------------------------------------------------------
\* With nothing on its way, a connected window's copy is what is saved,
\* unless it is the answer of one of its own saves, which is taken whatever
\* was heard since. A read that answers after a signal
\* does not undo it, and a signal missed while disconnected is made good
\* (TweaksSync.tsx; TweaksSection.tsx, save).
CopyIsSaved ==
  /\ connected /\ copy # NoCopy
  /\ saving = {} /\ signals = <<>> /\ reads = {} /\ answers = {}
  => copy = stored \/ bySave

\* The stylesheet reaches exactly the screens that lack nothing, so every
\* screen it leaves alone is one the watch reports (css.ts's selectors,
\* targets.ts's missing targets).
ReachesOrReports ==
  \A e \in Elements : page[e] # Gone =>
    Matches(page[e], text) = (Missing(page[e], text) = {})

=============================================================================
