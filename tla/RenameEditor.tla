---------------------------- MODULE RenameEditor ----------------------------
(***************************************************************************)
(* The title editor of a row in thread-glance's list, and the focus it     *)
(* guards (components/rows/RenameEditor.tsx, rename-focus.ts; rename in    *)
(* commands.ts).  bb's page and the browser move the focus: by script, as  *)
(* a menu closes, as the focused element is removed, as the window is left.*)
(* One edit of one thread's title; a save that fails leaves the title.     *)
(***************************************************************************)
EXTENDS Naturals

CONSTANTS
  Titles,     \* the titles typed
  Blank,      \* nothing but spaces is typed
  MaxTurns    \* bound: what the user and the page do to the edit

EditorAssumption == Blank \notin Titles /\ MaxTurns \in Nat

VARIABLES
  page,     \* where focus is, whether the window has it, the dialogs and the menu open
  editor,   \* the editor, with the dialogs that were open before it
  title,    \* the thread's stored title
  saving,   \* the titles on their way to bb
  removed,  \* the focused element was removed, and the observer was not called yet
  key,      \* history: the last key pressed in the editor
  turns

editorVars == <<page, editor, title, saving, removed, key, turns>>

Targets == {"composer", "trigger", "old", "new"}
Dialogs == {"old", "new"}
Turn == turns < MaxTurns /\ turns' = turns + 1

-----------------------------------------------------------------------------
(***************************************************************************)
(* What the guard decides.                                                 *)
(***************************************************************************)
LeavesByKey(k) == k = "tab"
IsHeldByDialog(target) == target \in Dialogs \ editor.before

Ended(saves) ==
  /\ editor' = [editor EXCEPT !.open = FALSE, !.ended = TRUE]
  \* rename: a title that is blank or as stored is not sent.
  /\ saving' = IF saves /\ editor.value \notin {Blank, title} THEN saving \cup {editor.value} ELSE saving
Stays == UNCHANGED <<editor, saving>>

\* Focus goes to the target, in a window that has it; a menu's trap pulls it back to its item.
FocusIs(target) == page' = [page EXCEPT !.focus = IF page.menu THEN "item" ELSE target]

\* takeFocusBack, for focus that has moved to the target.
TakesBack(target) ==
  IF ~editor.open \/ target = "editor" \/ IsHeldByDialog(target) THEN FocusIs(target) /\ Stays
  ELSE IF target = "frame" THEN FocusIs(target) /\ Ended(TRUE)
  ELSE FocusIs("editor") /\ Stays

\* Focus leaves the editor for the target: its blur ends the edit after a Tab.
Moves(target) ==
  IF editor.open /\ page.focus = "editor" /\ editor.leaving
  THEN FocusIs(target) /\ Ended(TRUE)
  ELSE TakesBack(target)

EditorInit ==
  /\ \E menu \in BOOLEAN, dialogs \in SUBSET {"old"} :
       page = [focus |-> IF menu THEN "item" ELSE "trigger", window |-> TRUE, dialogs |-> dialogs, menu |-> menu]
  /\ title \in Titles
  /\ editor = [open |-> FALSE, ended |-> FALSE, value |-> title, initial |-> title, leaving |-> FALSE, before |-> {}]
  /\ saving = {} /\ removed = FALSE /\ key = "none" /\ turns = 0

-----------------------------------------------------------------------------
(***************************************************************************)
(* The user.                                                               *)
(***************************************************************************)
\* A menu still open keeps the focus the editor takes.
Open ==
  /\ ~editor.open /\ ~editor.ended
  /\ editor' = [editor EXCEPT !.open = TRUE, !.value = title, !.initial = title, !.before = page.dialogs]
  /\ FocusIs("editor")
  /\ UNCHANGED <<title, saving, removed, key, turns>>

InEditor == editor.open /\ page.focus = "editor" /\ page.window
Type ==
  /\ InEditor /\ Turn
  /\ \E v \in (Titles \cup {Blank}) \ {editor.value} : editor' = [editor EXCEPT !.value = v, !.leaving = FALSE]
  /\ key' = "letter"
  /\ UNCHANGED <<page, title, saving, removed>>
Enter ==
  /\ InEditor /\ Ended(TRUE) /\ key' = "enter"
  /\ page' = [page EXCEPT !.focus = "nothing"]
  /\ UNCHANGED <<title, removed, turns>>
Escape ==
  /\ InEditor /\ Ended(FALSE) /\ key' = "escape"
  /\ page' = [page EXCEPT !.focus = "nothing"]
  /\ UNCHANGED <<title, removed, turns>>
\* Any other key, alone or held with a modifier.
LeavingStays(k) == editor.leaving \/ LeavesByKey(k)    \* mutant: only a Tab sets it, and nothing resets it
Leaving(k) == LeavesByKey(k)
OtherKey(k) ==
  /\ InEditor /\ Turn /\ key' = k
  /\ editor' = [editor EXCEPT !.leaving = Leaving(k)]
  /\ UNCHANGED <<page, title, saving, removed>>
\* A Tab moves the focus on, and its blur ends the edit; one that moves nothing is OtherKey's.
Tab ==
  /\ InEditor /\ key' = "tab"
  /\ page' = [page EXCEPT !.focus = "composer"] /\ Ended(TRUE)
  /\ UNCHANGED <<title, removed, turns>>

\* A press outside the editor ends the edit, before the focus moves; in a frame the page sees only the focus.
Press(target) ==
  /\ editor.open /\ page.window /\ ~page.menu /\ Turn
  /\ target \in Dialogs => target \in page.dialogs
  /\ IF target = "frame" THEN Moves(target)
     ELSE page' = [page EXCEPT !.focus = target] /\ Ended(TRUE)
  /\ key' = "press"
  /\ UNCHANGED <<title, removed>>

-----------------------------------------------------------------------------
(***************************************************************************)
(* The page, the window and the other windows.                             *)
(***************************************************************************)
\* A script focuses something: the composer of a thread just opened, a dialog that opened.
Taken(target) ==
  /\ page.window /\ Turn /\ target # page.focus
  /\ target \in Dialogs => target \in page.dialogs
  /\ Moves(target)
  /\ UNCHANGED <<title, removed, key>>
DialogOpens ==
  /\ Turn
  /\ \E d \in Dialogs \ page.dialogs :
       /\ editor.open => d = "new"
       /\ page' = [page EXCEPT !.dialogs = @ \cup {d}]
  /\ UNCHANGED <<title, removed, key, editor, saving>>
\* The focused element goes, and no event tells it; the observer is called soon.
DialogCloses(d) ==
  /\ d \in page.dialogs
  /\ page' = [page EXCEPT !.dialogs = @ \ {d}, !.focus = IF @ = d THEN "nothing" ELSE @]
  /\ removed' = (removed \/ page.focus = d)
  /\ UNCHANGED <<title, saving, key, editor, turns>>
MenuCloses ==
  /\ page.menu
  /\ \/ /\ page' = [page EXCEPT !.menu = FALSE, !.focus = "nothing"] /\ removed' = TRUE
        /\ Stays
     \/ \* Its trigger is handed the focus, and the editor takes it.
        /\ page' = [page EXCEPT !.menu = FALSE, !.focus = IF editor.open /\ page.window THEN "editor" ELSE "trigger"]
        /\ Stays /\ UNCHANGED removed
  /\ UNCHANGED <<title, key, turns>>
IsFocusOnNothing == page.focus = "nothing" /\ page.window
Observe ==
  /\ removed /\ removed' = FALSE
  /\ IF IsFocusOnNothing THEN TakesBack("nothing") ELSE UNCHANGED <<page, editor, saving>>
  /\ UNCHANGED <<title, key, turns>>
\* Focus falls to nothing with a blur that names no other element.
Blur ==
  /\ InEditor /\ Turn
  /\ IF editor.leaving THEN page' = [page EXCEPT !.focus = "nothing"] /\ Ended(TRUE) ELSE UNCHANGED page /\ Stays
  /\ UNCHANGED <<title, removed, key>>
\* The window is left: the editor's blur ends the edit only after a Tab.
WindowLeft ==
  /\ page.window /\ Turn
  /\ page' = [page EXCEPT !.window = FALSE]
  /\ IF InEditor /\ editor.leaving THEN Ended(TRUE) ELSE Stays
  /\ UNCHANGED <<title, removed, key>>
WindowReturns ==
  /\ ~page.window
  /\ IF ~editor.open \/ page.menu \/ page.focus = "editor" \/ IsHeldByDialog(page.focus)
     THEN page' = [page EXCEPT !.window = TRUE]
     ELSE page' = [page EXCEPT !.window = TRUE, !.focus = "editor"]
  /\ UNCHANGED <<title, saving, removed, key, editor, turns>>
\* bb takes the title, or refuses it; elsewhere the thread is given another.
Stored ==
  /\ \E t \in saving : saving' = saving \ {t} /\ title' \in {t, title}
  /\ UNCHANGED <<page, editor, removed, key, turns>>
Elsewhere ==
  /\ Turn /\ title' \in Titles \ {title}
  /\ UNCHANGED <<page, editor, saving, removed, key>>

EditorNext ==
  \/ Open \/ Type \/ Enter \/ Escape \/ Tab
  \/ \E k \in {"tab", "letter", "modified"} : OtherKey(k)
  \/ \E target \in Targets \cup {"frame"} : Press(target)
  \/ \E target \in Targets : Taken(target)
  \/ DialogOpens \/ \E d \in Dialogs : DialogCloses(d)
  \/ MenuCloses \/ Observe \/ Blur \/ WindowLeft \/ WindowReturns \/ Stored \/ Elsewhere

EditorSpec == EditorInit /\ [][EditorNext]_editorVars

-----------------------------------------------------------------------------
(***************************************************************************)
(* What must hold.                                                         *)
(***************************************************************************)
\* "It keeps focus until the user leaves it ... Leaving the window is not leaving the editor, and a
\* dialog that opens on its own keeps the focus it took" (RenameEditor.tsx:1-8): in a window that has
\* focus, with no menu closing, an open edit has it, or a dialog opened since.
KeepsFocus ==
  editor.open /\ page.window /\ ~page.menu /\ ~removed
  => page.focus \in {"editor"} \cup (page.dialogs \ editor.before)

\* Only the user ends an edit: by a press, by Enter or Escape, or by a Tab pressed last.
KeepsTheEdit ==
  editor.open /\ ~editor'.open => key' \in {"press", "enter", "escape", "tab"}

=============================================================================
