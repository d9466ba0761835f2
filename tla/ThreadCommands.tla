--------------------------- MODULE ThreadCommands ---------------------------
(***************************************************************************)
(* What a window does with one thread's lifecycle commands                 *)
(* (thread-glance features/thread-list/commands/lifecycle.tsx, sweep.ts)   *)
(* and with the offer to close its ports after a settle                    *)
(* (commands/ports-prompt.ts).  Calls are handled, and answered, in any    *)
(* order; the row's signals come in order.  Another window settles and     *)
(* un-settles the same thread.                                             *)
(*                                                                         *)
(* A command the window refuses at once (a busy thread, a child that waits *)
(* on the user) changes nothing and is no step.  Toasts are kept only      *)
(* where they can be pressed: Undo of a settle, and the prompt.            *)
(***************************************************************************)
EXTENDS Integers, Sequences, FiniteSets

CONSTANTS
  MaxCalls,     \* bound: the window's calls
  MaxElsewhere  \* bound: changes another window makes

CommandsAssumption == MaxCalls \in Nat /\ MaxElsewhere \in Nat

VARIABLES
  row,        \* the server: whether the thread's row is settled
  signals,    \* the rows on their way to this window
  held,       \* the row this window holds
  drawn,      \* whether the thread's card is drawn
  sweeping,   \* the card plays the sweep
  calls,      \* the window's calls, oldest first
  undo,       \* the settle toast, with its Undo, is up
  looking,    \* the lookup of owned ports counts
  prompt,     \* whether the prompt is up, and its watch has seen the row settled
  made,       \* how many calls there were
  elsewhere,
  offered     \* history: a settle was answered, and no action of this window followed

commandVars == <<row, signals, held, drawn, sweeping, calls, undo, looking, prompt, made, elsewhere, offered>>

NoPrompt == [up |-> FALSE, seen |-> FALSE]
Acts == {"unsettle", "undoSettle", "snooze", "park", "wake", "resume", "dismissWoke", "clearPinned", "stopPort"}

CommandInit ==
  /\ row = FALSE /\ signals = <<>> /\ held = FALSE
  /\ drawn \in BOOLEAN /\ sweeping = FALSE
  /\ calls = <<>> /\ undo = FALSE
  /\ looking = FALSE /\ prompt = NoPrompt
  /\ made = 0 /\ elsewhere = 0 /\ offered = FALSE

-----------------------------------------------------------------------------
(***************************************************************************)
(* The window.                                                             *)
(***************************************************************************)
Call(what) ==
  /\ made < MaxCalls /\ made' = made + 1
  /\ calls' = Append(calls, [what |-> what, step |-> "sent", answer |-> "none"])
\* dismissPortsPrompt
DismissedOnScreen == looking' = looking /\ prompt' = NoPrompt    \* mutant: the lookup goes on
Dismissed == looking' = FALSE /\ prompt' = NoPrompt

\* settle: the sweep first, when the card is drawn.
Settle ==
  /\ ~sweeping /\ Dismissed /\ offered' = FALSE
  /\ \/ drawn /\ sweeping' = TRUE /\ UNCHANGED <<calls, made>>
     \/ Call("settle") /\ sweeping' = sweeping
  /\ UNCHANGED <<row, signals, held, drawn, undo, elsewhere>>
SweepEnds ==
  /\ sweeping /\ sweeping' = FALSE
  /\ Call("settle")
  /\ UNCHANGED <<row, signals, held, drawn, undo, looking, prompt, elsewhere, offered>>
\* Every other command on the thread dismisses the offer, then asks the server.
Act(what) ==
  /\ Dismissed /\ Call(what) /\ offered' = FALSE
  /\ what = "undoSettle" => undo
  /\ undo' = (undo /\ what # "undoSettle")
  /\ UNCHANGED <<row, signals, held, drawn, sweeping, elsewhere>>
\* cancelSettle leaves the offer alone.
CancelSettle ==
  Call("cancelSettle") /\ UNCHANGED <<row, signals, held, drawn, sweeping, undo, looking, prompt, elsewhere, offered>>
\* The prompt's buttons, and the toast swiped away.
ClosePorts ==
  /\ prompt.up /\ Dismissed /\ Call("closePorts") /\ offered' = FALSE
  /\ UNCHANGED <<row, signals, held, drawn, sweeping, undo, elsewhere>>
KeepOpen ==
  /\ prompt.up /\ Dismissed /\ offered' = FALSE
  /\ UNCHANGED <<row, signals, held, drawn, sweeping, calls, undo, made, elsewhere>>

\* watchSettled: a signal that finds the row no longer settled, once it was seen settled.
Signal ==
  /\ signals # <<>>
  /\ signals' = Tail(signals) /\ held' = Head(signals)
  /\ IF prompt.up /\ ~held' /\ prompt.seen THEN Dismissed
     ELSE prompt' = [prompt EXCEPT !.seen = @ \/ (prompt.up /\ held')] /\ looking' = looking
  /\ UNCHANGED <<row, drawn, sweeping, calls, undo, made, elsewhere, offered>>

\* offerToClosePorts, after a settle.
Answered(i) ==
  /\ calls[i].step = "done"
  /\ LET rest == [j \in 1..Len(calls) - 1 |-> IF j < i THEN calls[j] ELSE calls[j + 1]]
         c == calls[i]
     IN CASE c.what = "settle" /\ c.answer = "settled" ->
               /\ calls' = Append(rest, [what |-> "ownedPorts", step |-> "sent", answer |-> "none"])
               /\ undo' = TRUE /\ looking' = TRUE /\ prompt' = NoPrompt /\ offered' = TRUE
          [] c.what = "ownedPorts" ->
               /\ calls' = rest /\ UNCHANGED <<undo, offered>> /\ looking' = FALSE
               /\ prompt' = IF looking /\ c.answer = "ports" THEN [up |-> TRUE, seen |-> held] ELSE prompt
          [] OTHER -> calls' = rest /\ UNCHANGED <<undo, looking, prompt, offered>>
  /\ UNCHANGED <<row, signals, held, drawn, sweeping, made, elsewhere>>
UndoGoes ==
  undo /\ undo' = FALSE /\ UNCHANGED <<row, signals, held, drawn, sweeping, calls, looking, prompt, made, elsewhere, offered>>

-----------------------------------------------------------------------------
(***************************************************************************)
(* The server, as the window's calls see it.                               *)
(***************************************************************************)
Changes(settled) == row' = settled /\ signals' = IF settled = row THEN signals ELSE Append(signals, settled)
Served(i) ==
  /\ calls[i].step = "sent"
  /\ \E answer \in {"settled", "waiting", "refused", "ports", "none"} :
       /\ calls' = [calls EXCEPT ![i].step = "done", ![i].answer = answer]
       /\ CASE calls[i].what = "settle" ->
                 /\ answer \in {"settled", "waiting", "refused"}
                 /\ IF answer = "settled" THEN Changes(TRUE) ELSE UNCHANGED <<row, signals>>
            [] calls[i].what = "ownedPorts" -> answer \in {"ports", "none", "refused"} /\ UNCHANGED <<row, signals>>
            [] calls[i].what \in {"unsettle", "undoSettle", "snooze", "park"} -> answer = "none" /\ Changes(FALSE)
            [] OTHER -> answer = "none" /\ UNCHANGED <<row, signals>>
  /\ UNCHANGED <<held, drawn, sweeping, undo, looking, prompt, made, elsewhere, offered>>
Elsewhere ==
  /\ elsewhere < MaxElsewhere /\ elsewhere' = elsewhere + 1
  /\ Changes(~row)
  /\ UNCHANGED <<held, drawn, sweeping, calls, undo, looking, prompt, made, offered>>

CommandNext ==
  \/ Settle \/ SweepEnds \/ CancelSettle \/ ClosePorts \/ KeepOpen \/ UndoGoes \/ Signal \/ Elsewhere
  \/ \E what \in Acts : Act(what)
  \/ \E i \in DOMAIN calls : Answered(i) \/ Served(i)

CommandSpec == CommandInit /\ [][CommandNext]_commandVars

-----------------------------------------------------------------------------
\* A prompt stands for a settle that was answered after this window's last action on the
\* thread, though an earlier lookup answers late; and it goes with the thread's leaving
\* Settled, once the window has seen it there.
PromptStandsForASettle == prompt.up => offered /\ (prompt.seen => held)
=============================================================================
