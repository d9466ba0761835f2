---------------------------- MODULE ParentDialog ----------------------------
(***************************************************************************)
(* The Parent dialog of a window (thread-glance features/thread-actions/   *)
(* components/ParentDialog.tsx, model/parents.ts): a thread is moved under *)
(* another one by three calls of bb's API, after a walk up the other's     *)
(* ancestors.  The threads bb lists leave out archived ones, so the walk   *)
(* reads those from bb, one at a time, while other windows move threads.   *)
(***************************************************************************)
EXTENDS Integers, FiniteSets

CONSTANTS
  Threads,    \* thread ids
  NoParent,   \* None
  Tops,       \* the parents bb may start with: functions of the threads
  MaxRuns,    \* bound: choices made
  MaxMoves,   \* bound: threads moved or archived elsewhere
  MaxFaults   \* bound: calls bb refuses

ParentAssumption ==
  /\ NoParent \notin Threads
  /\ {MaxRuns, MaxMoves, MaxFaults} \subseteq Nat

VARIABLES
  parent,     \* bb: the parent of each thread
  archived,   \* bb: the archived threads
  pinned,     \* bb: the pinned threads
  listed,     \* the threads as the window has them: the parent and pin of each listed one
  dialog,     \* the dialog: its thread, and the archived parent it read
  runs,       \* the choices under way
  told,       \* threads whose move was told as not confirmed to unpin
  moves, runsMade, faults,
  excused     \* whether a thread was moved, or an ancestor not read, during a walk

parentVars == <<parent, archived, pinned, listed, dialog, runs, told, moves, runsMade, faults, excused>>

NoDialog == [thread |-> NoParent, read |-> NoParent, asked |-> FALSE]
List(p, gone, pins) == [t \in Threads \ gone |-> [parent |-> p[t], pinned |-> t \in pins]]
TheList == List(parent, archived, pinned)

\* The threads below one, as far as the links given say.
ChildrenOf(list, set) == {t \in DOMAIN list : list[t].parent \in set}
Descendants(list, root) ==
  LET level[n \in 0..Cardinality(Threads)] ==
        IF n = 0 THEN ChildrenOf(list, {root})
        ELSE level[n - 1] \cup ChildrenOf(list, level[n - 1])
  IN level[Cardinality(Threads)] \ {root}

ParentInit ==
  /\ parent \in Tops
  /\ archived \in SUBSET Threads
  /\ pinned \in {{}, {t \in Threads : parent[t] = NoParent}}
  /\ listed = TheList
  /\ dialog = NoDialog /\ runs = {} /\ told = {}
  /\ moves = 0 /\ runsMade = 0 /\ faults = 0 /\ excused = FALSE

-----------------------------------------------------------------------------
(***************************************************************************)
(* The dialog.                                                             *)
(***************************************************************************)
Open(t) ==
  /\ dialog = NoDialog /\ t \in DOMAIN listed
  /\ dialog' = [thread |-> t, read |-> NoParent,
                asked |-> listed[t].parent # NoParent /\ listed[t].parent \notin DOMAIN listed]
  /\ UNCHANGED <<parent, archived, pinned, listed, runs, told, moves, runsMade, faults, excused>>
CloseDialog ==
  /\ dialog # NoDialog /\ dialog' = NoDialog
  /\ UNCHANGED <<parent, archived, pinned, listed, runs, told, moves, runsMade, faults, excused>>
\* A parent bb does not list is read, so that the dialog shows it.
ReadsParent ==
  /\ dialog.asked /\ dialog.thread \in DOMAIN listed
  /\ \/ dialog' = [dialog EXCEPT !.asked = FALSE, !.read = listed[dialog.thread].parent] /\ faults' = faults
     \/ dialog' = [dialog EXCEPT !.asked = FALSE] /\ faults < MaxFaults /\ faults' = faults + 1
  /\ UNCHANGED <<parent, archived, pinned, listed, runs, told, moves, runsMade, excused>>

\* parentOptions: None, every listed thread but the thread and those below it, and the parent that was read.
Options(t) ==
  LET excluded == {t} \cup Descendants(listed, t)
  IN {NoParent} \cup (DOMAIN listed \ excluded)
       \cup ({dialog.read} \cap {listed[t].parent} \cap (Threads \ excluded))

\* The choice closes the dialog; the current parent changes nothing.  None needs no walk.
ChooseOption(option) ==
  /\ dialog.thread \in DOMAIN listed /\ option \in Options(dialog.thread)
  /\ dialog' = NoDialog
  /\ LET t == dialog.thread
     IN IF option = listed[t].parent THEN UNCHANGED <<runs, runsMade>>
        ELSE /\ runsMade < MaxRuns /\ runsMade' = runsMade + 1
             /\ runs' = runs \cup {[thread |-> t, option |-> option, list |-> listed, at |-> option, seen |-> {},
                                    step |-> IF option = NoParent THEN "update" ELSE "walk",
                                    moved |-> listed # TheList]}
  /\ UNCHANGED <<parent, archived, pinned, listed, told, moves, faults, excused>>

-----------------------------------------------------------------------------
(***************************************************************************)
(* A choice: the walk, the update and the unpin.                           *)
(***************************************************************************)
Becomes(run, next) == runs' = (runs \ {run}) \cup next

NextAncestorListed(run, read) ==  \* mutant: the walk stays among the threads bb lists
  IF run.at \in DOMAIN run.list THEN run.list[run.at].parent ELSE NoParent
NextAncestor(run, read) ==
  IF run.at \in DOMAIN run.list THEN run.list[run.at].parent ELSE read

\* sitsBelow: the thread itself refuses the move; the end of the chain, or a loop, allows it.
Walk(run) ==
  /\ run.step = "walk"
  /\ IF run.at = run.thread THEN Becomes(run, {}) /\ UNCHANGED <<faults, excused>>
     ELSE IF run.at = NoParent \/ run.at \in run.seen
     THEN Becomes(run, {[run EXCEPT !.step = "update"]}) /\ UNCHANGED <<faults, excused>>
     ELSE \/ /\ Becomes(run, {[run EXCEPT !.seen = @ \cup {run.at}, !.at = NextAncestor(run, parent[run.at])]})
             /\ UNCHANGED <<faults, excused>>
          \* an ancestor that cannot be read ends the chain
          \/ /\ run.at \notin DOMAIN run.list /\ faults < MaxFaults
             /\ faults' = faults + 1 /\ excused' = TRUE
             /\ Becomes(run, {[run EXCEPT !.seen = @ \cup {run.at}, !.at = NoParent]})
  /\ UNCHANGED <<parent, archived, pinned, listed, dialog, told, moves, runsMade>>

\* Every other choice under way no longer knows the tree it walked.
Moved(others) == {[r EXCEPT !.moved = TRUE] : r \in others}

UnpinsOnChoice(run) == run.option # NoParent /\ run.list[run.thread].pinned
Update(run) ==
  /\ run.step = "update"
  /\ \/ /\ faults < MaxFaults /\ faults' = faults + 1
        /\ Becomes(run, {}) /\ UNCHANGED <<parent, excused>>
     \/ /\ parent' = [parent EXCEPT ![run.thread] = run.option]
        /\ excused' = (excused \/ (run.moved /\ run.option # NoParent))
        /\ runs' = Moved(runs \ {run}) \cup {[run EXCEPT !.step = "unpin"] : r \in {r \in {run} : UnpinsOnChoice(r)}}
        /\ faults' = faults
  /\ UNCHANGED <<archived, pinned, listed, dialog, told, moves, runsMade>>
Unpin(run) ==
  /\ run.step = "unpin" /\ Becomes(run, {})
  /\ \/ pinned' = pinned \ {run.thread} /\ UNCHANGED <<told, faults>>
     \/ faults < MaxFaults /\ faults' = faults + 1 /\ told' = told \cup {run.thread} /\ pinned' = pinned
  /\ UNCHANGED <<parent, archived, listed, dialog, moves, runsMade, excused>>

-----------------------------------------------------------------------------
(***************************************************************************)
(* bb and the other windows.                                               *)
(***************************************************************************)
Syncs ==
  /\ listed # TheList /\ listed' = TheList
  /\ dialog' = IF dialog # NoDialog /\ dialog.thread \notin DOMAIN TheList THEN NoDialog ELSE dialog
  /\ UNCHANGED <<parent, archived, pinned, runs, told, moves, runsMade, faults, excused>>
Ancestors(p, t) ==
  LET up[n \in 0..Cardinality(Threads)] ==
        IF n = 0 THEN {p[t]} \cap Threads ELSE up[n - 1] \cup ({p[u] : u \in up[n - 1]} \cap Threads)
  IN up[Cardinality(Threads)]
MovedElsewhere(t, under) ==
  /\ moves < MaxMoves /\ moves' = moves + 1
  /\ under # parent[t] /\ under # t /\ t \notin Ancestors(parent, under)
  /\ parent' = [parent EXCEPT ![t] = under]
  /\ runs' = Moved(runs)
  /\ UNCHANGED <<archived, pinned, listed, dialog, told, runsMade, faults, excused>>
ArchivedElsewhere(t) ==
  /\ moves < MaxMoves /\ moves' = moves + 1
  /\ archived' = IF t \in archived THEN archived \ {t} ELSE archived \cup {t}
  /\ UNCHANGED <<parent, pinned, listed, dialog, runs, told, runsMade, faults, excused>>

ParentNext ==
  \/ CloseDialog \/ ReadsParent \/ Syncs
  \/ \E t \in Threads : Open(t) \/ ArchivedElsewhere(t)
  \/ \E option \in Threads \cup {NoParent} : ChooseOption(option)
  \/ \E t \in Threads, under \in Threads : MovedElsewhere(t, under)
  \/ \E run \in runs : Walk(run) \/ Update(run) \/ Unpin(run)

ParentSpec == ParentInit /\ [][ParentNext]_parentVars

-----------------------------------------------------------------------------
\* However deep the archived threads between them, no thread ends below itself: only a thread
\* moved during the walk, a list that lags or an ancestor that cannot be read lets one through.
NoneBelowItself == ~excused => \A t \in Threads : t \notin Ancestors(parent, t)
=============================================================================
