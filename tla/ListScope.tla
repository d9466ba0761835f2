----------------------------- MODULE ListScope -----------------------------
(***************************************************************************)
(* The project scope of one window: the projects the list is limited to,   *)
(* the picker and the pinned projects that choose it, and the mark that    *)
(* tells which projects left out hold a thread that waits for the person   *)
(* (features/thread-list/model/scope.ts, components/ProjectScope.tsx and   *)
(* PinnedProjects.tsx, storage/window-state.ts, the commit of              *)
(* store/list-store.ts).                                                   *)
(*                                                                         *)
(* The scope is a set, kept in the window's session storage, which may     *)
(* refuse a write.  bb's list reaches the window whole, a frame after it   *)
(* came.  A project is a number, in the order of the names; 0 stands for   *)
(* All projects.  Parents make no loop.                                    *)
(***************************************************************************)
EXTENDS ListModel

CONSTANTS
  Projects,    \* the projects there can be
  Queries,     \* what is typed into the filter field: the options each matches; All matches all
  Starts,      \* bound: what bb lists at first
  MaxChanges,  \* bound: how often bb's list changes
  MaxChoices,  \* bound: how often the person chooses or opens the picker
  MaxReloads   \* bound: how often the window is reloaded

ScopeAssumption ==
  /\ Projects \subseteq Nat \ {0}
  /\ \A q \in Queries : q \subseteq {0} \cup Projects
  /\ {MaxChanges, MaxChoices, MaxReloads} \subseteq Nat

AllProjects == {}

VARIABLES
  bb,       \* bb's latest list: its threads and the projects it lists
  window,   \* the list as applied, whether bb has listed yet, and the scope in force
  stored,   \* the scope in session storage
  pins,     \* the projects pinned above the list, in the order they were pinned
  picker,   \* the scope picker: open, the options its filter matches, the highlighted one
  used,     \* how many changes, choices and reloads there were
  \* history
  chosen,   \* the scope the person chose, less the projects gone since
  refused   \* session storage refused the last write

scopeVars == <<bb, window, stored, pins, picker, used, chosen, refused>>

-----------------------------------------------------------------------------
(***************************************************************************)
(* The scope and its options.                                              *)
(***************************************************************************)
ResolveScope(scope, projects, ready) == IF ready THEN scope \cap projects ELSE scope
ToggleProject(scope, p) == IF p \in scope THEN scope \ {p} ELSE scope \cup {p}
ScopeOptions(projects) == <<0>> \o SetToSortSeq(projects, <)
FilterScopeOptions(options, query) == SelectSeq(options, LAMBDA p : p \in query)

\* The index the highlight starts on: the first project in the scope, else All projects.
FirstSelectedIndex(scope, options) ==
  LET picked == {i \in DOMAIN options : options[i] # 0 /\ options[i] \in scope}
  IN IF picked = {} THEN 1 ELSE CHOOSE i \in picked : \A j \in picked : i <= j

\* 0 is no option highlighted.
MoveHighlight(i, key, count) ==
  CASE count = 0 -> 0
    [] count > 0 /\ key = "Home" -> 1
    [] count > 0 /\ key = "End" -> count
    [] count > 0 /\ key = "ArrowDown" -> IF i = 0 THEN 1 ELSE (i % count) + 1
    [] count > 0 /\ key = "ArrowUp" -> IF i <= 1 THEN count ELSE i - 1

ListedPins(pinned, projects) == SelectSeq(pinned, LAMBDA p : p \in projects)

\* The projects the scope leaves out with a listed thread that waits, one on the list under a
\* parent in the scope aside.
UnderAnyParent(threads, scope, t) ==    \* mutant: a pinned thread counts as under its parent
  LET p == threads[t].parent IN p # 0 /\ threads[p].listed /\ Project[p] \in scope
UnderScope(threads, scope, t) ==
  LET p == threads[t].parent
  IN ~threads[t].pinned /\ p # 0 /\ threads[p].listed /\ Project[p] \in scope
ProjectsNeedingYou(scope, threads) ==
  IF scope = AllProjects THEN {}
  ELSE {Project[t] : t \in {u \in Threads : /\ threads[u].question /\ threads[u].listed
                                            /\ Project[u] \notin scope
                                            /\ ~UnderScope(threads, scope, u)}}

-----------------------------------------------------------------------------
ClosedPicker == [open |-> FALSE, query |-> {0} \cup Projects, highlight |-> 0]
NoBb == [threads |-> [t \in Threads |-> [listed |-> FALSE, parent |-> 0, pinned |-> FALSE, question |-> FALSE]],
         projects |-> {}]

\* The window before bb's first list: the scope is the stored one.
Mounted(scope) == [threads |-> NoBb.threads, projects |-> NoBb.projects, ready |-> FALSE, scope |-> scope]

ScopeInit ==
  /\ bb \in Starts
  /\ stored \in {AllProjects, {1}}
  /\ window = Mounted(stored)
  /\ pins = <<1>>
  /\ picker = ClosedPicker
  /\ used = [changes |-> 0, choices |-> 0, reloads |-> 0]
  /\ chosen = stored
  /\ refused = FALSE

\* writeScope: a write that fails leaves what was stored.
WriteScope(scope) ==
  /\ refused' \in BOOLEAN
  /\ stored' = IF refused' THEN stored ELSE scope

\* commit: the scope in force drops the projects that are gone, and the window keeps what is left.
Commit(next) ==
  LET scope == ResolveScope(next.scope, next.projects, next.ready)
  IN /\ window' = [next EXCEPT !.scope = scope]
     /\ IF scope # window.scope THEN WriteScope(scope) ELSE UNCHANGED <<stored, refused>>

Use(what) == used' = [used EXCEPT ![what] = @ + 1]

\* bb's list changes: a thread asks or is answered, moves, is pinned, or goes; a project goes or comes.
Loops(threads) == \E t \in Threads : Endless([u \in Threads |-> threads[u].parent], t)
ThreadChanges ==
  /\ used.changes < MaxChanges /\ Use("changes")
  /\ \E t \in Threads : \E thread \in [listed : BOOLEAN, parent : {0} \cup (Threads \ {t}), pinned : BOOLEAN, question : BOOLEAN] :
       /\ Cardinality({f \in DOMAIN thread : thread[f] # bb.threads[t][f]}) = 1
       /\ bb' = [bb EXCEPT !.threads[t] = thread]
  /\ ~Loops(bb'.threads)
  /\ UNCHANGED <<window, stored, pins, picker, chosen, refused>>
ProjectChanges ==
  /\ used.changes < MaxChanges /\ Use("changes")
  /\ \E p \in Projects : bb' = [bb EXCEPT !.projects = ToggleProject(@, p)]
  /\ UNCHANGED <<window, stored, pins, picker, chosen, refused>>

\* The next frame, or the first data: bb's list is applied as it is now.
Frame ==
  /\ ~window.ready \/ bb.threads # window.threads \/ bb.projects # window.projects
  /\ Commit([window EXCEPT !.threads = bb.threads, !.projects = bb.projects, !.ready = TRUE])
  /\ chosen' = chosen \cap bb.projects
  /\ UNCHANGED <<bb, pins, picker, used>>

\* Another input changes while bb has not listed yet: the rows come, or the clock ticks.
FeedEarly ==
  /\ ~window.ready
  /\ Commit(window)
  /\ UNCHANGED <<bb, pins, picker, used, chosen>>

SetScope(scope) ==
  /\ Commit([window EXCEPT !.scope = scope])
  /\ chosen' = scope

Chooses == window.ready /\ used.choices < MaxChoices /\ Use("choices")
ShownOptions == FilterScopeOptions(ScopeOptions(window.projects), picker.query)
Choose(p) == SetScope(IF p = 0 THEN AllProjects ELSE ToggleProject(window.scope, p))

OpenPicker ==
  /\ Chooses /\ ~picker.open
  /\ picker' = [ClosedPicker EXCEPT !.open = TRUE,
                                    !.highlight = FirstSelectedIndex(window.scope, ScopeOptions(window.projects))]
  /\ UNCHANGED <<bb, window, stored, pins, chosen, refused>>
ClosePicker ==
  /\ picker.open
  /\ picker' = [picker EXCEPT !.open = FALSE]
  /\ UNCHANGED <<bb, window, stored, pins, used, chosen, refused>>
TypeQuery ==
  /\ picker.open
  /\ \E q \in Queries : picker' = [picker EXCEPT !.query = q, !.highlight = 1]
  /\ UNCHANGED <<bb, window, stored, pins, used, chosen, refused>>
MoveKey ==
  /\ picker.open
  /\ \E key \in {"Home", "End", "ArrowDown", "ArrowUp"} :
       picker' = [picker EXCEPT !.highlight = MoveHighlight(@, key, Len(ShownOptions))]
  /\ UNCHANGED <<bb, window, stored, pins, used, chosen, refused>>
Hover ==
  /\ picker.open
  /\ \E i \in DOMAIN ShownOptions : picker' = [picker EXCEPT !.highlight = i]
  /\ UNCHANGED <<bb, window, stored, pins, used, chosen, refused>>

\* Enter takes the highlighted option, if there is one; a click takes any.
Enter ==
  /\ picker.open /\ picker.highlight \in DOMAIN ShownOptions
  /\ Chooses /\ Choose(ShownOptions[picker.highlight])
  /\ UNCHANGED <<bb, pins, picker>>
ClickOption ==
  /\ picker.open /\ Chooses
  /\ \E i \in DOMAIN ShownOptions : Choose(ShownOptions[i])
  /\ UNCHANGED <<bb, pins, picker>>

\* A picker row's pin; and a pinned project's icon, and Reset, above the list.
SetProjectPinned ==
  /\ picker.open /\ Chooses
  /\ \E p \in ToSet(ShownOptions) \ {0} :
       pins' = IF p \in ToSet(pins) THEN SelectSeq(pins, LAMBDA q : q # p) ELSE Append(pins, p)
  /\ UNCHANGED <<bb, window, stored, picker, chosen, refused>>
ClickPin ==
  /\ Chooses
  /\ \E p \in ToSet(ListedPins(pins, window.projects)) : SetScope(ToggleProject(window.scope, p))
  /\ UNCHANGED <<bb, pins, picker>>
Reset ==
  /\ window.scope # AllProjects
  /\ Chooses /\ SetScope(AllProjects)
  /\ UNCHANGED <<bb, pins, picker>>

\* The window is reloaded: the scope is what session storage holds.
Reload ==
  /\ used.reloads < MaxReloads /\ Use("reloads")
  /\ window' = Mounted(stored)
  /\ picker' = ClosedPicker
  /\ chosen' = IF refused THEN stored ELSE chosen
  /\ UNCHANGED <<bb, stored, pins, refused>>

ScopeNext ==
  \/ ThreadChanges \/ ProjectChanges \/ Frame \/ FeedEarly
  \/ OpenPicker \/ ClosePicker \/ TypeQuery \/ MoveKey \/ Hover \/ Enter \/ ClickOption
  \/ SetProjectPinned \/ ClickPin \/ Reset \/ Reload

ScopeSpec == ScopeInit /\ [][ScopeNext]_scopeVars

-----------------------------------------------------------------------------
(***************************************************************************)
(* What must hold.                                                         *)
(***************************************************************************)
\* The threads on the list under a scope: under a row of their own.
OnTheList(scope) ==
  LET in == [threads |-> window.threads, scope |-> scope]
      up == ParentOf(in)
  IN {t \in Threads : \E r \in Roots(in, up) : r \in Chain(up, t)}
Waiting == {t \in Threads : window.threads[t].listed /\ window.threads[t].question}

\* The mark tells exactly the projects of the waiting threads the scope keeps off the list, by
\* the rule the list itself is built with, and adding a marked project brings one of its waiting
\* threads onto the list (model/scope.ts:88-94).  The scope in force is the one last chosen, less
\* the projects bb no longer lists, through reloads the storage allows and while bb has not listed yet.
ScopeTellsWhatItHides ==
  LET marked == ProjectsNeedingYou(window.scope, window.threads)
  IN /\ marked = {Project[t] : t \in Waiting \ OnTheList(window.scope)}
     /\ \A p \in marked : \E t \in Waiting : Project[t] = p /\ t \in OnTheList(window.scope \cup {p})
     /\ window.scope = chosen
=============================================================================
