----------------------------- MODULE ListModel -----------------------------
(***************************************************************************)
(* What thread-glance's list shows of bb's threads, the server's rows and  *)
(* this window's state: which threads are rows of their own and which sit  *)
(* under a parent (features/thread-list/model/forest.ts), the shelf of     *)
(* each (shared/lifecycle.ts), and which rows are drawn under the open     *)
(* and collapsed shelves and groups (model/list-model.ts).                 *)
(*                                                                         *)
(* The inputs are a record: bb's threads and whether each is listed, its   *)
(* parent (0: none), pinned, waits for an answer, works or failed; the     *)
(* rows with their marks; whether the wake times have come; the settings;  *)
(* the scope; what is collapsed; the open thread; and the shelves a rename *)
(* holds.  Attention that ends a mark is Marks'.                           *)
(***************************************************************************)
EXTENDS Integers, Sequences, SequencesExt, FiniteSets

CONSTANTS
  Threads,    \* the threads there can be; a greater number was created later
  Project,    \* each thread's project
  Worktree,   \* each thread's bb worktree, 0 for none
  Old         \* the threads with no activity for the hours set

ModelAssumption == Threads \subseteq Nat \ {0} /\ IsFiniteSet(Threads) /\ Old \subseteq Threads

IsWorking(x) == x.work
IsFailed(x) == x.fail # "none"
Busy(x) == x.question \/ x.work \/ x.fail = "queued"

Listed(in) == {t \in Threads : in.threads[t].listed}
InScope(in, t) == in.scope = {} \/ Project[t] \in in.scope

-----------------------------------------------------------------------------
(***************************************************************************)
(* The forest.                                                             *)
(***************************************************************************)
\* The threads from t up along the links, t first; 0 ends a chain.
Chain(up, t) ==
  LET above[n \in 0..Cardinality(Threads)] ==
        IF n = 0 THEN t ELSE LET u == above[n - 1] IN IF u = 0 THEN 0 ELSE up[u]
  IN {above[n] : n \in DOMAIN above} \ {0}
Endless(up, t) == \A u \in Chain(up, t) : up[u] # 0

\* A thread sits under its parent when the parent is listed and in scope and the thread is
\* not pinned.
Links(in) ==
  [t \in Threads |->
     LET p == in.threads[t].parent
     IN IF t \in Listed(in) /\ p \in Listed(in) /\ ~in.threads[t].pinned /\ InScope(in, p) THEN p ELSE 0]
\* A chain that never ends has no root: its first thread becomes one.
LinksUncut(in) == Links(in)    \* mutant: a cycle of parents is left as it is
ParentOf(in) ==
  FoldLeft(LAMBDA up, t : IF Endless(up, t) THEN [up EXCEPT ![t] = 0] ELSE up,
           Links(in), SetToSortSeq(Listed(in), <))

Roots(in, up) == {t \in Listed(in) : InScope(in, t) /\ up[t] = 0}
RootOf(up, t) == CHOOSE r \in Chain(up, t) : up[r] = 0
TreeAt(up, r) == {t \in Threads : r \in Chain(up, t)}
Under(up, r) == TreeAt(up, r) \ {r}

Signals(in, tree) ==
  [working |-> \E t \in tree : IsWorking(in.threads[t]),
   needsYou |-> \E t \in tree : in.threads[t].question]

\* urgencyOf, over the threads a chip or a header stands for.
Urgency(in, tree) ==
  CASE \E t \in tree : IsFailed(in.threads[t]) -> "failed"
    [] \E t \in tree : in.threads[t].question -> "needs-you"
    [] \E t \in tree : IsWorking(in.threads[t]) -> "working"
    [] OTHER -> "none"

\* liftedIds: the threads a question waits below, at any depth, pinned or out of scope or not.
Lifted(in) ==
  LET raw == [t \in Threads |-> IF in.threads[t].parent \in Listed(in) THEN in.threads[t].parent ELSE 0]
  IN UNION {Chain(raw, t) \ {t} : t \in {u \in Listed(in) : in.threads[u].question}}

-----------------------------------------------------------------------------
(***************************************************************************)
(* The shelves.                                                            *)
(***************************************************************************)
Woke(in, t, lifted) == in.rows[t].mark = "snoozed" /\ (in.late \/ lifted)
MarkShelf(in, t, lifted) ==
  IF in.rows[t].mark = "none" \/ lifted \/ Busy(in.threads[t]) \/ Woke(in, t, FALSE) THEN "active" ELSE in.rows[t].mark

ShelfOf(in, t, tree, lifted) ==
  LET quiet == ~lifted /\ ~Woke(in, t, lifted)
  IN CASE in.threads[t].pinned -> "pinned"
       [] ~in.threads[t].pinned /\ MarkShelf(in, t, lifted) # "active" -> MarkShelf(in, t, lifted)
       [] OTHER ->
            IF in.settings.working /\ quiet /\ tree.working /\ ~tree.needsYou THEN "working"
            ELSE IF in.settings.inactive /\ quiet /\ ~Busy(in.threads[t]) /\ t \in Old THEN "inactive"
            ELSE "active"

\* buildModel: the parents, and the shelf of each row of its own; a renamed row keeps the
\* shelf it was on.
Model(in) ==
  LET up == ParentOf(in)
      lifted == Lifted(in)
  IN [up |-> up,
      shelf |-> [t \in Threads |->
                   IF t \notin Roots(in, up) THEN "none"
                   ELSE IF in.frozen[t] # "none" THEN in.frozen[t]
                   ELSE ShelfOf(in, t, Signals(in, TreeAt(up, t)), t \in lifted)]]

On(m, shelf) == {t \in Threads : m.shelf[t] = shelf}

-----------------------------------------------------------------------------
(***************************************************************************)
(* What is drawn.                                                          *)
(***************************************************************************)
\* The threads of Active in a project's group, and those of them in a worktree's.
Grouped(in, m, t) ==
  LET group == {u \in On(m, "active") : Project[u] = Project[t]}
  IN IF in.grouped /\ m.shelf[t] = "active" /\ Cardinality(group) > 1 THEN group ELSE {}
InWorktree(in, m, t) ==
  LET shared == {u \in Grouped(in, m, t) : Worktree[u] = Worktree[t] /\ Worktree[t] # 0}
  IN IF Cardinality(shared) > 1 THEN shared ELSE {}

\* The rows kept whatever is collapsed: the open thread's and the one being renamed; and,
\* where the setting says, those that need attention.
Kept(in, m) ==
  {RootOf(m.up, t) : t \in {in.active} \cap Listed(in)} \cup {t \in Threads : in.frozen[t] # "none"}
NeedsSelf(in, m, t) == in.threads[t].question \/ IsFailed(in.threads[t])    \* mutant: not what is below
NeedsAttention(in, m, t) == \E u \in TreeAt(m.up, t) : in.threads[u].question \/ IsFailed(in.threads[u])
Keep(in, m, t) == t \in Kept(in, m) \/ (in.settings.attention /\ NeedsAttention(in, m, t))

\* sortSettled: the settled rows in front of t.
Before(in, m, t) == {u \in On(m, "settled") : in.rows[u].at > in.rows[t].at \/ (in.rows[u].at = in.rows[t].at /\ u < t)}

\* itemsFor: whether the row of t is drawn.
RowDrawn(in, m, t) ==
  LET shelf == m.shelf[t]
  IN /\ shelf # "none"
     /\ shelf = "working" => in.settings.working
     /\ shelf \in in.collapsed => Keep(in, m, t)
     /\ Grouped(in, m, t) # {} /\ Project[t] \in in.closedGroups => Keep(in, m, t)
     /\ InWorktree(in, m, t) # {} /\ Worktree[t] \in in.closedWorktrees => t \in Kept(in, m)
     /\ shelf = "settled" /\ shelf \notin in.collapsed => Cardinality(Before(in, m, t)) < in.settledShown

\* The worktree header of t's row is drawn, and stands for its threads while collapsed.
HeaderUrgency(in, m, t) ==
  LET shared == InWorktree(in, m, t)
      shown == {u \in shared : (m.shelf[u] \in in.collapsed \/ Project[u] \in in.closedGroups) => Keep(in, m, u)}
  IN IF Worktree[t] \in in.closedWorktrees /\ shown # {} THEN Urgency(in, UNION {TreeAt(m.up, u) : u \in shared}) ELSE "none"

\* cardKindOf, under Compact all threads.
Card(in, m, t, seen) ==
  CASE m.shelf[t] \in {"none", "snoozed", "parked", "settled"} -> "slim"
    [] m.shelf[t] = "working" -> "folded"
    [] OTHER -> IF \/ IsFailed(in.threads[t])
                   \/ in.threads[t].question /\ t \notin seen
                   \/ \E u \in Under(m.up, t) : in.threads[u].question
                THEN "full" ELSE "folded"
=============================================================================
