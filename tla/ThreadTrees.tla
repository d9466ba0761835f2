---------------------------- MODULE ThreadTrees ----------------------------
(***************************************************************************)
(* The threads bb has, the tree they form and when one is busy:            *)
(* shared/thread-tree.ts and shared/busy.ts.  The tree is given as the     *)
(* threads above each thread, which is what the parent links come to.      *)
(***************************************************************************)
EXTENDS Integers

CONSTANTS
  Threads,   \* the thread ids
  Above,     \* Above[t]: the threads above t, at any depth
  Hidden     \* bb's helpers, whose questions are no one's to answer

ASSUME TreeAssumption ==
  /\ Above \in [Threads -> SUBSET Threads]
  /\ Hidden \subseteq Threads
  /\ \A t \in Threads : t \notin Above[t] /\ \A a \in Above[t] : Above[a] \subseteq Above[t]

\* descendantIds and treeIds: the thread and every thread below it.
Below(root) == {t \in Threads : root \in Above[t]}
TreeOf(root) == {root} \cup Below(root)

\* hasQueuedMessage and isBusy, over what a listing says of a thread: `work` for
\* what it does, `queue` for a message that waits or failed to send.
HasQueuedMessage(thread) == thread.queue \in {"waiting", "failed"}
IsBusy(thread) == thread.question \/ HasQueuedMessage(thread) \/ thread.work # "none"

\* The threads of a tree as a listing has it: a chain ends at a parent it does not name.
ListedTree(listing, root) ==
  {t \in TreeOf(root) : \A u \in {t} \cup (Above[t] \cap Below(root)) : listing[u].listed}

\* The threads of TLC's runs are numbers: a line of them, each below every smaller one.
Line == [t \in Threads |-> {u \in Threads : u < t}]
=============================================================================
