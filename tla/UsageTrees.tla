----------------------------- MODULE UsageTrees -----------------------------
(***************************************************************************)
(* thread-usage keeps its own copy of bb's thread tree, so that a deleted  *)
(* thread's spending stays in the totals above it, tells every surface     *)
(* whose total may have moved, and warns once about a tree that crosses    *)
(* the Warn above amount (src/core/tree.ts, src/core/budget.ts and their   *)
(* callers in src/server/engine.ts and server.ts).  Each handler runs in   *)
(* one go.  Spending is in units; one amount to warn above.                *)
(***************************************************************************)
EXTENDS Integers, SequencesExt, FiniteSetTheorems, TLAPS

CONSTANTS
  Nodes,      \* the threads
  Root,       \* what a thread at the top has for a parent
  Windows,    \* the windows that show a chip
  Amount,     \* the Warn above amount
  MaxSpent,   \* bound on the tokens of a thread, at the first prices
  MaxChanges  \* bound on what the person does, and on stops

UsageTreesAssumption ==
  Root \notin Nodes /\ IsFiniteSet(Nodes) /\ {Amount, MaxSpent, MaxChanges} \subseteq Nat

VARIABLES
  lives,     \* bb's threads: the parent bb has for each, or NoEdge
  under,     \* the parent the person gave each
  news,      \* what bb has yet to notify, in order, with the parent the person had given
  up,        \* whether the plugin runs
  edges,     \* the stored copy of the tree
  spent,     \* the billed figure of each thread
  crossings, \* the stored crossings, and whether their toast was shown
  saved,     \* whether Warn above is set
  warn,      \* the same, as the plugin last read it
  unheard,   \* a saved change onChange has not handled
  offered,   \* the toasts each window has yet to claim
  shown,     \* the windows that showed a tree's toast
  signal,    \* the threads the last step's usage-changed named
  changes,   \* how often the person changed something, or the plugin stopped
  unswept    \* a price rose, or a call read the settings before onChange did

treesVars == <<lives, under, news, up, edges, spent, crossings, saved, warn, unheard,
               offered, shown, signal, changes, unswept>>

NoEdge == [parent |-> Root, known |-> FALSE, deleted |-> FALSE]
EdgeTo(p) == [parent |-> p, known |-> TRUE, deleted |-> FALSE]

\* the thread, and the parents above it
Chain(es, id) ==
  LET above[n \in 0..Cardinality(Nodes)] ==
        IF n = 0 THEN {id}
        ELSE LET so_far == above[n-1] IN so_far \cup {es[t].parent : t \in so_far \cap Nodes}
  IN above[Cardinality(Nodes)]

TreesInit ==
  /\ under \in [Nodes -> Nodes \cup {Root}]
  /\ \E known \in {k \in SUBSET Nodes : Cardinality(k) \in 1..2} :
       lives = [t \in Nodes |-> IF t \in known THEN EdgeTo(under[t]) ELSE NoEdge]
  /\ \A t \in Nodes : /\ ~lives[t].known => under[t] = Root
                      /\ under[t] # Root => lives[under[t]].known
                      /\ under[t] # t
                      /\ Root \in Chain(lives, t)
  /\ edges = lives
  /\ news = <<>> /\ up = TRUE
  /\ spent = [t \in Nodes |-> 0]
  /\ crossings = [t \in Nodes |-> "none"]
  /\ saved \in BOOLEAN /\ warn = saved /\ unheard = FALSE
  /\ offered = [w \in Windows |-> {}] /\ shown = [t \in Nodes |-> {}]
  /\ signal = {} /\ changes = 0 /\ unswept = FALSE

----------------------------------------------------------------------------
(* Trees.  A chain of parents is cut where it would come back.             *)

\* ancestorIds
AncestorIds(es, id) == Chain(es, id) \ {id, Root}

\* treeIds, down the children
TreeIds(es, root) ==
  LET tree[n \in 0..Cardinality(Nodes)] ==
        IF n = 0 THEN {root}
        ELSE LET so_far == tree[n-1] IN so_far \cup {t \in Nodes : es[t].known /\ es[t].parent \in so_far}
  IN tree[Cardinality(Nodes)]

\* treeFigure
TreeTotal(es, figures, root) == MapThenSumSet(LAMBDA t : figures[t], TreeIds(es, root))

\* newCrossings: once per tree
NewCrossings(es, figures, ids) ==
  {t \in ids : warn /\ TreeTotal(es, figures, t) >= Amount /\ crossings[t] = "none"}

\* changed: the threads and those above them; a crossing tells every surface
WithAncestorsOfOne(es, ids) == LET t == CHOOSE t \in ids : TRUE IN ids \cup AncestorIds(es, t)  \* mutant: of one
WithAncestors(es, ids) == ids \cup UNION {AncestorIds(es, t) : t \in ids}
Changed(es, figures, ids) ==
  LET crossed == NewCrossings(es, figures, WithAncestors(es, ids))
  IN /\ crossings' = [t \in Nodes |-> IF t \in crossed THEN "toast" ELSE crossings[t]]
     /\ signal' = IF crossed = {} THEN WithAncestors(es, ids) ELSE Nodes
NotChanged == signal' = {} /\ UNCHANGED crossings

\* checkAllBudgets: found by a sweep, so no toast
Swept(es, on) ==
  [t \in Nodes |-> IF on /\ es[t].known /\ TreeTotal(es, spent, t) >= Amount /\ crossings[t] = "none"
                   THEN "silent" ELSE crossings[t]]

----------------------------------------------------------------------------
(* bb and the person.                                                      *)

Tell(items) == news' = IF up THEN news \o items ELSE <<>>
Item(ls, given, t) == [thread |-> t, dto |-> ls[t], wanted |-> given[t]]
Quiet == UNCHANGED <<edges, spent, crossings, saved, warn, unheard, offered, shown, up, unswept>>
            /\ signal' = {}
Change == changes < MaxChanges /\ changes' = changes + 1
Living == {t \in Nodes : lives[t].known /\ ~lives[t].deleted}

\* A link made while the plugin is down, or not heard before a stop, is lost for
\* good if its parent is deleted before the next load: none is made.
Create(t, p) ==
  /\ up \/ p = Root
  /\ ~lives[t].known /\ p \in Living \cup {Root}
  /\ lives' = [lives EXCEPT ![t] = EdgeTo(p)]
  /\ under' = [under EXCEPT ![t] = p]
  /\ Tell(<<Item(lives', under', t)>>)
  /\ Change /\ Quiet

\* a person moves threads in a window, which needs the server up
Move(t, p) ==
  /\ up /\ t \in Living /\ p \in (Living \cup {Root}) \ (TreeIds(lives, t) \cup {t, lives[t].parent})
  /\ lives' = [lives EXCEPT ![t].parent = p]
  /\ under' = [under EXCEPT ![t] = p]
  /\ Tell(<<Item(lives', under', t)>>)
  /\ Change /\ Quiet

\* bb detaches the children of a thread it deletes
Delete(t) ==
  /\ t \in Living
  /\ lives' = [u \in Nodes |-> IF u = t THEN [lives[u] EXCEPT !.deleted = TRUE]
                               ELSE IF lives[u].parent = t THEN [lives[u] EXCEPT !.parent = Root]
                               ELSE lives[u]]
  /\ Tell(<<Item(lives', under, t)>>
          \o SetToSeq({Item(lives', under, u) : u \in {v \in Living : lives[v].parent = t}}))
  /\ UNCHANGED under
  /\ Change /\ Quiet

----------------------------------------------------------------------------
(* The plugin.                                                             *)

\* recordThread: a child bb detached from a deleted thread stays under it
RecordedAsTold(es, t, dto) == dto  \* mutant: as bb has it
Recorded(es, t, dto) ==
  IF dto.parent = Root /\ es[t].parent # Root /\ es[es[t].parent].deleted
  THEN [dto EXCEPT !.parent = es[t].parent] ELSE dto

\* the old parent's line of ancestors lost the thread, the new one gained it
Hear ==
  /\ up /\ news # <<>>
  /\ LET t == Head(news).thread
         dto == Recorded(edges, t, Head(news).dto)
         before == edges[t]
     IN /\ edges' = [edges EXCEPT ![t] = dto]
        /\ IF ~before.known \/ dto.deleted THEN Changed(edges', spent, {t})
           ELSE IF before.parent # dto.parent
           THEN Changed(edges', spent, {t} \cup ({before.parent} \ {Root}))
           ELSE NotChanged
  /\ news' = Tail(news)
  /\ UNCHANGED <<lives, under, up, spent, saved, warn, unheard, offered, shown, changes, unswept>>

\* a catch-up or a log read adds to a thread's figure
Spend(t) ==
  /\ up /\ edges[t].known /\ spent[t] < MaxSpent
  /\ spent' = [spent EXCEPT ![t] = @ + 1]
  /\ Changed(edges, spent', {t})
  /\ UNCHANGED <<lives, under, news, up, edges, saved, warn, unheard, offered, shown, changes, unswept>>

\* pricesChanged names no thread, and looks at no budget
Reprice(t) ==
  /\ up /\ edges[t].known /\ 0 < spent[t] /\ Change
  /\ spent' = [spent EXCEPT ![t] = @ + 1]
  /\ signal' = Nodes /\ unswept' = TRUE
  /\ UNCHANGED <<lives, under, news, up, edges, crossings, saved, warn, unheard, offered, shown>>

StopPlugin ==
  /\ up /\ news = <<>> /\ Change
  /\ up' = FALSE /\ news' = <<>> /\ unheard' = FALSE /\ signal' = {}
  /\ UNCHANGED <<lives, under, edges, spent, crossings, saved, warn, offered, shown, unswept>>

\* discover: known threads bb lists no more are stamped first; then the sweep
Stamped == [t \in Nodes |-> [edges[t] EXCEPT !.deleted = @ \/ (edges[t].known /\ lives[t].deleted)]]
LoadPlugin ==
  /\ ~up /\ up' = TRUE
  /\ edges' = [t \in Nodes |-> IF t \in Living THEN Recorded(Stamped, t, lives[t]) ELSE Stamped[t]]
  /\ warn' = saved /\ unheard' = FALSE
  /\ crossings' = Swept(edges', saved)
  /\ signal' = Nodes
  /\ unswept' = FALSE
  /\ UNCHANGED <<lives, under, news, spent, saved, offered, shown, changes>>

SaveWarn ==
  /\ up /\ ~unheard /\ Change
  /\ saved' = ~saved /\ unheard' = TRUE /\ signal' = {}
  /\ UNCHANGED <<lives, under, news, up, edges, spent, crossings, warn, offered, shown, unswept>>

\* every call reads the settings anew
CallReadsSettings ==
  /\ up /\ warn # saved
  /\ warn' = saved /\ unswept' = TRUE /\ signal' = {}
  /\ UNCHANGED <<lives, under, news, up, edges, spent, crossings, saved, unheard, offered, shown, changes>>

OnChange ==
  /\ up /\ unheard
  /\ unheard' = FALSE /\ warn' = saved
  /\ crossings' = IF warn # saved THEN Swept(edges, saved) ELSE crossings
  /\ unswept' = IF warn # saved THEN FALSE ELSE unswept
  /\ signal' = Nodes
  /\ UNCHANGED <<lives, under, news, up, edges, spent, saved, offered, shown, changes>>

\* the chip of a thread offers the toast of its tree, or of one it is in
ReadChip(w, t) ==
  /\ up /\ warn /\ edges[t].known
  /\ \E r \in {t} \cup AncestorIds(edges, t) :
       /\ crossings[r] = "toast" /\ w \notin shown[r] /\ r \notin offered[w]
       /\ offered' = [offered EXCEPT ![w] = @ \cup {r}]
  /\ signal' = {}
  /\ UNCHANGED <<lives, under, news, up, edges, spent, crossings, saved, warn, unheard, shown, changes, unswept>>

\* claimToast: the first window to ask gets it
ClaimedAny(r) == TRUE  \* mutant: whoever asks
Claimed(r) == crossings[r] = "toast"
ClaimToast(w, r) ==
  /\ up /\ r \in offered[w]
  /\ offered' = [offered EXCEPT ![w] = @ \ {r}]
  /\ shown' = IF Claimed(r) THEN [shown EXCEPT ![r] = @ \cup {w}] ELSE shown
  /\ crossings' = IF Claimed(r) THEN [crossings EXCEPT ![r] = "shown"] ELSE crossings
  /\ signal' = {}
  /\ UNCHANGED <<lives, under, news, up, edges, spent, saved, warn, unheard, changes, unswept>>

TreesNext ==
  \/ \E t \in Nodes : \/ \E p \in Nodes \cup {Root} : Create(t, p) \/ Move(t, p)
                      \/ Delete(t) \/ Spend(t) \/ Reprice(t)
                      \/ \E w \in Windows : ReadChip(w, t) \/ ClaimToast(w, t)
  \/ Hear \/ StopPlugin \/ LoadPlugin \/ SaveWarn \/ CallReadsSettings \/ OnChange

TreesSpec == TreesInit /\ [][TreesNext]_treesVars

----------------------------------------------------------------------------
\* Once all is heard, every thread the plugin knows is under the parent the
\* person gave it, though bb detaches the children of what is deleted and the
\* plugin may be stopped meanwhile (recordThread, discover).
KeepsTheTree ==
  up /\ news = <<>> => \A t \in Nodes : edges[t].known => edges[t].parent = under[t]

\* A step that moves a tree's total names the thread at its top, so that no
\* chip goes stale (changed; the comment in HeaderChip.tsx relies on it).
TellsEveryTotal ==
  \A t \in Nodes : TreeTotal(edges', spent', t) # TreeTotal(edges, spent, t) => t \in signal'

\* A tree over the amount has its crossing, however it came to be over it:
\* spending, a move, the setting or a load (checkBudget, checkAllBudgets).
OverIsMarked ==
  up /\ warn /\ ~unheard /\ ~unswept =>
    \A t \in Nodes : edges[t].known /\ TreeTotal(edges, spent, t) >= Amount => crossings[t] # "none"

\* A tree's toast is shown by one window at most, and never for a tree that a
\* sweep found over the amount (claimToast, addCrossing).
ToastsOnce ==
  \A t \in Nodes : Cardinality(shown[t]) <= 1 /\ (crossings[t] = "silent" => shown[t] = {})

-----------------------------------------------------------------------------
(***************************************************************************)
(* Proofs.  A tree's toast is shown once.                                  *)
(***************************************************************************)
\* The toast of a tree is shown by the window that claims it, and only while none has.
ToastOf(t) ==
  /\ crossings[t] # "shown" => shown[t] = {}
  /\ crossings[t] = "shown" => \E w \in Windows : shown[t] = {w}

TInv ==
  /\ crossings \in [Nodes -> {"none", "toast", "silent", "shown"}]
  /\ shown \in [Nodes -> SUBSET Windows]
  /\ \A t \in Nodes : ToastOf(t)

LEMMA InitTInv == TreesInit => TInv
BY DEF TreesInit, TInv, ToastOf

\* A crossing that appears was none.
LEMMA CrossKeeps ==
  ASSUME TInv, shown' = shown, NEW marks \in [Nodes -> {"none", "toast", "silent"}],
         crossings' = [t \in Nodes |-> IF crossings[t] = "none" THEN marks[t] ELSE crossings[t]]
  PROVE  TInv'
BY DEF TInv, ToastOf

LEMMA ChangedKeeps ==
  ASSUME TInv, shown' = shown, NEW es, NEW figures, NEW ids, Changed(es, figures, ids)
  PROVE  TInv'
<1> DEFINE crossed == NewCrossings(es, figures, WithAncestors(es, ids))
           marks == [t \in Nodes |-> IF t \in crossed THEN "toast" ELSE "none"]
<1>1. crossings' = [t \in Nodes |-> IF t \in crossed THEN "toast" ELSE crossings[t]] BY DEF Changed
<1>2. \A t \in crossed : crossings[t] = "none" BY DEF NewCrossings
<1> HIDE DEF crossed
<1>3. marks \in [Nodes -> {"none", "toast", "silent"}] OBVIOUS
<1>4. crossings' = [t \in Nodes |-> IF crossings[t] = "none" THEN marks[t] ELSE crossings[t]]
  BY <1>1, <1>2
<1> HIDE DEF marks
<1> QED BY <1>3, <1>4, CrossKeeps

LEMMA SweptKeeps ==
  ASSUME TInv, shown' = shown, NEW es, NEW on, crossings' = Swept(es, on)
  PROVE  TInv'
<1> DEFINE over(t) == on /\ es[t].known /\ TreeTotal(es, spent, t) >= Amount
           marks == [t \in Nodes |-> IF over(t) THEN "silent" ELSE "none"]
<1>1. crossings' = [t \in Nodes |-> IF over(t) /\ crossings[t] = "none" THEN "silent" ELSE crossings[t]]
  BY DEF Swept
<1> HIDE DEF over
<1>2. marks \in [Nodes -> {"none", "toast", "silent"}] OBVIOUS
<1>3. crossings' = [t \in Nodes |-> IF crossings[t] = "none" THEN marks[t] ELSE crossings[t]]
  BY <1>1
<1> HIDE DEF marks
<1> QED BY <1>2, <1>3, CrossKeeps

LEMMA ClaimKeeps ==
  ASSUME TInv, NEW w \in Windows, NEW r \in Nodes, ClaimToast(w, r) PROVE TInv'
<1>1. CASE crossings[r] = "toast"
  <2>1. shown' = [shown EXCEPT ![r] = @ \cup {w}] /\ crossings' = [crossings EXCEPT ![r] = "shown"]
    BY <1>1 DEF ClaimToast, Claimed
  <2>2. shown[r] = {} BY <1>1 DEF TInv, ToastOf
  <2>3. shown'[r] = {w} BY <2>1, <2>2 DEF TInv
  <2> QED BY <2>1, <2>3 DEF TInv, ToastOf
<1>2. CASE crossings[r] # "toast"
  BY <1>2 DEF ClaimToast, Claimed, TInv, ToastOf
<1> QED BY <1>1, <1>2

LEMMA NextTInv == ASSUME TInv, [TreesNext]_treesVars PROVE TInv'
<1>1. ASSUME UNCHANGED <<crossings, shown>> PROVE TInv' BY <1>1 DEF TInv, ToastOf
<1>2. ASSUME NEW t \in Nodes, NEW p \in Nodes \cup {Root}, Create(t, p) \/ Move(t, p) PROVE TInv'
  BY <1>1, <1>2 DEF Create, Move, Quiet
<1>3. ASSUME NEW t \in Nodes, Delete(t) \/ Reprice(t) PROVE TInv'
  BY <1>1, <1>3 DEF Delete, Reprice, Quiet
<1>4. ASSUME NEW t \in Nodes, Spend(t) PROVE TInv' BY <1>4, ChangedKeeps DEF Spend
<1>5. ASSUME NEW t \in Nodes, NEW w \in Windows, ReadChip(w, t) PROVE TInv' BY <1>1, <1>5 DEF ReadChip
<1>6. ASSUME NEW t \in Nodes, NEW w \in Windows, ClaimToast(w, t) PROVE TInv' BY <1>6, ClaimKeeps
<1>7. CASE Hear
  <2>1. shown' = shown BY <1>7 DEF Hear
  <2>2. crossings' = crossings \/ \E es, ids : Changed(es, spent, ids)
    BY <1>7 DEF Hear, NotChanged
  <2> QED BY <1>1, <2>1, <2>2, ChangedKeeps
<1>8. CASE LoadPlugin BY <1>8, SweptKeeps DEF LoadPlugin
<1>9. CASE OnChange BY <1>1, <1>9, SweptKeeps DEF OnChange
<1>10. CASE StopPlugin \/ SaveWarn \/ CallReadsSettings \/ UNCHANGED treesVars
  BY <1>1, <1>10 DEF StopPlugin, SaveWarn, CallReadsSettings, treesVars
<1> QED BY <1>2, <1>3, <1>4, <1>5, <1>6, <1>7, <1>8, <1>9, <1>10 DEF TreesNext

\* For any threads, windows, amounts and changes: a tree's toast is shown by one window at most,
\* and never for a tree a sweep found over the amount (server.ts, claimToast; addCrossing).
THEOREM OneWindowToasts == TreesSpec => []ToastsOnce
<1>1. TreesInit => TInv BY InitTInv
<1>2. TInv /\ [TreesNext]_treesVars => TInv' BY NextTInv
<1>3. TInv => ToastsOnce
  <2> SUFFICES ASSUME TInv, NEW t \in Nodes
               PROVE  Cardinality(shown[t]) <= 1 /\ (crossings[t] = "silent" => shown[t] = {})
    BY DEF ToastsOnce
  <2>1. crossings[t] = "silent" => shown[t] = {} BY DEF TInv, ToastOf
  <2>2. shown[t] = {} \/ \E w \in Windows : shown[t] = {w} BY DEF TInv, ToastOf
  <2>3. \A w : Cardinality({w}) = 1 BY FS_Singleton
  <2>4. Cardinality({}) = 0 BY FS_EmptySet
  <2> QED BY <2>1, <2>2, <2>3, <2>4
<1> QED BY <1>1, <1>2, <1>3, PTL DEF TreesSpec

-----------------------------------------------------------------------------
(***************************************************************************)
(* The tree is kept: what a plugin knows before each of the news it has    *)
(* yet to hear.                                                            *)
(***************************************************************************)
Edge == [parent : Nodes \cup {Root}, known : BOOLEAN, deleted : BOOLEAN]
NewsItem == [thread : Nodes, dto : Edge, wanted : Nodes \cup {Root}]

TreeTypes ==
  /\ lives \in [Nodes -> Edge] /\ edges \in [Nodes -> Edge]
  /\ under \in [Nodes -> Nodes \cup {Root}]
  /\ news \in Seq(NewsItem) /\ up \in BOOLEAN
  /\ ~up => news = <<>>

\* bb has a thread under the parent the person gave it, or under none since that one was deleted.
LivesInv ==
  \A t \in Nodes :
    /\ under[t] # t
    /\ ~lives[t].known => lives[t] = NoEdge /\ under[t] = Root
    /\ lives[t].parent # Root => lives[t].parent = under[t] /\ ~lives[under[t]].deleted
    /\ lives[t].parent = Root /\ under[t] # Root => lives[under[t]].deleted

\* The plugin knows, or will hear of, each living thread and each that has a child.
KnownInv == \A t \in Nodes :
  (up /\ t \in Living) \/ (\E u \in Nodes : under[u] = t)
    => edges[t].known \/ \E i \in 1..Len(news) : news[i].thread = t

\* Before the i-th news in ns a plugin with the edges es knows that t is deleted.
Deletes(item, t) == item.thread = t /\ item.dto.deleted
Gone(es, ns, t, i) == es[t].deleted \/ \E j \in 1..(i - 1) : Deletes(ns[j], t)

\* What it knows, or will have heard, to be deleted is, and no more is told of it; of a parent that
\* is deleted it knows, or will have heard.
GoneInv ==
  /\ \A t \in Nodes : Gone(edges, news, t, Len(news) + 1) => lives[t].deleted
  /\ \A u, t \in Nodes : up /\ under[u] = t /\ lives[t].deleted => Gone(edges, news, t, Len(news) + 1)
  /\ \A i \in 1..Len(news) : ~Gone(edges, news, news[i].thread, i) /\ news[i].dto.known

\* Before the i-th news in ns a plugin with the edges es has t under v.
Gives(item, t, v) == item.thread = t /\ item.wanted = v
Was(es, ns, t, i, v) ==
  \/ v = es[t].parent /\ \A j \in 1..(i - 1) : ns[j].thread # t
  \/ \E j \in 1..(i - 1) : Gives(ns[j], t, v) /\ \A k \in (j + 1)..(i - 1) : ns[k].thread # t

\* Heard while its thread is under v, news puts it under the parent the person had given it then: bb
\* has it there, and v is not a deleted parent it would be kept under; or bb detached it from v.
Puts(item, v, gone) ==
  \/ item.dto.parent = item.wanted /\ (item.wanted # Root \/ v = Root \/ ~gone)
  \/ item.dto.parent = Root /\ item.wanted = v /\ v # Root /\ gone

LinkInv ==
  /\ \A i \in 1..Len(news), v \in Nodes \cup {Root} :
       Was(edges, news, news[i].thread, i, v) => Puts(news[i], v, Gone(edges, news, v, i))
  /\ \A t \in Nodes, v \in Nodes \cup {Root} : Was(edges, news, t, Len(news) + 1, v) => v = under[t]

KInv == TreeTypes /\ LivesInv /\ KnownInv /\ GoneInv /\ LinkInv

-----------------------------------------------------------------------------
(* News told after what was to be heard. *)

LEMMA Both ==
  ASSUME NEW ns \in Seq(NewsItem), NEW items \in Seq(NewsItem)
  PROVE  /\ ns \o items \in Seq(NewsItem) /\ Len(ns \o items) = Len(ns) + Len(items)
         /\ Len(ns) \in Nat /\ Len(items) \in Nat
         /\ \A i \in 1..Len(ns) : (ns \o items)[i] = ns[i]
         /\ \A i \in 1..Len(items) : (ns \o items)[Len(ns) + i] = items[i]
OBVIOUS

LEMMA TypedNews ==
  ASSUME NEW ns \in Seq(NewsItem), NEW i \in 1..Len(ns)
  PROVE  /\ ns[i] \in NewsItem /\ ns[i].thread \in Nodes
         /\ ns[i].dto \in Edge /\ ns[i].wanted \in Nodes \cup {Root}
<1>1. ns[i] \in NewsItem OBVIOUS
<1> QED BY <1>1 DEF NewsItem

\* What is known before the news that were there does not change.
LEMMA BeforeStays ==
  ASSUME NEW ns \in Seq(NewsItem), NEW items \in Seq(NewsItem), NEW es, NEW i \in 1..(Len(ns) + 1)
  PROVE  /\ \A t : Gone(es, ns \o items, t, i) <=> Gone(es, ns, t, i)
         /\ \A t, v : Was(es, ns \o items, t, i, v) <=> Was(es, ns, t, i, v)
<1> DEFINE all == ns \o items
<1>1. Len(ns) \in Nat /\ i \in Nat /\ \A j \in 1..Len(ns) : all[j] = ns[j] BY Both
<1> HIDE DEF all
<1>2. \A j \in 1..(i - 1) : j \in 1..Len(ns) BY <1>1
<1>3. \A j \in 1..(i - 1) : all[j] = ns[j] BY <1>1, <1>2
<1>4. \A j \in 1..(i - 1) : \A k \in (j + 1)..(i - 1) : k \in 1..(i - 1) BY <1>1
<1>5. \A t : Gone(es, all, t, i) <=> Gone(es, ns, t, i) BY <1>3 DEF Gone
<1>6. ASSUME NEW t, NEW v PROVE Was(es, all, t, i, v) <=> Was(es, ns, t, i, v)
  <2>1. \A j \in 1..(i - 1) : Gives(all[j], t, v) <=> Gives(ns[j], t, v) BY <1>3
  <2>2. \A j \in 1..(i - 1) : (\A k \in (j + 1)..(i - 1) : all[k].thread # t)
                                <=> \A k \in (j + 1)..(i - 1) : ns[k].thread # t
    BY <1>3, <1>4
  <2>3. (\E j \in 1..(i - 1) : Gives(all[j], t, v) /\ \A k \in (j + 1)..(i - 1) : all[k].thread # t)
          <=> \E j \in 1..(i - 1) : Gives(ns[j], t, v) /\ \A k \in (j + 1)..(i - 1) : ns[k].thread # t
    BY <2>1, <2>2
  <2>4. (\A j \in 1..(i - 1) : all[j].thread # t) <=> \A j \in 1..(i - 1) : ns[j].thread # t BY <1>3
  <2> QED BY <2>3, <2>4 DEF Was
<1> QED BY <1>5, <1>6 DEF all

LEMMA GoneLater ==
  ASSUME NEW ns \in Seq(NewsItem), NEW items \in Seq(NewsItem), NEW es, NEW t,
         NEW i \in (Len(ns) + 1)..(Len(ns) + Len(items) + 1)
  PROVE  Gone(es, ns \o items, t, i) <=>
           \/ Gone(es, ns, t, Len(ns) + 1)
           \/ \E j \in 1..(i - Len(ns) - 1) : Deletes(items[j], t)
<1> PICK n : n = Len(ns) OBVIOUS
<1> PICK all : all = ns \o items OBVIOUS
<1>1. /\ n \in Nat /\ Len(items) \in Nat
      /\ \A j \in 1..n : all[j] = ns[j]
      /\ \A j \in 1..Len(items) : all[n + j] = items[j]
  BY Both
<1>2. i \in (n + 1)..(n + Len(items) + 1) /\ i \in Int BY <1>1
<1>3. Gone(es, ns, t, n + 1) <=>
        es[t].deleted \/ \E j \in 1..n : Deletes(ns[j], t)
  <2>1. n + 1 - 1 = n BY <1>1
  <2>2. PICK m : m = n + 1 OBVIOUS
  <2>3. Gone(es, ns, t, m) <=> es[t].deleted \/ \E j \in 1..(m - 1) : Deletes(ns[j], t)
    BY DEF Gone
  <2> QED BY <2>1, <2>2, <2>3
<1>4. Gone(es, all, t, i) <=> es[t].deleted \/ \E j \in 1..(i - 1) : Deletes(all[j], t)
  BY DEF Gone
<1>5. \A j \in 1..n : Deletes(all[j], t) <=> Deletes(ns[j], t) BY <1>1
<1>6. \A j \in 1..(i - n - 1) : Deletes(all[n + j], t) <=> Deletes(items[j], t)
  <2>1. \A j \in 1..(i - n - 1) : j \in 1..Len(items) BY <1>1, <1>2
  <2> QED BY <1>1, <2>1
<1>7. (\E j \in 1..(i - 1) : Deletes(all[j], t)) <=>
        (\E j \in 1..n : Deletes(all[j], t)) \/ \E j \in 1..(i - n - 1) : Deletes(all[n + j], t)
  <2>1. ASSUME NEW j \in 1..(i - 1), Deletes(all[j], t), j \notin 1..n
        PROVE  \E k \in 1..(i - n - 1) : Deletes(all[n + k], t)
    <3>1. j - n \in 1..(i - n - 1) /\ n + (j - n) = j BY <1>1, <1>2, <2>1
    <3> QED BY <2>1, <3>1
  <2>2. ASSUME NEW j \in 1..(i - n - 1) PROVE n + j \in 1..(i - 1) BY <1>1, <1>2
  <2>3. ASSUME NEW j \in 1..n PROVE j \in 1..(i - 1) BY <1>1, <1>2
  <2> QED BY <2>1, <2>2, <2>3
<1> QED BY <1>3, <1>4, <1>5, <1>6, <1>7

LEMMA WasLater ==
  ASSUME NEW ns \in Seq(NewsItem), NEW items \in Seq(NewsItem), NEW es, NEW t, NEW v,
         NEW i \in (Len(ns) + 1)..(Len(ns) + Len(items) + 1), Was(es, ns \o items, t, i, v)
  PROVE  \/ /\ Was(es, ns, t, Len(ns) + 1, v)
            /\ \A j \in 1..(i - Len(ns) - 1) : items[j].thread # t
         \/ \E j \in 1..(i - Len(ns) - 1) : Gives(items[j], t, v)
<1> PICK n : n = Len(ns) OBVIOUS
<1> PICK all : all = ns \o items OBVIOUS
<1>1. /\ n \in Nat /\ Len(items) \in Nat
      /\ \A j \in 1..n : all[j] = ns[j]
      /\ \A j \in 1..Len(items) : all[n + j] = items[j]
  BY Both
<1>2. i \in (n + 1)..(n + Len(items) + 1) /\ i \in Int BY <1>1
<1>3. 1..(n + 1 - 1) = 1..n /\ n + 1 - 1 = n BY <1>1
<1>4. CASE v = es[t].parent /\ \A j \in 1..(i - 1) : all[j].thread # t
  <2>1. \A j \in 1..n : j \in 1..(i - 1) BY <1>1, <1>2
  <2>2. \A j \in 1..n : ns[j].thread # t BY <1>1, <1>4, <2>1
  <2>3. Was(es, ns, t, n + 1, v) BY <1>3, <1>4, <2>2 DEF Was
  <2>4. \A j \in 1..(i - n - 1) : n + j \in 1..(i - 1) /\ j \in 1..Len(items) BY <1>1, <1>2
  <2>5. \A j \in 1..(i - n - 1) : items[j].thread # t BY <1>1, <1>4, <2>4
  <2> QED BY <2>3, <2>5
<1>5. ASSUME NEW j \in 1..(i - 1), Gives(all[j], t, v),
             \A k \in (j + 1)..(i - 1) : all[k].thread # t
      PROVE  \/ Was(es, ns, t, n + 1, v) /\ \A k \in 1..(i - n - 1) : items[k].thread # t
             \/ \E k \in 1..(i - n - 1) : Gives(items[k], t, v)
  <2>1. CASE j <= n
    <3>1. j \in 1..n BY <1>1, <2>1
    <3>2. \A k \in (j + 1)..n : k \in (j + 1)..(i - 1) /\ k \in 1..n BY <1>1, <1>2, <3>1
    <3>3. \A k \in (j + 1)..n : ns[k].thread # t BY <1>1, <1>5, <3>2
    <3>4. Gives(ns[j], t, v) BY <1>1, <1>5, <3>1
    <3>5. Was(es, ns, t, n + 1, v)
      <4> PICK m : m = n + 1 OBVIOUS
      <4>1. m - 1 = n BY <1>1
      <4>2. j \in 1..(m - 1) /\ \A k \in (j + 1)..(m - 1) : ns[k].thread # t BY <3>1, <3>3, <4>1
      <4>3. Was(es, ns, t, m, v) BY <3>4, <4>2 DEF Was
      <4> QED BY <4>3
    <3>6. \A k \in 1..(i - n - 1) : n + k \in (j + 1)..(i - 1) /\ k \in 1..Len(items)
      BY <1>1, <1>2, <3>1
    <3>7. \A k \in 1..(i - n - 1) : items[k].thread # t BY <1>1, <1>5, <3>6
    <3> QED BY <3>5, <3>7
  <2>2. CASE j > n
    <3>1. j - n \in 1..(i - n - 1) /\ j - n \in 1..Len(items) /\ n + (j - n) = j BY <1>1, <1>2, <2>2
    <3>2. items[j - n] = all[j] BY <1>1, <3>1
    <3> QED BY <1>5, <3>1, <3>2
  <2> QED BY <1>1, <2>1, <2>2
<1>6. \/ v = es[t].parent /\ \A j \in 1..(i - 1) : all[j].thread # t
      \/ \E j \in 1..(i - 1) : /\ Gives(all[j], t, v)
                               /\ \A k \in (j + 1)..(i - 1) : all[k].thread # t
  BY <1>2 DEF Was
<1> QED BY <1>4, <1>5, <1>6

-----------------------------------------------------------------------------
(* The first news heard. *)

\* Hearing it leaves the rest as it was to be.
LEMMA GoneNow ==
  ASSUME NEW ns \in Seq(NewsItem), ns # <<>>, NEW es \in [Nodes -> Edge], NEW dto \in Edge,
         dto.deleted = Head(ns).dto.deleted, ~es[Head(ns).thread].deleted,
         NEW i \in 1..Len(ns), NEW t \in Nodes
  PROVE  Gone([es EXCEPT ![Head(ns).thread] = dto], Tail(ns), t, i) <=> Gone(es, ns, t, i + 1)
<1> DEFINE h == Head(ns).thread
           es2 == [es EXCEPT ![h] = dto]
<1>1. Len(ns) \in Nat \ {0} /\ Head(ns) = ns[1] /\ \A j \in 1..(Len(ns) - 1) : Tail(ns)[j] = ns[j + 1]
  OBVIOUS
<1>2. es2[t].deleted <=> es[t].deleted \/ Deletes(ns[1], t)
  BY <1>1 DEF Edge, Deletes
<1>3. Gone(es2, Tail(ns), t, i) <=> es2[t].deleted \/ \E j \in 1..(i - 1) : Deletes(ns[j + 1], t)
  <2>1. \A j \in 1..(i - 1) : Tail(ns)[j] = ns[j + 1] BY <1>1
  <2> QED BY <2>1 DEF Gone
<1>4. Gone(es, ns, t, i + 1) <=> es[t].deleted \/ \E j \in 1..i : Deletes(ns[j], t)
  <2>1. i + 1 - 1 = i OBVIOUS
  <2> QED BY <2>1 DEF Gone
<1>5. (\E j \in 1..i : Deletes(ns[j], t)) <=> Deletes(ns[1], t) \/ \E j \in 1..(i - 1) : Deletes(ns[j + 1], t)
  <2>1. ASSUME NEW j \in 1..i, Deletes(ns[j], t), j # 1 PROVE \E k \in 1..(i - 1) : Deletes(ns[k + 1], t)
    <3>1. j - 1 \in 1..(i - 1) /\ (j - 1) + 1 = j BY <2>1
    <3> QED BY <2>1, <3>1
  <2>2. \A j \in 1..(i - 1) : j + 1 \in 1..i OBVIOUS
  <2>3. 1 \in 1..i OBVIOUS
  <2> QED BY <2>1, <2>2, <2>3
<1> QED BY <1>2, <1>3, <1>4, <1>5

LEMMA WasNow ==
  ASSUME NEW ns \in Seq(NewsItem), ns # <<>>, NEW es \in [Nodes -> Edge], NEW dto \in Edge,
         dto.parent = Head(ns).wanted, NEW i \in 1..Len(ns), NEW t \in Nodes, NEW v,
         Was([es EXCEPT ![Head(ns).thread] = dto], Tail(ns), t, i, v)
  PROVE  Was(es, ns, t, i + 1, v)
<1> DEFINE h == Head(ns).thread
           es2 == [es EXCEPT ![h] = dto]
<1>1. Len(ns) \in Nat \ {0} /\ Head(ns) = ns[1] /\ \A j \in 1..(Len(ns) - 1) : Tail(ns)[j] = ns[j + 1]
  OBVIOUS
<1>2. i + 1 - 1 = i /\ 1 \in 1..i OBVIOUS
<1>3. \A j \in 1..(i - 1) : Tail(ns)[j] = ns[j + 1] BY <1>1
<1>4. \A k \in 2..i : k - 1 \in 1..(i - 1) /\ (k - 1) + 1 = k OBVIOUS
<1>5. CASE v = es2[t].parent /\ \A j \in 1..(i - 1) : Tail(ns)[j].thread # t
  <2>1. \A k \in 2..i : ns[k].thread # t BY <1>3, <1>4, <1>5
  <2>2. CASE t = h
    <3>1. Gives(ns[1], t, v) BY <1>1, <1>5, <2>2 DEF Gives
    <3>2. 1 + 1 = 2 OBVIOUS
    <3> QED BY <1>2, <2>1, <3>1, <3>2 DEF Was
  <2>3. CASE t # h
    <3>1. v = es[t].parent /\ ns[1].thread # t BY <1>1, <1>5, <2>3
    <3>2. \A k \in 1..i : k = 1 \/ k \in 2..i OBVIOUS
    <3>3. \A k \in 1..i : ns[k].thread # t BY <2>1, <3>1, <3>2
    <3> QED BY <1>2, <3>1, <3>3 DEF Was
  <2> QED BY <2>2, <2>3
<1>6. ASSUME NEW j \in 1..(i - 1), Gives(Tail(ns)[j], t, v),
             \A k \in (j + 1)..(i - 1) : Tail(ns)[k].thread # t
      PROVE  Was(es, ns, t, i + 1, v)
  <2>1. j + 1 \in 1..i OBVIOUS
  <2>2. Gives(ns[j + 1], t, v) BY <1>3, <1>6
  <2>3. \A k \in (j + 1 + 1)..i : k - 1 \in (j + 1)..(i - 1) /\ k \in 2..i /\ k - 1 \in 1..(i - 1)
    OBVIOUS
  <2>4. \A k \in (j + 1 + 1)..i : Tail(ns)[k - 1] = ns[k] BY <1>3, <1>4, <2>3
  <2>5. \A k \in (j + 1 + 1)..i : ns[k].thread # t BY <1>6, <2>3, <2>4
  <2> QED BY <1>2, <2>1, <2>2, <2>5 DEF Was
<1>7. (v = es2[t].parent /\ \A j \in 1..(i - 1) : Tail(ns)[j].thread # t)
      \/ \E j \in 1..(i - 1) : Gives(Tail(ns)[j], t, v)
                               /\ \A k \in (j + 1)..(i - 1) : Tail(ns)[k].thread # t
  BY DEF Was
<1> QED BY <1>5, <1>6, <1>7
-----------------------------------------------------------------------------
\* What bb tells next, of the links the person had given, keeps the order the plugin needs.
Told(items) ==
  /\ news' = news \o items /\ edges' = edges
  /\ \A i \in 1..Len(items) : /\ items[i].wanted = under'[items[i].thread]
                              /\ LET v == under[items[i].thread]
                                 IN Puts(items[i], v, Gone(edges, news \o items, v, Len(news) + i))
  /\ Len(items) = 1 \/ under' = under
  /\ \A t \in Nodes : (\A i \in 1..Len(items) : items[i].thread # t) => under'[t] = under[t]

LEMMA LinksStay ==
  ASSUME TreeTypes, LinkInv, NEW items \in Seq(NewsItem), Told(items)
  PROVE  LinkInv'
<1> PICK n : n = Len(news) OBVIOUS
<1> PICK all : all = news \o items OBVIOUS
<1>1. news \in Seq(NewsItem) BY DEF TreeTypes
<1>2. /\ all \in Seq(NewsItem) /\ Len(all) = n + Len(items) /\ n \in Nat /\ Len(items) \in Nat
      /\ \A i \in 1..n : all[i] = news[i]
      /\ \A i \in 1..Len(items) : all[n + i] = items[i]
  BY <1>1, Both
<1>3. news' = all /\ edges' = edges BY DEF Told
<1>4. \A t \in Nodes, v \in Nodes \cup {Root} : Was(edges, news, t, n + 1, v) => v = under[t]
  BY DEF LinkInv
<1>5. \A i \in 1..Len(items) :
        items[i].thread \in Nodes /\ items[i].wanted = under'[items[i].thread]
  BY TypedNews DEF Told
<1>6. ASSUME NEW i \in 1..Len(all), NEW v \in Nodes \cup {Root}, Was(edges, all, all[i].thread, i, v)
      PROVE  Puts(all[i], v, Gone(edges, all, v, i))
  <2>1. CASE i <= n
    <3>1. i \in 1..n /\ i \in 1..(n + 1) BY <1>2, <2>1
    <3>2. all[i] = news[i] BY <1>2, <3>1
    <3>3. Was(edges, news, news[i].thread, i, v) BY <1>1, <1>6, <3>1, <3>2, BeforeStays
    <3>4. Puts(news[i], v, Gone(edges, news, v, i)) BY <3>1, <3>3 DEF LinkInv
    <3>5. Gone(edges, all, v, i) <=> Gone(edges, news, v, i) BY <1>1, <3>1, BeforeStays
    <3> QED BY <3>2, <3>4, <3>5 DEF Puts
  <2>2. CASE i > n
    <3>1. PICK k \in 1..Len(items) : i = n + k
      <4>1. i - n \in 1..Len(items) /\ i = n + (i - n) BY <1>2, <2>2
      <4> QED BY <4>1
    <3>2. PICK t \in Nodes : all[i] = items[k] /\ t = items[k].thread BY <1>2, <1>5, <3>1
    <3>3. Was(edges, news \o items, t, i, v) BY <1>6, <3>2
    <3>4. \/ Was(edges, news, t, n + 1, v)
          \/ \E j \in 1..(k - 1) : Gives(items[j], t, v)
      <4>1. i \in (Len(news) + 1)..(Len(news) + Len(items) + 1) /\ i - Len(news) - 1 = k - 1
        BY <1>2, <3>1
      <4> QED BY <1>1, <3>3, <4>1, WasLater
    <3>5. v = under[t]
      <4>1. CASE Was(edges, news, t, n + 1, v) BY <1>4, <4>1
      <4>2. ASSUME NEW j \in 1..(k - 1), Gives(items[j], t, v)
            PROVE  v = under[t]
        <5>1. j \in 1..Len(items) /\ Len(items) # 1 BY <1>2
        <5>2. under' = under BY <5>1 DEF Told
        <5> QED BY <1>5, <4>2, <5>1, <5>2 DEF Gives
      <4> QED BY <3>4, <4>1, <4>2
    <3> QED BY <3>1, <3>2, <3>5 DEF Told
  <2> QED BY <1>2, <2>1, <2>2
<1>7. ASSUME NEW t \in Nodes, NEW v \in Nodes \cup {Root}, Was(edges, all, t, Len(all) + 1, v)
      PROVE  v = under'[t]
  <2> PICK i : i = Len(all) + 1 OBVIOUS
  <2>1. i \in (Len(news) + 1)..(Len(news) + Len(items) + 1) /\ i - Len(news) - 1 = Len(items)
    BY <1>2
  <2>2. \/ Was(edges, news, t, n + 1, v) /\ \A j \in 1..Len(items) : items[j].thread # t
        \/ \E j \in 1..Len(items) : Gives(items[j], t, v)
    <3>1. Was(edges, news \o items, t, i, v) BY <1>7
    <3> QED BY <1>1, <2>1, <3>1, WasLater
  <2>3. CASE Was(edges, news, t, n + 1, v) /\ \A j \in 1..Len(items) : items[j].thread # t
    BY <1>4, <2>3 DEF Told
  <2>4. CASE \E j \in 1..Len(items) : Gives(items[j], t, v) BY <1>5, <2>4 DEF Gives
  <2> QED BY <2>2, <2>3, <2>4
<1> QED BY <1>3, <1>6, <1>7 DEF LinkInv

LEMMA GoneAfterOne ==
  ASSUME NEW ns \in Seq(NewsItem), NEW item \in NewsItem, NEW es, NEW t
  PROVE  Gone(es, ns \o <<item>>, t, Len(ns) + 2) <=>
           Gone(es, ns, t, Len(ns) + 1) \/ Deletes(item, t)
<1> PICK items : items = <<item>> OBVIOUS
<1> PICK i : i = Len(ns) + 2 OBVIOUS
<1>1. items \in Seq(NewsItem) /\ Len(items) = 1 /\ items[1] = item OBVIOUS
<1>2. i \in (Len(ns) + 1)..(Len(ns) + Len(items) + 1) /\ 1..(i - Len(ns) - 1) = {1} BY <1>1
<1>3. Gone(es, ns \o items, t, i) <=>
        \/ Gone(es, ns, t, Len(ns) + 1)
        \/ \E j \in 1..(i - Len(ns) - 1) : Deletes(items[j], t)
  BY <1>1, <1>2, GoneLater
<1> QED BY <1>1, <1>2, <1>3

\* The one news that bb tells of a thread the person makes, or moves.
LEMMA LinkTold ==
  ASSUME UsageTreesAssumption, KInv, TreeTypes', up, NEW t \in Nodes, NEW p \in Nodes \cup {Root},
         p \in Living \cup {Root}, p # t, lives[t].deleted = FALSE,
         p = Root /\ under[t] # Root => ~lives[under[t]].deleted,
         lives'[t].parent = p, lives'[t].known, lives'[t].deleted = FALSE,
         \A o \in Nodes : o # t => lives'[o] = lives[o],
         under' = [under EXCEPT ![t] = p],
         news' = news \o <<Item(lives', under', t)>>, up' = up, edges' = edges
  PROVE  KInv'
<1> PICK n : n = Len(news) OBVIOUS
<1> PICK item : item = Item(lives', under', t) OBVIOUS
<1> PICK items : items = <<item>> OBVIOUS
<1> PICK all : all = news \o items OBVIOUS
<1>1. TreeTypes /\ LivesInv /\ KnownInv /\ GoneInv /\ LinkInv BY DEF KInv
<1>2. /\ news \in Seq(NewsItem) /\ lives \in [Nodes -> Edge] /\ edges \in [Nodes -> Edge]
      /\ under \in [Nodes -> Nodes \cup {Root}]
      /\ lives' \in [Nodes -> Edge]
  BY <1>1 DEF TreeTypes
<1>3. /\ item.thread = t /\ item.wanted = p
      /\ item.dto.parent = p /\ item.dto.known /\ ~item.dto.deleted /\ item \in NewsItem
  BY <1>2 DEF Item, NewsItem, Edge
<1>4. items \in Seq(NewsItem) /\ Len(items) = 1 /\ items[1] = item BY <1>3
<1>5. /\ all \in Seq(NewsItem) /\ Len(all) = n + 1 /\ n \in Nat
      /\ \A i \in 1..n : all[i] = news[i]
      /\ all[n + 1] = item
  BY <1>2, <1>4, Both
<1>6. news' = all OBVIOUS
<1>7. ASSUME NEW o PROVE Gone(edges, all, o, n + 1) <=> Gone(edges, news, o, n + 1)
  <2>1. n + 1 \in 1..(Len(news) + 1) BY <1>5
  <2> QED BY <1>2, <1>4, <2>1, BeforeStays
<1>8. ASSUME NEW o PROVE Gone(edges, all, o, n + 2) <=> Gone(edges, news, o, n + 1)
  <2>1. Gone(edges, news \o <<item>>, o, Len(news) + 2) <=>
          Gone(edges, news, o, Len(news) + 1) \/ Deletes(item, o)
    BY <1>2, <1>3, GoneAfterOne
  <2> QED BY <1>3, <2>1 DEF Deletes
<1>9. \A o \in Nodes : lives'[o].deleted = lives[o].deleted BY <1>2 DEF Edge
<1>10. LivesInv'
  BY <1>1, <1>2, <1>9 DEF LivesInv, Living, NoEdge, Edge
<1>11. KnownInv'
  <2> SUFFICES ASSUME NEW o \in Nodes, o \in Living' \/ \E u \in Nodes : under'[u] = o
               PROVE  edges[o].known \/ \E i \in 1..Len(all) : all[i].thread = o
    BY <1>6 DEF KnownInv
  <2>1. CASE o = t
    <3>1. n + 1 \in 1..Len(all) BY <1>5
    <3> QED BY <1>3, <1>5, <2>1, <3>1
  <2>2. CASE o # t
    <3>1. o \in Living \/ \E u \in Nodes : under[u] = o BY <1>2, <2>2 DEF Living, UsageTreesAssumption
    <3>2. edges[o].known \/ \E i \in 1..n : news[i].thread = o BY <1>1, <3>1 DEF KnownInv
    <3>3. \A i \in 1..n : i \in 1..Len(all) BY <1>5
    <3> QED BY <1>5, <3>2, <3>3
  <2> QED BY <2>1, <2>2
<1>12. GoneInv'
  <2>1. n + 1 + 1 = n + 2 BY <1>5
  <2>2. \A o \in Nodes : Gone(edges, all, o, Len(all) + 1) => lives'[o].deleted
    BY <1>1, <1>5, <1>8, <1>9, <2>1 DEF GoneInv
  <2>3. ASSUME NEW u \in Nodes, NEW o \in Nodes, under'[u] = o, lives'[o].deleted
        PROVE  Gone(edges, all, o, Len(all) + 1)
    <3>1. under[u] = o BY <1>2, <1>9, <2>3 DEF Living, UsageTreesAssumption
    <3>2. Gone(edges, news, o, n + 1) BY <1>1, <1>9, <2>3, <3>1 DEF GoneInv
    <3> QED BY <1>5, <1>8, <2>1, <3>2
  <2>4. ASSUME NEW i \in 1..Len(all) PROVE ~Gone(edges, all, all[i].thread, i) /\ all[i].dto.known
    <3>1. CASE i \in 1..n
      <4>1. i \in 1..(Len(news) + 1) BY <1>5, <3>1
      <4>2. Gone(edges, all, news[i].thread, i) <=> Gone(edges, news, news[i].thread, i)
        BY <1>2, <1>4, <4>1, BeforeStays
      <4> QED BY <1>1, <1>5, <3>1, <4>2 DEF GoneInv
    <3>2. CASE i = n + 1
      <4>1. ~Gone(edges, news, t, n + 1) BY <1>1 DEF GoneInv
      <4> QED BY <1>3, <1>5, <1>7, <3>2, <4>1
    <3> QED BY <1>5, <3>1, <3>2
  <2> QED BY <1>6, <2>2, <2>3, <2>4 DEF GoneInv
<1>13. Told(items)
  <2>1. Puts(item, under[t], Gone(edges, all, under[t], n + 1))
    <3>1. CASE p # Root \/ under[t] = Root BY <1>3, <3>1 DEF Puts
    <3>2. CASE p = Root /\ under[t] # Root
      <4>1. under[t] \in Nodes /\ ~lives[under[t]].deleted BY <1>2, <3>2
      <4>2. ~Gone(edges, news, under[t], n + 1) BY <1>1, <4>1 DEF GoneInv
      <4> QED BY <1>3, <1>7, <3>2, <4>2 DEF Puts
    <3> QED BY <3>1, <3>2
  <2>2. under'[t] = p /\ \A u \in Nodes : u # t => under'[u] = under[u] BY <1>2
  <2>3. \A i \in 1..Len(items) : i = 1 BY <1>4
  <2>4. 1 \in 1..Len(items) BY <1>4
  <2> QED BY <1>3, <1>4, <1>6, <2>1, <2>2, <2>3, <2>4 DEF Told
<1> QED BY <1>1, <1>4, <1>10, <1>11, <1>12, <1>13, LinksStay DEF KInv

LEMMA CreateKInv ==
  ASSUME UsageTreesAssumption, KInv, NEW t \in Nodes, NEW p \in Nodes \cup {Root}, Create(t, p)
  PROVE  KInv'
<1>1. TreeTypes /\ LivesInv /\ KnownInv /\ GoneInv /\ LinkInv BY DEF KInv
<1>2. /\ news \in Seq(NewsItem) /\ lives \in [Nodes -> Edge] /\ edges \in [Nodes -> Edge]
      /\ under \in [Nodes -> Nodes \cup {Root}] /\ up \in BOOLEAN /\ (~up => news = <<>>)
  BY <1>1 DEF TreeTypes
<1>3. /\ up \/ p = Root
      /\ ~lives[t].known /\ p \in Living \cup {Root}
      /\ lives' = [lives EXCEPT ![t] = [parent |-> p, known |-> TRUE, deleted |-> FALSE]]
      /\ under' = [under EXCEPT ![t] = p]
      /\ news' = (IF up THEN news \o <<Item(lives', under', t)>> ELSE <<>>)
      /\ up' = up /\ edges' = edges
  BY DEF Create, Tell, Quiet, EdgeTo
<1>4. lives[t] = NoEdge /\ under[t] = Root /\ lives[t].deleted = FALSE /\ p # t
  <2>1. lives[t] = NoEdge /\ under[t] = Root BY <1>1, <1>3 DEF LivesInv
  <2>2. p # t BY <1>3 DEF Living, UsageTreesAssumption
  <2> QED BY <2>1, <2>2 DEF NoEdge
<1>5. TreeTypes'
  <2>1. lives' \in [Nodes -> Edge] /\ under' \in [Nodes -> Nodes \cup {Root}] BY <1>2, <1>3 DEF Edge
  <2>2. Item(lives', under', t) \in NewsItem BY <2>1 DEF Item, NewsItem
  <2>3. news' \in Seq(NewsItem) BY <1>2, <1>3, <2>2
  <2> QED BY <1>2, <1>3, <2>1, <2>3 DEF TreeTypes
<1>6. CASE up
  <2>1. /\ lives'[t].parent = p /\ lives'[t].known /\ lives'[t].deleted = FALSE
        /\ \A o \in Nodes : o # t => lives'[o] = lives[o]
    BY <1>2, <1>3
  <2>2. news' = news \o <<Item(lives', under', t)>> BY <1>3, <1>6
  <2>3. p = Root /\ under[t] # Root => ~lives[under[t]].deleted BY <1>4
  <2> QED BY <1>3, <1>4, <1>5, <1>6, <2>1, <2>2, <2>3, LinkTold
<1>7. CASE ~up
  <2>1. under' = under /\ news' = news BY <1>2, <1>3, <1>4, <1>7
  <2>2. \A o \in Nodes : lives'[o].deleted = lives[o].deleted BY <1>2, <1>3, <1>4
  <2>3. LivesInv' BY <1>1, <1>2, <1>3, <1>4, <1>7, <2>1, <2>2 DEF LivesInv, NoEdge
  <2>4. KnownInv' BY <1>1, <1>3, <1>7, <2>1 DEF KnownInv
  <2>5. GoneInv' BY <1>1, <1>3, <1>7, <2>1, <2>2 DEF GoneInv
  <2>6. LinkInv' BY <1>1, <1>3, <2>1 DEF LinkInv
  <2> QED BY <1>5, <2>3, <2>4, <2>5, <2>6 DEF KInv
<1> QED BY <1>6, <1>7

LEMMA MoveKInv ==
  ASSUME UsageTreesAssumption, KInv, NEW t \in Nodes, NEW p \in Nodes \cup {Root}, Move(t, p)
  PROVE  KInv'
<1>1. TreeTypes /\ LivesInv BY DEF KInv
<1>2. /\ news \in Seq(NewsItem) /\ lives \in [Nodes -> Edge] /\ edges \in [Nodes -> Edge]
      /\ under \in [Nodes -> Nodes \cup {Root}] /\ up \in BOOLEAN /\ (~up => news = <<>>)
  BY <1>1 DEF TreeTypes
<1>3. /\ up /\ t \in Living /\ p \in Living \cup {Root} /\ p # t /\ p # lives[t].parent
      /\ lives' = [lives EXCEPT ![t].parent = p]
      /\ under' = [under EXCEPT ![t] = p]
      /\ news' = news \o <<Item(lives', under', t)>>
      /\ up' = up /\ edges' = edges
  BY DEF Move, Tell, Quiet
<1>4. /\ lives'[t].parent = p /\ lives'[t].known /\ lives'[t].deleted = FALSE
      /\ \A o \in Nodes : o # t => lives'[o] = lives[o]
  <2>1. lives[t] \in Edge /\ lives[t].known = TRUE /\ lives[t].deleted = FALSE
    BY <1>2, <1>3 DEF Living, Edge
  <2> QED BY <1>2, <1>3, <2>1 DEF Edge
<1>5. TreeTypes'
  <2>1. lives' \in [Nodes -> Edge] /\ under' \in [Nodes -> Nodes \cup {Root}]
    BY <1>2, <1>3, <1>4 DEF Edge
  <2>2. Item(lives', under', t) \in NewsItem BY <2>1 DEF Item, NewsItem
  <2>3. news' \in Seq(NewsItem) BY <1>2, <1>3, <2>2
  <2> QED BY <1>2, <1>3, <2>1, <2>3 DEF TreeTypes
<1>6. lives[t].deleted = FALSE /\ (p = Root /\ under[t] # Root => ~lives[under[t]].deleted)
  BY <1>1, <1>2, <1>3 DEF LivesInv, Living, Edge
<1> QED BY <1>3, <1>4, <1>5, <1>6, LinkTold

LEMMA ListedNews ==
  ASSUME NEW C \in SUBSET Nodes, IsFiniteSet(C), NEW ls, NEW given,
         \A u \in C : Item(ls, given, u) \in NewsItem
  PROVE  /\ SetToSeq({Item(ls, given, u) : u \in C}) \in Seq(NewsItem)
         /\ LET told == SetToSeq({Item(ls, given, u) : u \in C})
            IN \A i \in 1..Len(told) : \E u \in C : told[i] = Item(ls, given, u)
<1> DEFINE told == {Item(ls, given, u) : u \in C}
           made == [u \in C |-> Item(ls, given, u)]
<1>1. \A u, v \in C : made[u] = made[v] => u = v BY DEF Item
<1>2. made \in Bijection(C, told)
  <2>1. made \in [C -> told] OBVIOUS
  <2>2. \A x \in told : \E u \in C : made[u] = x OBVIOUS
  <2> QED BY <1>1, <2>1, <2>2 DEF Bijection, Injection, Surjection, IsInjective
<1> HIDE DEF made
<1>3. IsFiniteSet(told)
  <2>1. ExistsBijection(C, told) BY <1>2 DEF ExistsBijection
  <2> HIDE DEF told
  <2> QED BY <2>1, FS_Bijection
<1>4. told \subseteq NewsItem OBVIOUS
<1>5. \A x \in told : \E u \in C : x = Item(ls, given, u) OBVIOUS
<1> HIDE DEF told
<1>6. Cardinality(told) \in Nat /\ ExistsBijection(1..Cardinality(told), told)
  BY <1>3, FS_CardinalityType
<1>7. PICK f \in [1..Cardinality(told) -> told] : IsInjective(f)
  BY <1>6 DEF ExistsBijection, Bijection, Injection, IsInjective
<1>8. SetToSeq(told) \in [1..Cardinality(told) -> told] BY <1>7 DEF SetToSeq
<1>9. SetToSeq(told) \in Seq(NewsItem) /\ Len(SetToSeq(told)) = Cardinality(told)
  BY <1>4, <1>6, <1>8
<1> QED BY <1>5, <1>8, <1>9 DEF told

LEMMA DeleteKInv == ASSUME UsageTreesAssumption, KInv, NEW t \in Nodes, Delete(t) PROVE KInv'
<1> DEFINE C == {v \in Living : lives[v].parent = t}
           told == SetToSeq({Item(lives', under, u) : u \in C})
<1> PICK items : items = <<Item(lives', under, t)>> \o told OBVIOUS
<1> PICK n : n = Len(news) OBVIOUS
<1> PICK all : all = news \o items OBVIOUS
<1>1. TreeTypes /\ LivesInv /\ KnownInv /\ GoneInv /\ LinkInv BY DEF KInv
<1>2. /\ news \in Seq(NewsItem) /\ lives \in [Nodes -> Edge] /\ edges \in [Nodes -> Edge]
      /\ under \in [Nodes -> Nodes \cup {Root}] /\ up \in BOOLEAN /\ (~up => news = <<>>)
  BY <1>1 DEF TreeTypes
<1>3. /\ t \in Living /\ under' = under /\ up' = up /\ edges' = edges
      /\ lives' = [u \in Nodes |-> IF u = t THEN [lives[u] EXCEPT !.deleted = TRUE]
                                   ELSE IF lives[u].parent = t THEN [lives[u] EXCEPT !.parent = Root]
                                   ELSE lives[u]]
      /\ news' = IF up THEN news \o items ELSE <<>>
  BY DEF Delete, Tell, Quiet
<1>4. /\ lives' \in [Nodes -> Edge]
      /\ lives'[t].deleted /\ lives'[t].parent = lives[t].parent
      /\ \A u \in Nodes : lives'[u].known = lives[u].known
      /\ \A u \in Nodes : u # t => lives'[u].deleted = lives[u].deleted
      /\ \A u \in Nodes : u # t => lives'[u].parent = IF lives[u].parent = t THEN Root ELSE lives[u].parent
  <2>1. lives'[t] = [lives[t] EXCEPT !.deleted = TRUE] /\ lives[t] \in Edge BY <1>2, <1>3 DEF Living
  <2>2. ASSUME NEW u \in Nodes, u # t
        PROVE  /\ lives[u] \in Edge
               /\ lives'[u] = IF lives[u].parent = t THEN [lives[u] EXCEPT !.parent = Root] ELSE lives[u]
    BY <1>2, <1>3, <2>2
  <2>3. /\ lives'[t] \in Edge /\ lives'[t].deleted /\ lives'[t].parent = lives[t].parent
        /\ lives'[t].known = lives[t].known
    BY <2>1 DEF Edge
  <2>4. ASSUME NEW u \in Nodes, u # t
        PROVE  /\ lives'[u] \in Edge /\ lives'[u].known = lives[u].known
               /\ lives'[u].deleted = lives[u].deleted
               /\ lives'[u].parent = IF lives[u].parent = t THEN Root ELSE lives[u].parent
    <3>1. CASE lives[u].parent = t BY <2>2, <2>4, <3>1 DEF Edge
    <3>2. CASE lives[u].parent # t BY <2>2, <2>4, <3>2
    <3> QED BY <3>1, <3>2
  <2>5. DOMAIN lives' = Nodes /\ \A u \in Nodes : lives'[u] \in Edge BY <1>3, <2>3, <2>4
  <2>6. lives' = [u \in Nodes |-> lives'[u]] BY <1>3
  <2>7. lives' \in [Nodes -> Edge] BY <2>5, <2>6
  <2> QED BY <2>3, <2>4, <2>7
<1>5. /\ lives[t].parent # t /\ lives[t].known /\ ~lives[t].deleted /\ t # Root
      /\ \A u \in C : u \in Nodes /\ u # t /\ ~lives[u].deleted /\ lives[u].known /\ under[u] = t
  <2>1. t # Root /\ lives[t].known /\ ~lives[t].deleted BY <1>3 DEF Living, UsageTreesAssumption
  <2>2. ASSUME NEW u \in Nodes, lives[u].parent = t PROVE under[u] = t /\ u # t
    BY <1>1, <2>1, <2>2 DEF LivesInv
  <2>3. lives[t].parent # t BY <2>2
  <2>4. \A u \in C : u \in Nodes /\ lives[u].parent = t /\ ~lives[u].deleted /\ lives[u].known
    BY DEF Living
  <2> HIDE DEF C
  <2> QED BY <2>1, <2>2, <2>3, <2>4
<1>6. \A u \in Nodes : Item(lives', under, u) \in NewsItem BY <1>2, <1>4 DEF Item, NewsItem
<1>7. told \in Seq(NewsItem) /\ \A i \in 1..Len(told) : \E u \in C : told[i] = Item(lives', under, u)
  <2>1. C \in SUBSET Nodes /\ IsFiniteSet(C)
    <3>1. C \in SUBSET Nodes BY DEF Living
    <3> QED BY <3>1, FS_Subset DEF UsageTreesAssumption
  <2> HIDE DEF C
  <2> QED BY <1>6, <2>1, ListedNews
<1> HIDE DEF told, C
<1>8. /\ items \in Seq(NewsItem) /\ Len(items) \in Nat \ {0}
      /\ items[1] = Item(lives', under, t)
      /\ \A i \in 1..Len(items) : i = 1 \/ \E u \in C : items[i] = Item(lives', under, u)
  <2> PICK first : first = Item(lives', under, t) OBVIOUS
  <2>1. items = <<first>> \o told /\ first \in NewsItem BY <1>6
  <2>2. /\ items \in Seq(NewsItem) /\ Len(items) = Len(told) + 1 /\ Len(told) \in Nat
        /\ items[1] = first /\ \A i \in 1..Len(told) : items[i + 1] = told[i]
    BY <1>7, <2>1
  <2>3. \A i \in 2..Len(items) : i - 1 \in 1..Len(told) /\ (i - 1) + 1 = i BY <2>2
  <2>4. \A i \in 2..Len(items) : items[i] = told[i - 1] BY <2>2, <2>3
  <2>5. \A i \in 1..Len(items) : i = 1 \/ i \in 2..Len(items) BY <2>2
  <2>6. \A i \in 2..Len(items) : \E u \in C : items[i] = Item(lives', under, u)
    BY <1>7, <2>3, <2>4
  <2> QED BY <2>2, <2>5, <2>6
<1>9. TreeTypes'
  <2>1. news \o items \in Seq(NewsItem) /\ <<>> \in Seq(NewsItem) BY <1>2, <1>8
  <2>2. news' = news \o items \/ news' = <<>> BY <1>3
  <2>3. ~up => news' = <<>> BY <1>3
  <2> QED BY <1>2, <1>3, <1>4, <2>1, <2>2, <2>3 DEF TreeTypes
<1>10. LivesInv'
  <2> SUFFICES ASSUME NEW u \in Nodes
               PROVE  /\ under[u] # u
                      /\ ~lives'[u].known => lives'[u] = NoEdge /\ under[u] = Root
                      /\ lives'[u].parent # Root => lives'[u].parent = under[u] /\ ~lives'[under[u]].deleted
                      /\ lives'[u].parent = Root /\ under[u] # Root => lives'[under[u]].deleted
    BY <1>3 DEF LivesInv
  <2>1. /\ under[u] # u
        /\ ~lives[u].known => lives[u] = NoEdge /\ under[u] = Root
        /\ lives[u].parent # Root => lives[u].parent = under[u] /\ ~lives[under[u]].deleted
        /\ lives[u].parent = Root /\ under[u] # Root => lives[under[u]].deleted
    BY <1>1 DEF LivesInv
  <2>2. CASE ~lives'[u].known
    <3>1. ~lives[u].known /\ u # t BY <1>4, <1>5, <2>2
    <3>2. lives'[u] = lives[u] BY <1>3, <1>5, <2>1, <3>1 DEF NoEdge
    <3>3. lives[u].parent = Root BY <2>1, <3>1 DEF NoEdge
    <3> QED BY <2>1, <3>1, <3>2, <3>3
  <2>3. CASE lives'[u].known
    <3>1. under[u] \in Nodes \cup {Root} /\ lives[u].parent \in Nodes \cup {Root} BY <1>2 DEF Edge
    <3>2. lives'[u].parent # Root => lives'[u].parent = under[u] /\ ~lives'[under[u]].deleted
      BY <1>4, <1>5, <2>1, <3>1
    <3>3. lives'[u].parent = Root /\ under[u] # Root => lives'[under[u]].deleted
      BY <1>4, <1>5, <2>1, <3>1
    <3> QED BY <2>1, <2>3, <3>2, <3>3
  <2> QED BY <2>2, <2>3
<1>11. CASE ~up
  <2>1. news' = news BY <1>2, <1>3, <1>11
  <2>2. KnownInv' BY <1>1, <1>3, <1>11, <2>1 DEF KnownInv
  <2>3. GoneInv' BY <1>1, <1>3, <1>4, <1>11, <2>1 DEF GoneInv
  <2>4. LinkInv' BY <1>1, <1>3, <2>1 DEF LinkInv
  <2> QED BY <1>9, <1>10, <2>2, <2>3, <2>4 DEF KInv
<1>12. CASE up
  <2>1. news' = all /\ edges' = edges /\ under' = under BY <1>3, <1>12
  <2>2. /\ all \in Seq(NewsItem) /\ Len(all) = n + Len(items) /\ n \in Nat
        /\ \A i \in 1..n : all[i] = news[i]
        /\ \A i \in 1..Len(items) : all[n + i] = items[i]
    BY <1>2, <1>8, Both
  <2>3. ASSUME NEW i \in 1..Len(items), NEW o \in Nodes PROVE Deletes(items[i], o) <=> i = 1 /\ o = t
    <3>1. CASE i = 1 BY <1>4, <1>8, <3>1 DEF Deletes, Item
    <3>2. CASE i # 1
      <4>1. PICK u \in C : items[i] = Item(lives', under, u) BY <1>8, <3>2
      <4>2. ~lives'[u].deleted BY <1>4, <1>5
      <4> QED BY <3>2, <4>1, <4>2 DEF Deletes, Item
    <3> QED BY <3>1, <3>2
  <2>4. ASSUME NEW i \in (n + 1)..(n + Len(items) + 1), NEW o \in Nodes
        PROVE  Gone(edges, all, o, i) <=> Gone(edges, news, o, n + 1) \/ (o = t /\ i # n + 1)
    <3>1. i \in (Len(news) + 1)..(Len(news) + Len(items) + 1) OBVIOUS
    <3>2. Gone(edges, news \o items, o, i) <=>
            \/ Gone(edges, news, o, Len(news) + 1)
            \/ \E j \in 1..(i - Len(news) - 1) : Deletes(items[j], o)
      BY <1>2, <1>8, <3>1, GoneLater
    <3>3. \A j \in 1..(i - Len(news) - 1) : j \in 1..Len(items) BY <1>8, <2>2
    <3>4. i # n + 1 <=> 1 \in 1..(i - Len(news) - 1) BY <2>2
    <3>5. (\E j \in 1..(i - Len(news) - 1) : Deletes(items[j], o)) <=> o = t /\ i # n + 1
      BY <2>3, <3>3, <3>4
    <3> QED BY <3>2, <3>5
  <2>5. KnownInv'
    <3> SUFFICES ASSUME NEW o \in Nodes, o \in Living' \/ \E u \in Nodes : under[u] = o
                 PROVE  edges[o].known \/ \E i \in 1..Len(all) : all[i].thread = o
      BY <2>1 DEF KnownInv
    <3>1. o \in Living \/ \E u \in Nodes : under[u] = o BY <1>4, <1>5 DEF Living
    <3>2. edges[o].known \/ \E i \in 1..n : news[i].thread = o BY <1>1, <1>12, <3>1 DEF KnownInv
    <3>3. \A i \in 1..n : i \in 1..Len(all) BY <1>8, <2>2
    <3> QED BY <2>2, <3>2, <3>3
  <2>6. GoneInv'
    <3> PICK e : e = Len(all) + 1 OBVIOUS
    <3>1. e \in (n + 1)..(n + Len(items) + 1) /\ e # n + 1 BY <1>8, <2>2
    <3>2. \A o \in Nodes : Gone(edges, all, o, e) <=> Gone(edges, news, o, n + 1) \/ o = t
      BY <2>4, <3>1
    <3>3. \A o \in Nodes : Gone(edges, news, o, n + 1) => lives[o].deleted BY <1>1 DEF GoneInv
    <3>4. \A o \in Nodes : Gone(edges, all, o, e) => lives'[o].deleted BY <1>4, <3>2, <3>3
    <3>5. ASSUME NEW u \in Nodes, NEW o \in Nodes, under[u] = o, lives'[o].deleted
          PROVE  Gone(edges, all, o, e)
      <4>1. o # t => Gone(edges, news, o, n + 1) BY <1>1, <1>4, <1>12, <3>5 DEF GoneInv
      <4> QED BY <3>2, <4>1
    <3>6. ASSUME NEW i \in 1..Len(all) PROVE ~Gone(edges, all, all[i].thread, i) /\ all[i].dto.known
      <4>1. CASE i \in 1..n
        <5>1. i \in 1..(Len(news) + 1) BY <2>2, <4>1
        <5>2. Gone(edges, all, news[i].thread, i) <=> Gone(edges, news, news[i].thread, i)
          BY <1>2, <1>8, <5>1, BeforeStays
        <5> QED BY <1>1, <2>2, <4>1, <5>2 DEF GoneInv
      <4>2. CASE i > n
        <5>1. PICK k \in 1..Len(items) : i = n + k
          <6>1. i - n \in 1..Len(items) /\ i = n + (i - n) BY <1>8, <2>2, <4>2
          <6> QED BY <6>1
        <5>2. i \in (n + 1)..(n + Len(items) + 1) /\ (i = n + 1 <=> k = 1) BY <1>8, <2>2, <5>1
        <5>3. PICK u \in Nodes : /\ items[k] = Item(lives', under, u) /\ lives[u].known
                                 /\ ~lives[u].deleted /\ (u = t => k = 1)
          BY <1>3, <1>5, <1>8 DEF Living
        <5>4. all[i].thread = u /\ all[i].dto.known BY <1>4, <2>2, <5>1, <5>3 DEF Item
        <5> QED BY <2>4, <3>3, <5>2, <5>3, <5>4
      <4> QED BY <2>2, <4>1, <4>2
    <3> QED BY <1>3, <2>1, <3>4, <3>5, <3>6 DEF GoneInv
  <2>7. Told(items)
    <3>1. ASSUME NEW i \in 1..Len(items)
          PROVE  /\ items[i].wanted = under[items[i].thread]
                 /\ Puts(items[i], under[items[i].thread], Gone(edges, all, under[items[i].thread], n + i))
      <4> PICK k : k = n + i OBVIOUS
      <4>1. k \in (n + 1)..(n + Len(items) + 1) /\ (k = n + 1 <=> i = 1) BY <1>8, <2>2
      <4>2. CASE i = 1
        <5>1. /\ items[i].thread = t /\ items[i].wanted = under[t]
              /\ items[i].dto.parent = lives[t].parent
          BY <1>4, <1>8, <4>2 DEF Item
        <5>2. lives[t].parent = Root \/ lives[t].parent = under[t] BY <1>1 DEF LivesInv
        <5>3. CASE lives[t].parent = under[t] BY <5>1, <5>3 DEF Puts
        <5>4. CASE lives[t].parent = Root /\ under[t] # Root
          <6>1. lives[under[t]].deleted /\ under[t] \in Nodes BY <1>1, <1>2, <5>4 DEF LivesInv
          <6>2. Gone(edges, news, under[t], n + 1) BY <1>1, <1>12, <6>1 DEF GoneInv
          <6>3. Gone(edges, all, under[t], k) BY <2>4, <4>1, <6>1, <6>2
          <6> QED BY <5>1, <5>4, <6>3 DEF Puts
        <5> QED BY <5>1, <5>2, <5>3, <5>4
      <4>3. CASE i # 1
        <5>1. PICK u \in C : items[i] = Item(lives', under, u) BY <1>8, <4>3
        <5>2. u \in Nodes /\ u # t /\ under[u] = t /\ lives'[u].parent = Root
          BY <1>4, <1>5 DEF C
        <5>3. /\ items[i].thread = u /\ items[i].wanted = t /\ items[i].dto.parent = Root
          BY <5>1, <5>2 DEF Item
        <5>4. Gone(edges, all, t, k) BY <2>4, <4>1, <4>3
        <5> QED BY <1>5, <5>2, <5>3, <5>4 DEF Puts
      <4> QED BY <4>2, <4>3
    <3> QED BY <1>3, <2>1, <3>1 DEF Told
  <2> QED BY <1>1, <1>8, <1>9, <1>10, <2>5, <2>6, <2>7, LinksStay DEF KInv
<1> QED BY <1>2, <1>11, <1>12

LEMMA HearKInv == ASSUME UsageTreesAssumption, KInv, Hear PROVE KInv'
<1> PICK n : n = Len(news) OBVIOUS
<1> PICK t : t = Head(news).thread OBVIOUS
<1> PICK dto : dto = Recorded(edges, t, Head(news).dto) OBVIOUS
<1> PICK es : es = [edges EXCEPT ![t] = dto] OBVIOUS
<1>1. TreeTypes /\ LivesInv /\ KnownInv /\ GoneInv /\ LinkInv BY DEF KInv
<1>2. /\ news \in Seq(NewsItem) /\ lives \in [Nodes -> Edge] /\ edges \in [Nodes -> Edge]
      /\ under \in [Nodes -> Nodes \cup {Root}]
  BY <1>1 DEF TreeTypes
<1>3. /\ up /\ news # <<>> /\ edges' = es /\ news' = Tail(news)
      /\ lives' = lives /\ under' = under /\ up' = up
  BY DEF Hear
<1>4. /\ n \in Nat \ {0} /\ 1 \in 1..n /\ Head(news) = news[1]
      /\ Tail(news) \in Seq(NewsItem) /\ Len(Tail(news)) = n - 1
      /\ \A i \in 1..(n - 1) : Tail(news)[i] = news[i + 1] /\ i + 1 \in 1..n
  BY <1>2, <1>3
<1>5. /\ t \in Nodes /\ t = news[1].thread /\ news[1].dto \in Edge /\ news[1].wanted \in Nodes \cup {Root}
  BY <1>2, <1>4, TypedNews
<1>6. \A o : Gone(edges, news, o, 1) <=> edges[o].deleted BY DEF Gone
<1>7. ~edges[t].deleted /\ news[1].dto.known BY <1>1, <1>4, <1>5, <1>6 DEF GoneInv
<1>8. /\ dto \in Edge /\ dto.known /\ dto.deleted = Head(news).dto.deleted
      /\ dto.parent = Head(news).wanted
  <2> PICK v : v = edges[t].parent OBVIOUS
  <2>1. v \in Nodes \cup {Root} BY <1>2, <1>5 DEF Edge
  <2>2. Was(edges, news, t, 1, v) BY DEF Was
  <2>3. Puts(news[1], v, Gone(edges, news, v, 1)) BY <1>1, <1>4, <1>5, <2>1, <2>2 DEF LinkInv
  <2>4. Puts(news[1], v, edges[v].deleted) BY <1>6, <2>3 DEF Puts
  <2>5. dto = IF news[1].dto.parent = Root /\ v # Root /\ edges[v].deleted
              THEN [news[1].dto EXCEPT !.parent = v] ELSE news[1].dto
    BY <1>4 DEF Recorded
  <2>6. CASE news[1].dto.parent = Root /\ v # Root /\ edges[v].deleted
    <3>1. dto = [news[1].dto EXCEPT !.parent = v] BY <2>5, <2>6
    <3>2. dto \in Edge /\ dto.known = news[1].dto.known /\ dto.deleted = news[1].dto.deleted /\ dto.parent = v
      BY <1>5, <2>1, <3>1 DEF Edge
    <3>3. news[1].wanted = v BY <2>4, <2>6 DEF Puts
    <3> QED BY <1>4, <1>7, <3>2, <3>3
  <2>7. CASE ~(news[1].dto.parent = Root /\ v # Root /\ edges[v].deleted)
    <3>1. dto = news[1].dto BY <2>5, <2>7
    <3>2. news[1].dto.parent = news[1].wanted BY <2>4, <2>7 DEF Puts
    <3> QED BY <1>4, <1>5, <1>7, <3>1, <3>2
  <2> QED BY <2>6, <2>7
<1>9. ASSUME NEW i \in 1..n, NEW o \in Nodes
      PROVE  Gone(es, Tail(news), o, i) <=> Gone(edges, news, o, i + 1)
  BY <1>2, <1>3, <1>5, <1>7, <1>8, GoneNow
<1>10. ASSUME NEW i \in 1..n, NEW o \in Nodes, NEW v, Was(es, Tail(news), o, i, v)
       PROVE  Was(edges, news, o, i + 1, v)
  BY <1>2, <1>3, <1>8, <1>10, WasNow
<1>11. n - 1 + 1 = n /\ n \in 1..n BY <1>4
<1>12. TreeTypes'
  <2>1. es \in [Nodes -> Edge] BY <1>2, <1>5, <1>8
  <2> QED BY <1>1, <1>3, <1>4, <2>1 DEF TreeTypes
<1>13. LivesInv' BY <1>1, <1>3 DEF LivesInv
<1>14. KnownInv'
  <2> SUFFICES ASSUME NEW o \in Nodes, o \in Living \/ \E u \in Nodes : under[u] = o
               PROVE  es[o].known \/ \E i \in 1..(n - 1) : Tail(news)[i].thread = o
    BY <1>3, <1>4 DEF KnownInv, Living
  <2>1. edges[o].known \/ \E i \in 1..n : news[i].thread = o BY <1>1, <1>3 DEF KnownInv
  <2>2. CASE o = t BY <1>2, <1>5, <1>8, <2>2
  <2>3. CASE o # t /\ edges[o].known BY <1>2, <2>3
  <2>4. ASSUME o # t, NEW i \in 1..n, news[i].thread = o
        PROVE  \E j \in 1..(n - 1) : Tail(news)[j].thread = o
    <3>1. i # 1 BY <1>5, <2>4
    <3>2. i - 1 \in 1..(n - 1) /\ (i - 1) + 1 = i BY <1>4, <3>1
    <3>3. Tail(news)[i - 1] = news[i] BY <1>4, <3>2
    <3> QED BY <2>4, <3>2, <3>3
  <2> QED BY <2>1, <2>2, <2>3, <2>4
<1>15. GoneInv'
  <2>1. \A o \in Nodes : Gone(es, Tail(news), o, n) <=> Gone(edges, news, o, n + 1) BY <1>9, <1>11
  <2>2. ASSUME NEW i \in 1..(n - 1)
        PROVE  ~Gone(es, Tail(news), Tail(news)[i].thread, i) /\ Tail(news)[i].dto.known
    <3>1. /\ i + 1 \in 1..n /\ i \in 1..n /\ Tail(news)[i] = news[i + 1]
          /\ news[i + 1].thread \in Nodes
      BY <1>2, <1>4, TypedNews
    <3>2. ~Gone(edges, news, news[i + 1].thread, i + 1) /\ news[i + 1].dto.known
      BY <1>1, <3>1 DEF GoneInv
    <3> QED BY <1>9, <3>1, <3>2
  <2>3. Len(Tail(news)) = n - 1 /\ Len(Tail(news)) + 1 = n BY <1>4
  <2>4. \A o \in Nodes : Gone(es, Tail(news), o, Len(Tail(news)) + 1) <=> Gone(edges, news, o, Len(news) + 1)
    BY <2>1, <2>3
  <2>5. \A i \in 1..Len(Tail(news)) :
          ~Gone(es, Tail(news), Tail(news)[i].thread, i) /\ Tail(news)[i].dto.known
    BY <2>2, <2>3
  <2> QED BY <1>1, <1>3, <2>4, <2>5 DEF GoneInv
<1>16. LinkInv'
  <2>1. ASSUME NEW i \in 1..(n - 1), NEW v \in Nodes \cup {Root},
               Was(es, Tail(news), Tail(news)[i].thread, i, v)
        PROVE  Puts(Tail(news)[i], v, Gone(es, Tail(news), v, i))
    <3>1. /\ i + 1 \in 1..n /\ i \in 1..n /\ Tail(news)[i] = news[i + 1]
          /\ news[i + 1].thread \in Nodes
      BY <1>2, <1>4, TypedNews
    <3>2. Was(edges, news, news[i + 1].thread, i + 1, v) BY <1>10, <2>1, <3>1
    <3>3. Puts(news[i + 1], v, Gone(edges, news, v, i + 1)) BY <1>1, <3>1, <3>2 DEF LinkInv
    <3>4. v # Root => (Gone(es, Tail(news), v, i) <=> Gone(edges, news, v, i + 1)) BY <1>9, <3>1
    <3> QED BY <3>1, <3>3, <3>4 DEF Puts
  <2>2. ASSUME NEW o \in Nodes, NEW v \in Nodes \cup {Root}, Was(es, Tail(news), o, n, v)
        PROVE  v = under[o]
    <3>1. Was(edges, news, o, n + 1, v) BY <1>10, <1>11, <2>2
    <3> QED BY <1>1, <3>1 DEF LinkInv
  <2>3. Len(Tail(news)) = n - 1 /\ Len(Tail(news)) + 1 = n BY <1>4
  <2>4. \A i \in 1..Len(Tail(news)), v \in Nodes \cup {Root} :
          Was(es, Tail(news), Tail(news)[i].thread, i, v) => Puts(Tail(news)[i], v, Gone(es, Tail(news), v, i))
    BY <2>1, <2>3
  <2>5. \A o \in Nodes, v \in Nodes \cup {Root} :
          Was(es, Tail(news), o, Len(Tail(news)) + 1, v) => v = under[o]
    BY <2>2, <2>3
  <2> QED BY <1>3, <2>4, <2>5 DEF LinkInv
<1> QED BY <1>12, <1>13, <1>14, <1>15, <1>16 DEF KInv

LEMMA LoadKInv == ASSUME UsageTreesAssumption, KInv, LoadPlugin PROVE KInv'
<1>1. TreeTypes /\ LivesInv /\ KnownInv /\ GoneInv /\ LinkInv BY DEF KInv
<1>2. /\ news = <<>> /\ Len(news) = 0 /\ lives \in [Nodes -> Edge] /\ edges \in [Nodes -> Edge]
      /\ under \in [Nodes -> Nodes \cup {Root}]
  BY <1>1 DEF TreeTypes, LoadPlugin
<1>3. /\ lives' = lives /\ under' = under /\ news' = news /\ up'
      /\ edges' = [t \in Nodes |-> IF t \in Living THEN Recorded(Stamped, t, lives[t]) ELSE Stamped[t]]
  BY DEF LoadPlugin
<1>4. \A es, o : Gone(es, news, o, 1) <=> es[o].deleted BY DEF Gone
<1>5. \A es, o, v : Was(es, news, o, 1, v) <=> v = es[o].parent BY DEF Was
<1>6. \A t \in Nodes : edges[t].deleted => lives[t].deleted BY <1>1, <1>2, <1>4 DEF GoneInv
<1>7. \A t \in Nodes : edges[t].parent = under[t]
  <2>1. \A t \in Nodes : edges[t].parent \in Nodes \cup {Root} BY <1>2 DEF Edge
  <2>2. ASSUME NEW t \in Nodes PROVE edges[t].parent = under[t]
    <3>1. Len(news) + 1 = 1 BY <1>2
    <3>2. Was(edges, news, t, Len(news) + 1, edges[t].parent) BY <1>5, <3>1
    <3> QED BY <1>1, <2>1, <3>2 DEF LinkInv
  <2> QED BY <2>2
<1>8. \A t \in Nodes : (\E u \in Nodes : under[u] = t) => edges[t].known BY <1>1, <1>2 DEF KnownInv
<1>9. ASSUME NEW t \in Nodes
      PROVE  /\ Stamped[t] \in Edge /\ Stamped[t].parent = under[t] /\ Stamped[t].known = edges[t].known
             /\ Stamped[t].deleted <=> edges[t].deleted \/ (edges[t].known /\ lives[t].deleted)
  <2>1. Stamped[t] = [edges[t] EXCEPT !.deleted = @ \/ (edges[t].known /\ lives[t].deleted)] BY DEF Stamped
  <2>2. edges[t] \in Edge /\ lives[t] \in Edge BY <1>2
  <2> QED BY <1>7, <2>1, <2>2 DEF Edge
<1> HIDE DEF Stamped
<1>10. ASSUME NEW t \in Nodes
       PROVE  /\ edges'[t] \in Edge /\ edges'[t].parent = under[t]
              /\ t \in Living \/ edges[t].known => edges'[t].known
              /\ edges'[t].deleted => lives[t].deleted
              /\ edges[t].known /\ lives[t].deleted => edges'[t].deleted
  <2>1. CASE t \notin Living
    <3>1. edges'[t] = Stamped[t] BY <1>3, <2>1
    <3> QED BY <1>6, <1>9, <2>1, <3>1
  <2>2. CASE t \in Living
    <3>1. edges'[t] = Recorded(Stamped, t, lives[t]) BY <1>3, <2>2
    <3>2. lives[t] \in Edge /\ lives[t].known /\ ~lives[t].deleted BY <1>2, <2>2 DEF Living
    <3>3. CASE lives[t].parent = Root /\ under[t] # Root /\ Stamped[under[t]].deleted
      <4>1. edges'[t] = [lives[t] EXCEPT !.parent = under[t]] BY <1>9, <3>1, <3>3 DEF Recorded
      <4>2. under[t] \in Nodes \cup {Root} BY <1>2
      <4> QED BY <3>2, <4>1, <4>2 DEF Edge
    <3>4. CASE ~(lives[t].parent = Root /\ under[t] # Root /\ Stamped[under[t]].deleted)
      <4>1. edges'[t] = lives[t] BY <1>9, <3>1, <3>4 DEF Recorded
      <4>2. ASSUME lives[t].parent = Root, under[t] # Root PROVE FALSE
        <5>1. under[t] \in Nodes /\ lives[under[t]].deleted BY <1>1, <1>2, <4>2 DEF LivesInv
        <5>2. edges[under[t]].known BY <1>8, <5>1
        <5> QED BY <1>9, <3>4, <4>2, <5>1, <5>2
      <4>3. lives[t].parent = under[t] BY <1>1, <4>2 DEF LivesInv
      <4> QED BY <3>2, <4>1, <4>3
    <3> QED BY <3>3, <3>4
  <2> QED BY <2>1, <2>2
<1>11. TreeTypes'
  <2>1. edges' = [t \in Nodes |-> edges'[t]] BY <1>3
  <2>2. edges' \in [Nodes -> Edge] BY <1>10, <2>1
  <2> QED BY <1>1, <1>3, <2>2 DEF TreeTypes, LoadPlugin
<1>12. LivesInv' BY <1>1, <1>3 DEF LivesInv
<1>13. KnownInv'
  <2>1. \A t \in Nodes : t \in Living \/ (\E u \in Nodes : under[u] = t) => edges'[t].known BY <1>8, <1>10
  <2> QED BY <1>3, <2>1 DEF KnownInv, Living
<1>14. GoneInv'
  <2>1. \A t \in Nodes : Gone(edges', news, t, 1) => lives[t].deleted BY <1>4, <1>10
  <2>2. \A u, t \in Nodes : under[u] = t /\ lives[t].deleted => Gone(edges', news, t, 1)
    BY <1>4, <1>8, <1>10
  <2> QED BY <1>2, <1>3, <2>1, <2>2 DEF GoneInv
<1>15. LinkInv'
  <2>1. \A t \in Nodes, v \in Nodes \cup {Root} : Was(edges', news, t, 1, v) => v = under[t]
    BY <1>5, <1>10
  <2> QED BY <1>2, <1>3, <2>1 DEF LinkInv
<1> QED BY <1>11, <1>12, <1>13, <1>14, <1>15 DEF KInv

LEMMA InitKInv == ASSUME UsageTreesAssumption, TreesInit PROVE KInv
<1>1. /\ under \in [Nodes -> Nodes \cup {Root}] /\ edges = lives /\ news = <<>> /\ up = TRUE
      /\ \A t \in Nodes : /\ ~lives[t].known => under[t] = Root
                          /\ under[t] # Root => lives[under[t]].known
                          /\ under[t] # t
  BY DEF TreesInit
<1>2. PICK known \in SUBSET Nodes : lives = [t \in Nodes |-> IF t \in known THEN EdgeTo(under[t]) ELSE NoEdge]
  BY DEF TreesInit
<1>3. /\ lives \in [Nodes -> Edge]
      /\ \A t \in Nodes : /\ lives[t].parent = under[t] /\ lives[t].deleted = FALSE
                          /\ ~lives[t].known => lives[t] = NoEdge
  BY <1>1, <1>2 DEF EdgeTo, NoEdge, Edge
<1>4. TreeTypes BY <1>1, <1>3 DEF TreeTypes
<1>5. LivesInv BY <1>1, <1>3 DEF LivesInv, UsageTreesAssumption
<1>6. Len(news) = 0 /\ 1..Len(news) = {} /\ Len(news) + 1 = 1 BY <1>1
<1>7. KnownInv BY <1>1, <1>3 DEF KnownInv, Living, UsageTreesAssumption
<1>8. \A o : Gone(edges, news, o, 1) <=> edges[o].deleted BY DEF Gone
<1>9. \A o, v : Was(edges, news, o, 1, v) <=> v = edges[o].parent BY DEF Was
<1>10. GoneInv BY <1>1, <1>3, <1>6, <1>8 DEF GoneInv
<1>11. LinkInv BY <1>1, <1>3, <1>6, <1>9 DEF LinkInv
<1> QED BY <1>4, <1>5, <1>7, <1>10, <1>11 DEF KInv

LEMMA NextKInv == ASSUME UsageTreesAssumption, KInv, [TreesNext]_treesVars PROVE KInv'
<1>1. ASSUME UNCHANGED <<lives, under, news, edges>>, up' \in BOOLEAN, up' => up, ~up' => news = <<>>
      PROVE  KInv'
  BY <1>1 DEF KInv, TreeTypes, LivesInv, KnownInv, Living, GoneInv, LinkInv
<1>2. up \in BOOLEAN /\ (~up => news = <<>>) BY DEF KInv, TreeTypes
<1>3. ASSUME UNCHANGED <<lives, under, news, edges, up>> PROVE KInv' BY <1>1, <1>2, <1>3
<1>4. ASSUME NEW t \in Nodes, NEW p \in Nodes \cup {Root}, Create(t, p) PROVE KInv' BY <1>4, CreateKInv
<1>5. ASSUME NEW t \in Nodes, NEW p \in Nodes \cup {Root}, Move(t, p) PROVE KInv' BY <1>5, MoveKInv
<1>6. ASSUME NEW t \in Nodes, Delete(t) PROVE KInv' BY <1>6, DeleteKInv
<1>7. ASSUME NEW t \in Nodes, Spend(t) \/ Reprice(t) PROVE KInv' BY <1>3, <1>7 DEF Spend, Reprice
<1>8. ASSUME NEW t \in Nodes, NEW w \in Windows, ReadChip(w, t) \/ ClaimToast(w, t) PROVE KInv'
  BY <1>3, <1>8 DEF ReadChip, ClaimToast
<1>9. CASE Hear BY <1>9, HearKInv
<1>10. CASE LoadPlugin BY <1>10, LoadKInv
<1>11. CASE StopPlugin BY <1>1, <1>11 DEF StopPlugin
<1>12. CASE SaveWarn \/ CallReadsSettings \/ OnChange \/ UNCHANGED treesVars
  BY <1>3, <1>12 DEF SaveWarn, CallReadsSettings, OnChange, treesVars
<1> QED BY <1>4, <1>5, <1>6, <1>7, <1>8, <1>9, <1>10, <1>11, <1>12 DEF TreesNext

\* For any threads, changes and stops: once all is heard, every thread the plugin knows is under the
\* parent the person gave it, though bb detaches the children of what is deleted (recordThread,
\* discover).
THEOREM TreeIsKept == UsageTreesAssumption => (TreesSpec => []KeepsTheTree)
<1> SUFFICES ASSUME UsageTreesAssumption PROVE TreesSpec => []KeepsTheTree OBVIOUS
<1>1. TreesInit => KInv BY InitKInv
<1>2. KInv /\ [TreesNext]_treesVars => KInv' BY NextKInv
<1>3. KInv => KeepsTheTree
  <2> SUFFICES ASSUME KInv, news = <<>>, NEW t \in Nodes PROVE edges[t].parent = under[t]
    BY DEF KeepsTheTree
  <2>1. edges[t].parent \in Nodes \cup {Root} BY DEF KInv, TreeTypes, Edge
  <2>2. Len(news) = 0 OBVIOUS
  <2>3. Was(edges, news, t, Len(news) + 1, edges[t].parent) BY <2>2 DEF Was
  <2> QED BY <2>1, <2>3 DEF KInv, LinkInv
<1> QED BY <1>1, <1>2, <1>3, PTL DEF TreesSpec
=============================================================================
