------------------------------ MODULE Reports ------------------------------
(***************************************************************************)
(* What thread-usage answers when a panel, the command line or the agent   *)
(* tool asks for a report or the top trees: figures computed from the      *)
(* stored turns under the settings and the price list in memory, cached    *)
(* for each thread until something they were computed from changes         *)
(* (src/server/model.ts, public-prices.ts, settings.ts and their callers   *)
(* in server.ts).  The online list is fetched daily, old turns are         *)
(* collapsed into one, and a stored "off" is turned on once.  A turn has   *)
(* one token, and a priced token costs one; the threads share a provider.  *)
(***************************************************************************)
EXTENDS Integers, SequencesExt

CONSTANTS
  Threads, NoThread,
  Shapes,       \* the trees there may be: what each thread is under, and forked from
  Models,       \* the models of turns
  Bundled,      \* those the bundled list prices
  Kinds,        \* the rate-limit kinds threads report
  Pools,        \* whether they may be routed through the account pool
  Published,    \* the lists models.dev may publish: the models each prices
  NoList,       \* no list is stored
  NoFigure,     \* nothing is cached
  MaxTurns, MaxSaves, MaxFetches, MaxDays, MaxStops

ReportsAssumption ==
  /\ NoThread \notin Threads /\ Bundled \subseteq Models /\ Pools \subseteq BOOLEAN
  /\ Kinds \subseteq {"subscription-window", "credits"}
  /\ {MaxTurns, MaxSaves, MaxFetches, MaxDays, MaxStops} \subseteq Nat

VARIABLES
  shape,    \* under what each thread is, and from which it was forked
  known,    \* the threads with an edge
  turns,    \* the stored turns of each, oldest first
  ran,      \* how many turns each had
  told,     \* the rate-limit kind each reported last
  pooled,   \* those the account pool routes
  latest,   \* the threads that reported one, last written first
  saved,    \* the settings as they are stored
  settings, \* as the plugin read them
  unheard,  \* saves whose onChange has not run
  list,     \* the stored price list: the models it prices, and whether it is a day old
  failure,  \* why the last fetch failed is stored
  fetched,  \* the list as read from the store
  book,     \* the models the price book prices
  kinds,    \* the provider's latest kind, read at most a minute ago
  cache,    \* the cached figures
  fetching, \* the fetches on their way: whether a failure was stored as each began
  flipped,  \* the old default was reset
  up,
  spent     \* how much of each bound is used up

storeVars  == <<shape, known, turns, ran, told, pooled, latest>>
memoryVars == <<settings, unheard, fetched, book, kinds, cache, fetching, up>>
reportsVars == <<storeVars, memoryVars, saved, list, failure, flipped, spent>>

NoKind == "none"
AllSettings == [refreshPrices : BOOLEAN, billing : {"auto", "api-key"}]
Unread == [read |-> FALSE, list |-> NoList]

ReportsInit ==
  /\ shape \in Shapes /\ known = {}
  /\ turns = [t \in Threads |-> <<>>] /\ ran = [t \in Threads |-> 0]
  /\ told = [t \in Threads |-> NoKind] /\ pooled = {} /\ latest = <<>>
  /\ saved \in [refreshPrices : BOOLEAN, billing : {"auto"}] /\ settings = saved /\ unheard = 0
  /\ list = [models |-> NoList, aged |-> FALSE] /\ failure = FALSE
  /\ fetched = Unread /\ book = NoList /\ kinds = NoKind
  /\ cache = [t \in Threads |-> NoFigure] /\ fetching = <<>>
  /\ flipped \in BOOLEAN /\ up = FALSE
  /\ spent = [turns |-> 0, saves |-> 0, fetches |-> 0, days |-> 0, stops |-> 0]

Spend(what, bound) == spent[what] < bound /\ spent' = [spent EXCEPT ![what] = @ + 1]

----------------------------------------------------------------------------
(* Figures.                                                                *)

\* billingMode: the setting, then the pool, then the rate-limit kind
BillingMode(t, setting, providerKind) ==
  LET kind == IF told[t] # NoKind THEN told[t] ELSE providerKind
  IN IF setting # "auto" THEN setting
     ELSE IF t \in pooled \/ kind = "subscription-window" THEN "subscription"
     ELSE IF kind = "credits" THEN "api-key" ELSE "unknown"

ZeroFigure == [tokens |-> 0, usd |-> 0, subTokens |-> 0, subUsd |-> 0]
SumFigures(f, g) == [k \in DOMAIN ZeroFigure |-> f[k] + g[k]]

\* threadUsage, of turns priced by a list or unpriced
ThreadFigure(t, billing, priced) ==
  LET tokens == FoldSeq(LAMBDA turn, sum : turn.tokens + sum, 0, turns[t])
      usd == FoldSeq(LAMBDA turn, sum : (IF turn.model \in priced THEN turn.tokens ELSE 0) + sum, 0, turns[t])
      sub == billing = "subscription"
  IN [tokens |-> tokens, usd |-> usd,
      subTokens |-> IF sub THEN tokens ELSE 0, subUsd |-> IF sub THEN usd ELSE 0]

\* fetchedList and prices: the fetched list unless it is off or there is none
FetchedList == IF ~settings.refreshPrices THEN Unread
               ELSE IF fetched.read THEN fetched ELSE [read |-> TRUE, list |-> list.models]
Prices == IF book # NoList THEN book
          ELSE IF FetchedList.list # NoList THEN FetchedList.list ELSE Bundled
LatestKind == IF latest = <<>> THEN NoKind ELSE told[Head(latest)]
ProviderKind == IF kinds # NoKind THEN kinds ELSE LatestKind

\* treeOf: forks are cut off, with what is below them
Children(t) == {u \in known : shape[u].source = NoThread /\ shape[u].parent = t}
TreeOf(t) ==
  LET tree[n \in 0..Cardinality(Threads)] ==
        IF n = 0 THEN {t} ELSE LET so_far == tree[n-1] IN so_far \cup UNION {Children(u) : u \in so_far}
  IN tree[Cardinality(Threads)]

\* computeThread
Figure(t) == IF cache[t] # NoFigure THEN cache[t].figure
             ELSE ThreadFigure(t, BillingMode(t, settings.billing, ProviderKind), Prices)
TreeFigure(t) == FoldSet(LAMBDA u, sum : SumFigures(Figure(u), sum), ZeroFigure, TreeOf(t))

\* the trees of the page and of the command: of threads with no known parent, and of forks
RootsWithoutForks ==  \* mutant: a fork under a known parent is no tree of its own
  {t \in known : ~(shape[t].parent # NoThread /\ shape[t].parent \in known)}
Roots == {t \in known : ~(shape[t].parent # NoThread /\ shape[t].parent \in known
                          /\ shape[t].source = NoThread)}
Top == {[root |-> t, figure |-> TreeFigure(t)] : t \in {r \in Roots : TreeFigure(r).tokens > 0}}

\* a report's rows: each subtree's part, of what the tree's headline leads with
Headline(f) == IF f.usd = 0 \/ f.subTokens = f.tokens THEN "tokens"
               ELSE IF f.subTokens > 0 THEN "billed" ELSE "usd"
Part(f, lead) == IF lead = "tokens" THEN f.tokens ELSE IF lead = "billed" THEN f.usd - f.subUsd ELSE f.usd
Share(t, u) == LET lead == Headline(TreeFigure(t))
               IN [part |-> Part(TreeFigure(u), lead), whole |-> Part(TreeFigure(t), lead)]

----------------------------------------------------------------------------
(* The engine's writes.  Each ends by forgetting the figures it changed.   *)

Forgotten(ts) == cache' = [t \in Threads |-> IF t \in ts THEN NoFigure ELSE cache[t]]

\* recordThread
RecordThread(t) ==
  /\ up /\ t \notin known /\ known' = known \cup {t}
  /\ Forgotten({t})
  /\ UNCHANGED <<shape, turns, ran, told, pooled, latest, saved, settings, unheard, list, failure, fetched,
                 book, kinds, fetching, flipped, up, spent>>

\* catchUpNow stores what it read, and changed follows
CatchUp(t) ==
  /\ up /\ t \in known /\ Spend("turns", MaxTurns)
  /\ \E m \in Models, k \in Kinds \cup {told[t]}, pool \in Pools :
       /\ turns' = [turns EXCEPT ![t] = Append(@, [model |-> m, tokens |-> 1, age |-> "new"])]
       /\ told' = [told EXCEPT ![t] = k]
       /\ pooled' = IF pool THEN pooled \cup {t} ELSE pooled
       /\ latest' = IF k = NoKind THEN latest ELSE <<t>> \o SelectSeq(latest, LAMBDA u : u # t)
  /\ ran' = [ran EXCEPT ![t] = @ + 1]
  /\ Forgotten({t})
  /\ UNCHANGED <<shape, known, saved, settings, unheard, list, failure, fetched, book, kinds, fetching, flipped, up>>

\* a year passes over the turns there are
Age ==
  /\ Spend("days", MaxDays)
  /\ turns' = [t \in Threads |-> [n \in DOMAIN turns[t] |->
                 [turns[t][n] EXCEPT !.age = IF @ = "new" THEN "old" ELSE @]]]
  /\ list' = [list EXCEPT !.aged = TRUE]
  /\ kinds' = NoKind
  /\ UNCHANGED <<shape, known, ran, told, pooled, latest, saved, settings, unheard, failure, fetched, book, cache,
                 fetching, flipped, up>>

\* collapseTurns: one turn, of the last one's model
Collapse(t, rest) ==
  LET old  == SelectSeq(turns[t], LAMBDA turn : turn.age # "new")
  IN IF \A n \in DOMAIN old : old[n].age = "retained" THEN turns[t]
     ELSE <<[model |-> Last(old).model, age |-> "retained",
             tokens |-> FoldSeq(LAMBDA turn, sum : turn.tokens + sum, 0, old)]>> \o rest
Young(t) == SelectSeq(turns[t], LAMBDA turn : turn.age = "new")

\* the retention schedule; a thread without old turns is left alone
Collapsible == {t \in Threads : \E n \in DOMAIN turns[t] : turns[t][n].age = "old"}
Retain ==
  /\ up /\ Collapsible # {}
  /\ turns' = [t \in Threads |-> Collapse(t, Young(t))]
  /\ Forgotten(Threads)
  /\ UNCHANGED <<shape, known, ran, told, pooled, latest, saved, settings, unheard, list, failure, fetched, book,
                 kinds, fetching, flipped, up, spent>>

----------------------------------------------------------------------------
(* Settings and prices.                                                    *)

\* a person saves them; bb tells the plugin
Save ==
  /\ Spend("saves", MaxSaves) /\ saved' \in AllSettings \ {saved}
  /\ unheard' = IF up THEN unheard + 1 ELSE 0
  /\ UNCHANGED <<storeVars, settings, list, failure, fetched, book, kinds, cache, fetching, flipped, up>>

\* pricesChanged
BookChanged == book' = NoList /\ Forgotten(Threads) /\ UNCHANGED fetched  \* mutant: the list read before stays
PricesChanged == fetched' = Unread /\ book' = NoList /\ Forgotten(Threads)

\* settings.onChange
OnChange ==
  /\ up /\ unheard > 0 /\ unheard' = unheard - 1
  /\ settings' = saved
  /\ PricesChanged
  /\ \/ saved.refreshPrices /\ ~settings.refreshPrices /\ ~(list.models # NoList /\ ~list.aged)
        /\ fetching' = Append(fetching, failure) /\ Spend("fetches", MaxFetches)
     \/ (saved.refreshPrices => settings.refreshPrices \/ (list.models # NoList /\ ~list.aged))
        /\ UNCHANGED <<fetching, spent>>
  /\ UNCHANGED <<storeVars, saved, list, failure, kinds, flipped, up>>

\* refreshPrices of the service, when the list is missing or a day old
RefreshPrices ==
  /\ up /\ settings.refreshPrices /\ ~(list.models # NoList /\ ~list.aged)
  /\ fetching' = Append(fetching, failure) /\ Spend("fetches", MaxFetches)
  /\ UNCHANGED <<storeVars, saved, settings, unheard, list, failure, fetched, book, kinds, cache, flipped, up>>

\* a fetch that answers replaces the list; one that fails keeps the last good one
FetchAnswers(n) ==
  /\ up /\ n \in DOMAIN fetching /\ fetching' = RemoveAt(fetching, n)
  /\ \E models \in Published : list' = [models |-> models, aged |-> FALSE]
  /\ failure' = FALSE
  /\ PricesChanged
  /\ UNCHANGED <<storeVars, saved, settings, unheard, kinds, flipped, up, spent>>
FetchFails(n) ==
  /\ up /\ n \in DOMAIN fetching /\ fetching' = RemoveAt(fetching, n)
  /\ failure' = TRUE
  /\ \/ PricesChanged
     \/ fetching[n] /\ UNCHANGED <<fetched, book, cache>>  \* the reason is the same again
  /\ UNCHANGED <<storeVars, saved, settings, unheard, list, kinds, flipped, up, spent>>

----------------------------------------------------------------------------
(* Reads.  A call reads the settings first; the engine's own budget check  *)
(* takes them as they are.  A minute on, the provider's kind is read again.*)

Computed(ts) ==
  /\ fetched' = IF book = NoList THEN FetchedList ELSE fetched
  /\ book' = Prices
  /\ kinds' = ProviderKind
  /\ cache' = [t \in Threads |-> IF t \in ts THEN [figure |-> Figure(t)] ELSE cache[t]]

ReadSettings ==
  /\ up /\ settings # saved /\ settings' = saved
  /\ UNCHANGED <<storeVars, saved, unheard, list, failure, fetched, book, kinds, cache, fetching, flipped, up, spent>>

Report(t) ==
  /\ up /\ t \in known
  /\ Computed(TreeOf(t))
  /\ UNCHANGED <<storeVars, saved, settings, unheard, list, failure, fetching, flipped, up, spent>>

ForgetKinds ==
  /\ up /\ kinds # NoKind /\ kinds' = NoKind
  /\ UNCHANGED <<storeVars, saved, settings, unheard, list, failure, fetched, book, cache, fetching, flipped, up, spent>>

----------------------------------------------------------------------------
(* Loads and stops.                                                        *)

\* flipRefreshPricesDefault: once, and again at the next load when unset fails
Load ==
  /\ ~up /\ up' = TRUE
  /\ \/ ~flipped /\ ~saved.refreshPrices /\ saved' = [saved EXCEPT !.refreshPrices = TRUE] /\ flipped' = TRUE
     \/ ~flipped /\ ~saved.refreshPrices /\ UNCHANGED <<saved, flipped>>
     \/ (flipped \/ saved.refreshPrices) /\ flipped' = TRUE /\ UNCHANGED saved
  /\ settings' = saved'
  /\ UNCHANGED <<storeVars, unheard, list, failure, fetched, book, kinds, cache, fetching, spent>>

Stop ==
  /\ up /\ up' = FALSE /\ Spend("stops", MaxStops)
  /\ unheard' = 0 /\ fetched' = Unread /\ book' = NoList /\ kinds' = NoKind /\ fetching' = <<>>
  /\ Forgotten(Threads)
  /\ UNCHANGED <<storeVars, saved, settings, list, failure, flipped>>

ReportsNext ==
  \/ \E t \in Threads : RecordThread(t) \/ CatchUp(t) \/ Report(t)
  \/ \E n \in DOMAIN fetching : FetchAnswers(n) \/ FetchFails(n)
  \/ Age \/ Retain \/ Save \/ OnChange \/ RefreshPrices \/ ReadSettings \/ ForgetKinds \/ Load \/ Stop
ReportsSpec == ReportsInit /\ [][ReportsNext]_reportsVars

----------------------------------------------------------------------------
\* A cached figure is what would be computed now, from the stored turns, the
\* saved settings and the stored price list, unless a saved change is still
\* to be handled.  The one exception is a thread that takes its provider's
\* kind from another thread: its figure stays as it was (computeThread).
FiguresAreCurrent ==
  unheard = 0 =>
    \A t \in known :
      cache[t] # NoFigure =>
        LET own == told[t] # NoKind \/ t \in pooled \/ saved.billing # "auto"
            priced == IF saved.refreshPrices /\ list.models # NoList THEN list.models ELSE Bundled
            now == ThreadFigure(t, BillingMode(t, saved.billing, NoKind), priced)
        IN /\ own => cache[t].figure = now
           /\ cache[t].figure.tokens = now.tokens /\ cache[t].figure.usd = now.usd

\* The top trees account for every turn there ever was, once, whatever was
\* forked, whatever was listed when, and whatever was collapsed; and the parts
\* of a report add up to no more than its whole (top, report, collapseBefore).
TreesAddUp ==
  /\ FoldSet(LAMBDA top, sum : top.figure.tokens + sum, 0, Top)
       = FoldSet(LAMBDA t, sum : ran[t] + sum, 0, known)
  /\ \A t \in known : FoldSet(LAMBDA u, sum : Share(t, u).part + sum, 0, Children(t)) <= Share(t, t).whole
============================================================================
