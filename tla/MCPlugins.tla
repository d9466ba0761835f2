----------------------------- MODULE MCPlugins ------------------------------
(***************************************************************************)
(* For TLC: the parts of thread-usage, openai-inference and ui-tweaks,     *)
(* which share no state.  One behaviour runs one of them, in the variables *)
(* they have in common.                                                    *)
(***************************************************************************)
EXTENDS Integers, Sequences, FiniteSets, TLC

CONSTANTS
  Nodes,                \* the threads of UsageTrees
  Windows,              \* and its windows
  aKey,                 \* a key of a log line
  none,                 \* a thread, a key, a bound or a figure there is not
  Parts                 \* the parts to begin with

VARIABLES
  part,   \* the part that runs
  \* its variables; 0 where it has fewer
  s1, s2, s3, s4, s5, s6, s7, s8, s9, s10, s11, s12, s13, s14, s15, s16, s17, s18, s19,
  s20, s21
mcVars ==
  <<part, s1, s2, s3, s4, s5, s6, s7, s8, s9, s10, s11, s12, s13, s14, s15, s16, s17, s18,
    s19, s20, s21>>


Symmetry == Permutations(Nodes) \cup Permutations(Windows)

\* LogPages: Claude Code writes a response in two lines beside another; pi's aborted turn needs few.
Harnesses == {"claude-code", "pi", "codex"}
PageLines == [h \in Harnesses |-> IF h = "pi" THEN 2 ELSE 3]
PageReads == [h \in Harnesses |-> IF h = "codex" THEN 1 ELSE 2]

\* Pricing: with and without a tier, a cache price, and a 1-hour write rate.
PriceOf(input, cacheRead, cacheWrite, claude, above, tierInput) ==
  [input |-> input, cacheRead |-> cacheRead, cacheWrite |-> cacheWrite, claude |-> claude,
   above |-> above, tierInput |-> tierInput]
ModelPrices ==
  {PriceOf(2, 1, 3, TRUE, -1, 2), PriceOf(2, -1, -1, FALSE, -1, 2), PriceOf(2, 1, 3, TRUE, 2, 5), PriceOf(2, 1, -1, FALSE, 3, 5)}

\* Reports: a thread, one below or forked from it, and one below or forked from that.
At(parent, source) == [parent |-> parent, source |-> source]
Forests == {<<At(0, 0), At(1, 0), At(1, 2)>>, <<At(0, 0), At(1, 1), At(2, 0)>>}

\* Endpoints: what 0.3 saved.
OldKeys == "a" :> [url |-> "u1", key |-> TRUE, model |-> FALSE]

\* EndpointCards: one Endpoint is listed, and holds a literal key.
CardList == [i \in {"a", "b"} |-> IF i = "a" THEN [url |-> "u", key |-> [kind |-> "literal", set |-> TRUE]] ELSE none]

\* Tweaks: thread views, and a new thread's page with or without what the stylesheet looks for.
Screens ==
  [kind : {"view"}, column : BOOLEAN, composer : {TRUE}, editable : {TRUE}, wrapper : BOOLEAN]
  \cup [kind : {"new"}, around : {<<"wrapper", "column">>, <<"column">>, <<"column", "wrapper">>}]

-----------------------------------------------------------------------------
Trees == INSTANCE UsageTrees WITH
  Nodes <- Nodes, Root <- none, Windows <- Windows, Amount <- 2, MaxSpent <- 1, MaxChanges <- 2,
  lives <- s1, under <- s2, news <- s3, up <- s4, edges <- s5, spent <- s6, crossings <- s7, saved <- s8, warn <- s9,
  unheard <- s10, offered <- s11, shown <- s12, signal <- s13, changes <- s14, unswept <- s15
Figures == INSTANCE Ledger WITH
  MaxTurns <- 2, MaxEvents <- 6, Amounts <- {1, 2}, PruneMinSeq <- 3, Hinted <- TRUE, Grace <- 1,
  perRequest <- s1, events <- s2, pruned <- s3, aged <- s4, running <- s5, total <- s6, cursor <- s7, turns <- s8,
  opening <- s9, gaps <- s10, historyBackfilled <- s11
Cache == INSTANCE LogCache WITH
  Keys <- {aKey}, NoKey <- none, MaxLines <- 2, MaxWrites <- 2, MaxTroubles <- 1,
  lastPerKey <- s1, file <- s2, writes <- s3, memory <- s4, disk <- s5, reading <- s6, returned <- s7, doubtful <- s8,
  troubles <- s9
Where == INSTANCE LogPlaces WITH
  Dirs <- {"d1", "d2"}, Ttl <- 2, Overlap <- 4, Forgotten <- 4, Behind <- 4, MaxTime <- 4,
  now <- s1, logged <- s2, location <- s3, stored <- s4, readThrough <- s5, forgot <- s6
Pages == INSTANCE LogPages WITH
  Files <- {1, 2}, SessionOf <- <<1, 1>>, Session <- 1, Harnesses <- Harnesses, Limit <- 1, Overlap <- 1, Span <- 1,
  Never <- none, NoRead <- none, MaxLines <- PageLines, MaxReads <- PageReads, MaxTime <- 3, MaxFailures <- 0,
  harness <- s1, log <- s2, torn <- s3, server <- s4, time <- s5, failures <- s6, windows <- s7
Prices == INSTANCE Pricing WITH
  Prices <- ModelPrices, Counts <- {0, 2}, MaxRequests <- 2,
  price <- s1, convention <- s2, used <- s3, requests <- s4, share <- s5
Reported == INSTANCE Reports WITH
  Threads <- {1, 2, 3}, NoThread <- 0, Shapes <- Forests, Models <- {"m"}, Bundled <- {"m"}, Kinds <- {},
  Pools <- {FALSE}, Published <- {}, NoList <- none, NoFigure <- none, MaxTurns <- 2, MaxSaves <- 0, MaxFetches <- 0,
  MaxDays <- 1, MaxStops <- 0,
  shape <- s1, known <- s2, turns <- s3, ran <- s4, told <- s5, pooled <- s6, latest <- s7, saved <- s8,
  settings <- s9, unheard <- s10, list <- s11, failure <- s12, fetched <- s13, book <- s14, kinds <- s15,
  cache <- s16, fetching <- s17, flipped <- s18, up <- s19, spent <- s20
Priced == INSTANCE Reports WITH
  Threads <- {1}, NoThread <- 0, Shapes <- {<<At(0, 0)>>}, Models <- {"m", "n"}, Bundled <- {"m"},
  Kinds <- {"subscription-window", "credits"}, Pools <- BOOLEAN, Published <- {{"m", "n"}}, NoList <- none,
  NoFigure <- none, MaxTurns <- 1, MaxSaves <- 1, MaxFetches <- 2, MaxDays <- 1, MaxStops <- 1,
  shape <- s1, known <- s2, turns <- s3, ran <- s4, told <- s5, pooled <- s6, latest <- s7, saved <- s8,
  settings <- s9, unheard <- s10, list <- s11, failure <- s12, fetched <- s13, book <- s14, kinds <- s15,
  cache <- s16, fetching <- s17, flipped <- s18, up <- s19, spent <- s20
Views == INSTANCE UsageViews WITH
  Threads <- {1, 2}, Parent <- <<0, 1>>, Recent <- {1}, Kinds <- {"tab", "chip", "page", "settings"},
  Switches <- {"page"}, NoChoice <- none, NoData <- none, MaxSpent <- 1, MaxSwitches <- 1, MaxFailures <- 0,
  MaxQueue <- 1,
  bb <- s1, server <- s2, signals <- s3, view <- s4, calls <- s5, refreshing <- s6, acting <- s7, done <- s8
Points == INSTANCE Endpoints WITH
  Ids <- {"a"}, Urls <- {"u1", "u2"}, Unset <- {"V"}, Variables <- {"V", "W"}, NoEndpoint <- none, NoKey <- none,
  Idle <- none, Legacy <- OldKeys, MaxChanges <- 2, MaxRequests <- 2, MaxFailures <- 1,
  saved <- s1, keys <- s2, op <- s3, endpoints <- s4, report <- s5, request <- s6, sent <- s7, copying <- s8,
  old <- s9, copied <- s10, told <- s11, changes <- s12, requests <- s13, failures <- s14
Typed == INSTANCE EndpointCards WITH
  Ids <- {"a", "b"}, Urls <- {"u", "v"}, Blank <- "blank", NoEndpoint <- none, New <- "new", Starts <- {CardList},
  MaxTyped <- 2, MaxCalls <- 2, MaxElsewhere <- 0, MaxFailures <- 1,
  list <- s1, page <- s2, cards <- s3, calls <- s4, done <- s5
Completed == INSTANCE Completion WITH
  Optional <- {"temperature", "format"}, Places <- {"u"}, Tasks <- {1, 2}, Unread <- none, MaxTroubles <- 1,
  MaxServers <- 1, MaxTasks <- 3, MaxLists <- 1,
  fields <- s1, file <- s2, tasks <- s3, refuses <- s4, version <- s5, source <- s6, troubles <- s7, begun <- s8,
  lists <- s9
TweakPage == INSTANCE Tweaks WITH
  NoCopy <- none, Choices <- {"medium", "large"}, Medium <- "medium", Grace <- 2, Elements <- {1, 2}, Gone <- none,
  Screens <- Screens, MaxSaves <- 0, MaxReads <- 0, MaxDrops <- 0, MaxDraws <- 3, MaxTime <- 5,
  stored <- s1, saving <- s2, signals <- s3, copy <- s4, style <- s5, connected <- s6, heard <- s7, reads <- s8,
  answers <- s9, bySave <- s10, page <- s11, text <- s12, phone <- s13, firstSeen <- s14, warned <- s15, scans <- s16,
  clock <- s17, saves <- s18, asked <- s19, drops <- s20, draws <- s21
TweakChoices == INSTANCE Tweaks WITH
  NoCopy <- none, Choices <- {"medium", "large"}, Medium <- "medium", Grace <- 2, Elements <- {1, 2}, Gone <- none,
  Screens <- Screens, MaxSaves <- 2, MaxReads <- 2, MaxDrops <- 2, MaxDraws <- 0, MaxTime <- 1,
  stored <- s1, saving <- s2, signals <- s3, copy <- s4, style <- s5, connected <- s6, heard <- s7, reads <- s8,
  answers <- s9, bySave <- s10, page <- s11, text <- s12, phone <- s13, firstSeen <- s14, warned <- s15, scans <- s16,
  clock <- s17, saves <- s18, asked <- s19, drops <- s20, draws <- s21

-----------------------------------------------------------------------------
Unused21 == s21 = 0
Unused16 == s16 = 0 /\ s17 = 0 /\ s18 = 0 /\ s19 = 0 /\ s20 = 0 /\ Unused21
Unused15 == s15 = 0 /\ Unused16
Unused12 == s12 = 0 /\ s13 = 0 /\ s14 = 0 /\ Unused15
Unused10 == s10 = 0 /\ s11 = 0 /\ Unused12
Unused9 == s9 = 0 /\ Unused10
Unused8 == s8 = 0 /\ Unused9
Unused7 == s7 = 0 /\ Unused8
Unused6 == s6 = 0 /\ Unused7
rest21 == <<s21>>
rest16 == <<s16, s17, s18, s19, s20, rest21>>
rest15 == <<s15, rest16>>
rest12 == <<s12, s13, s14, rest15>>
rest10 == <<s10, s11, rest12>>
rest9 == <<s9, rest10>>
rest8 == <<s8, rest9>>
rest7 == <<s7, rest8>>
rest6 == <<s6, rest7>>

Init ==
  /\ part \in Parts
  /\ \/ part = "trees" /\ Trees!TreesInit /\ Unused16
     \/ part = "figures" /\ Figures!FiguresInit /\ Unused12
     \/ part = "cache" /\ Cache!CacheInit /\ Unused10
     \/ part = "places" /\ Where!PlacesInit /\ Unused7
     \/ part = "pages" /\ Pages!PagesInit /\ Unused8
     \/ part = "pricing" /\ Prices!PricingInit /\ Unused6
     \/ part = "reports" /\ Reported!ReportsInit /\ Unused21
     \/ part = "prices" /\ Priced!ReportsInit /\ Unused21
     \/ part = "views" /\ Views!ViewsInit /\ Unused9
     \/ part = "endpoints" /\ Points!EndpointsInit /\ Unused15
     \/ part = "cards" /\ Typed!CardsInit /\ Unused6
     \/ part = "completion" /\ Completed!CompletionInit /\ Unused10
     \/ part = "page" /\ TweakPage!TweaksInit
     \/ part = "choices" /\ TweakChoices!TweaksInit

Next ==
  \/ part = "trees" /\ Trees!TreesNext /\ UNCHANGED <<part, rest16>>
  \/ part = "figures" /\ Figures!FiguresNext /\ UNCHANGED <<part, rest12>>
  \/ part = "cache" /\ Cache!CacheNext /\ UNCHANGED <<part, rest10>>
  \/ part = "places" /\ Where!PlacesNext /\ UNCHANGED <<part, rest7>>
  \/ part = "pages" /\ Pages!PagesNext /\ UNCHANGED <<part, rest8>>
  \/ part = "pricing" /\ Prices!PricingNext /\ UNCHANGED <<part, rest6>>
  \/ part = "reports" /\ Reported!ReportsNext /\ UNCHANGED <<part, rest21>>
  \/ part = "prices" /\ Priced!ReportsNext /\ UNCHANGED <<part, rest21>>
  \/ part = "views" /\ Views!ViewsNext /\ UNCHANGED <<part, rest9>>
  \/ part = "endpoints" /\ Points!EndpointsNext /\ UNCHANGED <<part, rest15>>
  \/ part = "cards" /\ Typed!CardsNext /\ UNCHANGED <<part, rest6>>
  \/ part = "completion" /\ Completed!CompletionNext /\ UNCHANGED <<part, rest10>>
  \/ part = "page" /\ TweakPage!TweaksNext /\ UNCHANGED part
  \/ part = "choices" /\ TweakChoices!TweaksNext /\ UNCHANGED part

Spec == Init /\ [][Next]_mcVars

-----------------------------------------------------------------------------
\* The bounds are as the modules ask.
ASSUME Trees!UsageTreesAssumption /\ Figures!LedgerAssumption /\ Figures!FiguresAssumption
ASSUME Cache!LogCacheAssumption /\ Where!LogPlacesAssumption /\ Pages!PagesAssumption
ASSUME Prices!PricingAssumption /\ Reported!ReportsAssumption /\ Priced!ReportsAssumption /\ Views!ViewsAssumption
ASSUME Points!EndpointsAssumption /\ Typed!CardsAssumption /\ Completed!CompletionAssumption
ASSUME TweakPage!TweaksAssumption /\ TweakChoices!TweaksAssumption

\* UsageTrees: the tree is the one the person made, whatever bb detaches and whenever the plugin is
\* stopped; and a toast is shown by one window (server.ts, recordThread; store.ts, claimToast).
KeepsTheTree == part = "trees" => Trees!KeepsTheTree /\ Trees!OverIsMarked /\ Trees!ToastsOnce

\* UsageTrees: a step that moves a tree's total names the thread at its top (engine.ts, changed).
TellsEveryTotal == [][part = "trees" => Trees!TellsEveryTotal]_mcVars

\* Ledger and Pricing: no token is counted or priced twice or lost, though bb pruned its
\* event (ledger.ts, ingestEvents; summary.ts, mergeLogEntries and threadUsage; pricing.ts, costOf).
CountsOnce ==
  /\ part = "figures" => Figures!CountsOnce /\ Figures!FillsGaps /\ Figures!LogsMakeWhole
  /\ part = "pricing" => Prices!KeepsTheTokens /\ Prices!SameEitherWay

\* LogCache: a read answers with what the file held (log-cache.ts, readNow).
ReadsTheFile == [][part = "cache" => Cache!ReadsTheFile]_mcVars

\* LogPlaces and LogPages: every request in a session's logs is stored, wherever its file appeared and
\* whatever moved from one page to another (claude.ts, locateClaudeSession; handlers.ts; engine.ts, readThreadLogs).
LogsAreStored ==
  /\ part = "places" => Where!StoresWhatItSkipped
  /\ part = "pages" => Pages!StoresEachRequest

\* Reports: the top trees add up to every turn (store.ts, model.ts), and a cached figure is what would
\* be computed now (model.ts, computeThread; server.ts, onChange).
FiguresAddUp ==
  /\ part = "reports" => Reported!TreesAddUp
  /\ part = "prices" => Priced!FiguresAreCurrent

\* UsageViews and Tweaks: at rest, a window shows what the server has (common.tsx; TweaksSync.tsx).
ShowsTheServers ==
  /\ part = "views" => Views!ViewsCatchUp
  /\ part = "choices" => TweakChoices!CopyIsSaved

\* Endpoints: a literal key goes to no other server, and a key said to be set is held (manage.ts, saveNow).
KeyStaysHome == part = "endpoints" => Points!KeyStaysHome /\ Points!SetMeansHeld

\* EndpointCards: what is typed goes by its own call's answer alone (EndpointCard.tsx).
KeepsWhatIsTyped == [][part = "cards" => Typed!KeepsWhatIsTyped]_mcVars

\* Completion: what is known of a server is what that server taught, and a task ends (complete.ts).
KnowsTheServer == part = "completion" => Completed!KnowsTheServer /\ Completed!TasksEnd

\* Tweaks: the stylesheet reaches what the watch does not report (css.ts, targets.ts).
ReachesOrReports == part = "page" => TweakPage!ReachesOrReports
=============================================================================
