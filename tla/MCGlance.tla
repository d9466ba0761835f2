------------------------------ MODULE MCGlance ------------------------------
(***************************************************************************)
(* For TLC: the parts of thread-glance beside its records, which are       *)
(* checked one at a time.  One behaviour runs one of them, in the          *)
(* variables they have in common.                                          *)
(***************************************************************************)
EXTENDS Integers, Sequences, FiniteSets, TLC

CONSTANTS
  callers,              \* who calls the ports service
  windows,              \* the windows of DeviceMemory
  none,                 \* a time, a machine, a colour, an icon or an entry there is not
  Parts                 \* the parts to begin with

VARIABLES
  part,   \* the part that runs
  \* its variables; 0 where it has fewer
  s1, s2, s3, s4, s5, s6, s7, s8, s9, s10, s11, s12, s13, s14, s15, s16, s17, s18, s19,
  s20, s21
mcVars ==
  <<part, s1, s2, s3, s4, s5, s6, s7, s8, s9, s10, s11, s12, s13, s14, s15, s16, s17, s18,
    s19, s20, s21>>


Symmetry == Permutations(callers) \cup Permutations(windows)

\* What the instances have for threads, rows and the like: a named set is computed once.
One == {1}
Two == {1, 2}
Three == {1, 2, 3}
Four == {1, 2, 3, 4}

\* The list: 1 and 2 are of one project.
ProjectOf == <<1, 1, 2>>
GroupOf == [p \in {0, 1, 2} |-> 10 + p]
Thread(parent) == [listed |-> TRUE, parent |-> parent, pinned |-> FALSE, question |-> FALSE, work |-> FALSE, fail |-> "none"]
Working(parent) == [Thread(parent) EXCEPT !.work = TRUE]
Pin(parent) == [Thread(parent) EXCEPT !.pinned = TRUE]
Failed(parent) == [Thread(parent) EXCEPT !.fail = "turn"]
Forest == <<Working(0), Failed(1), Pin(2)>>
Family == <<Thread(0), Thread(0), Thread(1)>>
Forests == {Forest}
Closable == {Family}
WorktreeOf == <<1, 1, 0>>
EachSwitch == [working |-> TRUE, inactive |-> TRUE, attention |-> TRUE]
Doing(may, moves) == [may |-> may, moves |-> moves]
ListDoings ==
  {Doing({"bb", "focus", "rename"}, 2), Doing({"ask", "focus"}, 5), Doing({"fold", "scope", "mark", "more", "clear"}, 2)}
CloseDoings == {Doing({"work", "settle", "open", "rename"}, 3)}

\* ListScope: a parent of another project.
Seen(parent, pinned, question) == [listed |-> TRUE, parent |-> parent, pinned |-> pinned, question |-> question]
Scattered ==
  {[threads |-> <<Seen(0, FALSE, FALSE), Seen(1, FALSE, TRUE), Seen(2, FALSE, FALSE)>>, projects |-> {1, 2}],
   [threads |-> <<Seen(0, FALSE, FALSE), Seen(1, TRUE, FALSE), Seen(2, FALSE, TRUE)>>, projects |-> {1, 2}]}
OtherProject == <<1, 2, 1>>
NoWorktrees == <<0, 0, 0>>
Searches == {{0, 1, 2}, {2}}
Indicators == {"none", "unread-error", "runtime"}
WakeTimes == {2, 5, 9, 11}

RowHeights == [shelfHeader |-> 2, shelfGap |-> 1, groupHeader |-> 2, loadMore |-> 2, full |-> 5, slim |-> 3]

\* SettlePins: a pinned tree of two, or two pinned threads.
PinOrders == {[parent |-> <<0, 1>>, pins |-> <<2, 1>>], [parent |-> <<0, 0>>, pins |-> <<1, 2>>]}

\* ThreadMenu: a child, and a fork that works.
Child ==
  [archived |-> FALSE, known |-> TRUE, busy |-> FALSE, needsYou |-> FALSE, waitingSettle |-> FALSE,
   woke |-> FALSE, mark |-> "active", notifiable |-> TRUE, branch |-> TRUE, project |-> TRUE]
Fork == [Child EXCEPT !.notifiable = FALSE, !.busy = TRUE]
Forks == {Fork, [Fork EXCEPT !.busy = FALSE]}
Children == {Child}
BadEntry == [kind |-> "bad"]
Duration(length) == [kind |-> "duration", length |-> length]
Calendar(day, at) == [kind |-> "calendar", day |-> day, at |-> at]
Shortcuts == <<Duration(2), BadEntry, Duration(99), Calendar("evening", 2), Calendar("next-week", 1)>>
Default == <<Calendar("tomorrow", 1)>>

\* ParentDialog: a chain, or two children.
Trees == {<<0, 1, 2>>, <<0, 1, 0>>}

\* AutoSettle: a parent and two children, one of them hidden.
ParentsOf == <<0, 1, 2, 2>>
EnvsOf == <<"e1", "e2", "none", "none">>
FirstMarks == {<<"auto", "auto", "none", "none">>}
PullKinds == {"open", "merged"}
SettleSettings == {[quiet |-> TRUE, merged |-> TRUE], [quiet |-> FALSE, merged |-> TRUE]}

\* ProjectLooks: an icon file; a page that links to one; the linked file alone; a file that cannot be read.
ProjectFiles ==
  {<<"icon", "none", "none">>, <<"none", "link", "icon">>, <<"none", "none", "icon">>, <<"offline", "none", "none">>}

\* The ports: places, and what may run there.
At(host, path) == [host |-> host, path |-> path]
Nowhere == At("none", "none")
Places == {"e1", "e2"}
TwoHosts == [e \in Places |-> IF e = "e1" THEN At("h1", "p1") ELSE At("h2", "p2")]
Shared == [e \in Places |-> At("h1", "p1")]
OnePlace == [e \in {"e1"} |-> At("h1", "p1")]
Alone == [p \in {"p1", "p2"} |-> <<p>>]
OnlyPath == [p \in {"p1"} |-> <<p>>]
Inside == [p \in {"p1", "out"} |-> IF p = "p1" THEN <<"p1">> ELSE <<>>]
SharedEnvs == <<"e1", "e1", "e2">>
OwnEnvs == <<"e1", "e2">>
Program(inodes, cwd, names, kind, readable) ==
  [inodes |-> inodes, cwd |-> cwd, names |-> names, kind |-> kind, readable |-> readable]
Programs ==
  {Program({1, 2}, "p1", {1}, "user", TRUE), Program({3}, "p1", {}, "user", TRUE),
   Program({1}, "out", {2}, "user", TRUE), Program({3}, "p1", {1}, "bb", TRUE), Program({}, "p1", {1}, "user", FALSE)}
Container(dir, first, last) == [dir |-> dir, first |-> first, last |-> last]
Containers == {Container("p1", 3003, 3009), Container("p1", 3001, 3001), Container("out", 3002, 3002)}

-----------------------------------------------------------------------------
Moving == INSTANCE ListReorder WITH
  Threads <- Three, Project <- ProjectOf, Group <- GroupOf, MaxOrders <- 1, MaxWrites <- 1,
  live <- s1, server <- s2, heard <- s3, order <- s4, pending <- s5, calls <- s6, written <- s7, drag <- s8,
  press <- s9, grouped <- s10, news <- s11, frame <- s12, lists <- s13
Shown == INSTANCE ListStore WITH
  Threads <- Three, Project <- ProjectOf, Worktree <- WorktreeOf, Old <- {2},
  Starts <- Forests,
  Doings <- ListDoings,
  Settings <- EachSwitch,
  does <- s1, bb <- s2, rows <- s3, complete <- s4, in <- s5, inComplete <- s6, model <- s7, frame <- s8,
  opened <- s9, seen <- s10, marks <- s11, asked <- s12, clock <- s13, moves <- s14, known <- s15, asks <- s16,
  openedAt <- s17, behind <- s18, closed <- s19
Closing == INSTANCE ListStore WITH
  Threads <- Three, Project <- ProjectOf, Worktree <- WorktreeOf, Old <- {2},
  Starts <- Closable, Doings <- CloseDoings,
  Settings <- EachSwitch,
  does <- s1, bb <- s2, rows <- s3, complete <- s4, in <- s5, inComplete <- s6, model <- s7, frame <- s8,
  opened <- s9, seen <- s10, marks <- s11, asked <- s12, clock <- s13, moves <- s14, known <- s15, asks <- s16,
  openedAt <- s17, behind <- s18, closed <- s19
Rolling == INSTANCE ListWindow WITH
  Rows <- Three, Members <- Two, Heights <- RowHeights, Margin <- 1, JumpRows <- 1, FirstPage <- 1,
  Tops <- {0, 7}, Screens <- {0, 4}, MaxChanges <- 2,
  model <- s1, screen <- s2, moved <- s3, up <- s4, view <- s5, drawn <- s6, places <- s7, slid <- s8, changes <- s9
Chosen == INSTANCE ListScope WITH
  Threads <- Three, Project <- OtherProject, Worktree <- NoWorktrees, Old <- {},
  Projects <- Two, Queries <- Searches, Starts <- Scattered, MaxChanges <- 1, MaxChoices <- 2,
  MaxReloads <- 1,
  bb <- s1, window <- s2, stored <- s3, pins <- s4, picker <- s5, used <- s6, chosen <- s7, refused <- s8
Status == INSTANCE RowStatus WITH
  Depth <- 2, Indicators <- Indicators, Displays <- {"compact-all"}, Minute <- 1, Hour <- 2,
  Day <- 3, Unknown <- none, MaxChanges <- 2, MaxTime <- 1,
  facts <- s1, draft <- s2, plugin <- s3, since <- s4, last <- s5, now <- s6, shown <- s7, seen <- s8, opened <- s9,
  display <- s10, changes <- s11
Ticking == INSTANCE ListClock WITH
  Threads <- Two, Wakes <- WakeTimes, Never <- none, Minute <- 4, Slack <- 2, LongestTimeout <- 6,
  MaxChanges <- 3, MaxTime <- 14,
  time <- s1, rows <- s2, drawn <- s3, deadline <- s4, clock <- s5, hidden <- s6, news <- s7, changes <- s8
Pinned == INSTANCE SettlePins WITH
  Threads <- Two, NoThread <- 0, Starts <- PinOrders, UndoFor <- 2, MaxUndos <- 1, MaxSettles <- 2,
  MaxElsewhere <- 1, MaxFailures <- 1, MaxTime <- 1,
  bb <- s1, rows <- s2, job <- s3, reclaiming <- s4, undos <- s5, pressed <- s6, lastSettleAt <- s7, time <- s8,
  used <- s9
Editor == INSTANCE RenameEditor WITH
  Titles <- {"x", "y"}, Blank <- "", MaxTurns <- 4,
  page <- s1, editor <- s2, title <- s3, saving <- s4, removed <- s5, key <- s6, turns <- s7
Notify == INSTANCE ThreadMenu WITH
  Threads <- One, Facts <- Children, Shortcuts <- Shortcuts, Defaults <- Default,
  Invalid <- BadEntry, Day <- 1, Year <- 8, MaxEntries <- 3, MaxTime <- 0, MaxMounts <- 2, MaxShows <- 1,
  MaxReads <- 2, MaxChanges <- 1, MaxPicks <- 0, MaxFaults <- 1,
  time <- s1, clock <- s2, mounted <- s3, facts <- s4, shown <- s5, requested <- s6, values <- s7, versions <- s8,
  epoch <- s9, reads <- s10, writes <- s11, setting <- s12, machines <- s13, looking <- s14, again <- s15,
  picker <- s16, sent <- s17, mounts <- s18, shows <- s19, picks <- s20, faults <- s21
Snooze == INSTANCE ThreadMenu WITH
  Threads <- One, Facts <- Forks, Shortcuts <- Shortcuts,
  Defaults <- Default, Invalid <- BadEntry, Day <- 2, Year <- 16, MaxEntries <- 3, MaxTime <- 3,
  MaxMounts <- 1, MaxShows <- 1, MaxReads <- 1, MaxChanges <- 0, MaxPicks <- 1, MaxFaults <- 0,
  time <- s1, clock <- s2, mounted <- s3, facts <- s4, shown <- s5, requested <- s6, values <- s7, versions <- s8,
  epoch <- s9, reads <- s10, writes <- s11, setting <- s12, machines <- s13, looking <- s14, again <- s15,
  picker <- s16, sent <- s17, mounts <- s18, shows <- s19, picks <- s20, faults <- s21
Families == INSTANCE ThreadMenu WITH
  Threads <- Two, Facts <- Children, Shortcuts <- Shortcuts, Defaults <- Default,
  Invalid <- BadEntry, Day <- 1, Year <- 8, MaxEntries <- 3, MaxTime <- 0, MaxMounts <- 1, MaxShows <- 1,
  MaxReads <- 2, MaxChanges <- 1, MaxPicks <- 0, MaxFaults <- 0,
  time <- s1, clock <- s2, mounted <- s3, facts <- s4, shown <- s5, requested <- s6, values <- s7, versions <- s8,
  epoch <- s9, reads <- s10, writes <- s11, setting <- s12, machines <- s13, looking <- s14, again <- s15,
  picker <- s16, sent <- s17, mounts <- s18, shows <- s19, picks <- s20, faults <- s21
Hosts == INSTANCE ThreadMenu WITH
  Threads <- One, Facts <- Children, Shortcuts <- Shortcuts, Defaults <- Default,
  Invalid <- BadEntry, Day <- 1, Year <- 8, MaxEntries <- 3, MaxTime <- 0, MaxMounts <- 3, MaxShows <- 1,
  MaxReads <- 1, MaxChanges <- 0, MaxPicks <- 0, MaxFaults <- 2,
  time <- s1, clock <- s2, mounted <- s3, facts <- s4, shown <- s5, requested <- s6, values <- s7, versions <- s8,
  epoch <- s9, reads <- s10, writes <- s11, setting <- s12, machines <- s13, looking <- s14, again <- s15,
  picker <- s16, sent <- s17, mounts <- s18, shows <- s19, picks <- s20, faults <- s21
Dialog == INSTANCE ParentDialog WITH
  Threads <- Three, NoParent <- 0, Tops <- Trees, MaxRuns <- 1, MaxMoves <- 1, MaxFaults <- 1,
  parent <- s1, archived <- s2, pinned <- s3, listed <- s4, dialog <- s5, runs <- s6, told <- s7, moves <- s8,
  runsMade <- s9, faults <- s10, excused <- s11
Device == INSTANCE DeviceMemory WITH
  Windows <- windows, Projects <- {}, Threads <- Two, Workers <- One, Machines <- {}, NoMachine <- none, Cap <- 2,
  Quota <- 6, Pause <- 2, Confirm <- 1, MaxDoings <- 3, MaxTime <- 0,
  stored <- s1, taken <- s2, win <- s3, news <- s4, time <- s5, work <- s6, rested <- s7, idle <- s8, did <- s9,
  doings <- s10
Stamps == INSTANCE DeviceMemory WITH
  Windows <- windows, Projects <- {}, Threads <- One, Workers <- One, Machines <- {}, NoMachine <- none, Cap <- 2,
  Quota <- 90, Pause <- 2, Confirm <- 1, MaxDoings <- 1, MaxTime <- 3,
  stored <- s1, taken <- s2, win <- s3, news <- s4, time <- s5, work <- s6, rested <- s7, idle <- s8, did <- s9,
  doings <- s10
Looks == INSTANCE ProjectLooks WITH
  Projects <- Two, Own <- <<0, 0, 1>>, Hues <- 12, Gap <- 2, HueStep <- 5, Attempts <- 3, Picked <- One,
  NoColour <- none, NoIcon <- none, NoEntry <- none, Candidates <- <<1>>, Sources <- <<2>>, Named <- <<<<3>>>>,
  FileKinds <- ProjectFiles, MaxUploads <- 2, MaxPicks <- 1, MaxReads <- 2, MaxFailures <- 1,
  colours <- s1, icon <- s2, stamp <- s3, files <- s4, found <- s5, pending <- s6, reads <- s7, lastRead <- s8,
  heard <- s9, entry <- s10, waiting <- s11, calls <- s12, uploads <- s13, picks <- s14, failures <- s15
Quiet == INSTANCE AutoSettle WITH
  Threads <- Four, Parent <- ParentsOf, NoParent <- 0, Hidden <- {4},
  Env <- EnvsOf, NoEnv <- "none", FirstRows <- FirstMarks,
  PullKinds <- PullKinds,
  AllSettings <- SettleSettings, MaxChanges <- 1,
  MaxPasses <- 1,
  bb <- s1, pulls <- s2, serving <- s3, rows <- s4, settings <- s5, pass <- s6, waiting <- s7, reclaims <- s8,
  loaded <- s9, terminals <- s10, changes <- s11, passes <- s12, applied <- s13, failed <- s14
Watch == INSTANCE PortWatch WITH
  Threads <- Three, Listed <- {1, 3}, Envs <- Places, NoEnv <- "none", NoThread <- 0, NoPath <- "nopath",
  NoPlace <- Nowhere, Above <- Alone,
  Place <- TwoHosts, MaxWorkspaces <- 2,
  EnvOf <- SharedEnvs, Windows <- {"h2"}, Callers <- callers, SnapshotTtl <- 1, FreshTtl <- 0,
  EnvironmentTtl <- 1, BackoffFirst <- 1, BackoffMax <- 2, MaxTime <- 1, MaxServed <- 1, MaxCalls <- 2, MaxFaults <- 1,
  now <- s1, listed <- s2, procs <- s3, view <- s4, readAt <- s5, cycle <- s6, backoffs <- s7, cached <- s8,
  calls <- s9, begun <- s10, asked <- s11, served <- s12, faults <- s13, since <- s14
Cleaning == INSTANCE PortsClean WITH
  Threads <- Two, Envs <- Places, NoEnv <- "none", NoThread <- 0, NoPath <- "nopath", NoPlace <- Nowhere,
  Above <- OnlyPath, Place <- Shared, MaxWorkspaces <- 2,
  EnvOf <- OwnEnvs, Hidden <- {}, Host <- "h1", Pids <- One, Terminals <- One, Terminal <- <<1>>,
  Clients <- callers, MaxStarts <- 2, MaxTurns <- 1, Kinds <- {"clean"}, MaxCalls <- 1,
  status <- s1, procs <- s2, live <- s3, view <- s4, young <- s5, stored <- s6, job <- s7, starts <- s8, turns <- s9,
  asked <- s10, sent <- s11, shown <- s12, known <- s13
Closed == INSTANCE PortsClean WITH
  Threads <- Two, Envs <- Places, NoEnv <- "none", NoThread <- 0, NoPath <- "nopath", NoPlace <- Nowhere,
  Above <- OnlyPath, Place <- Shared, MaxWorkspaces <- 2,
  EnvOf <- OwnEnvs, Hidden <- {}, Host <- "h1", Pids <- One, Terminals <- One, Terminal <- <<1>>,
  Clients <- callers, MaxStarts <- 1, MaxTurns <- 1, Kinds <- {"close"}, MaxCalls <- 1,
  status <- s1, procs <- s2, live <- s3, view <- s4, young <- s5, stored <- s6, job <- s7, starts <- s8, turns <- s9,
  asked <- s10, sent <- s11, shown <- s12, known <- s13
PortsPages == INSTANCE PortsPage WITH
  MaxRounds <- 4, MaxLooks <- 2,
  visible <- s1, mounted <- s2, round <- s3, timers <- s4, running <- s5, freshWanted <- s6, waiting <- s7, met <- s8,
  dialog <- s9, latest <- s10, looks <- s11, inFlight <- s12
Scanned == INSTANCE HostScan WITH
  Threads <- Two, Envs <- {"e1"}, NoEnv <- "none", NoThread <- 0, NoPath <- "nopath", NoPlace <- Nowhere,
  Above <- Inside, Place <- OnePlace,
  MaxWorkspaces <- 1, Pids <- Two, Inodes <- Three, Port <- <<3001, 3002, 3003>>, Programs <- Programs,
  Containers <- Containers, MaxRange <- 2, Paths <- {"p1"}, Platforms <- {"linux", "darwin", "win32"}, MaxStarts <- 2,
  MaxFaults <- 1,
  platform <- s1, procs <- s2, starts <- s3, faults <- s4, were <- s5, boot <- s6, scan <- s7
Command == INSTANCE ThreadCommands WITH
  MaxCalls <- 2, MaxElsewhere <- 1,
  row <- s1, signals <- s2, held <- s3, drawn <- s4, sweeping <- s5, calls <- s6, undo <- s7, looking <- s8,
  prompt <- s9, made <- s10, elsewhere <- s11, offered <- s12

-----------------------------------------------------------------------------
Unused20 == s20 = 0 /\ s21 = 0
Unused16 == s16 = 0 /\ s17 = 0 /\ s18 = 0 /\ s19 = 0 /\ Unused20
Unused15 == s15 = 0 /\ Unused16
Unused14 == s14 = 0 /\ Unused15
Unused13 == s13 = 0 /\ Unused14
Unused12 == s12 = 0 /\ Unused13
Unused11 == s11 = 0 /\ Unused12
Unused10 == s10 = 0 /\ Unused11
Unused9 == s9 = 0 /\ Unused10
Unused8 == s8 = 0 /\ Unused9
rest20 == <<s20, s21>>
rest16 == <<s16, s17, s18, s19, rest20>>
rest15 == <<s15, rest16>>
rest14 == <<s14, rest15>>
rest13 == <<s13, rest14>>
rest12 == <<s12, rest13>>
rest11 == <<s11, rest12>>
rest10 == <<s10, rest11>>
rest9 == <<s9, rest10>>
rest8 == <<s8, rest9>>

Init ==
  /\ part \in Parts
  /\ \/ part = "reorder" /\ Moving!ReorderInit /\ Unused14
     \/ part = "store" /\ Shown!StoreInit /\ Unused20
     \/ part = "closes" /\ Closing!StoreInit /\ Unused20
     \/ part = "window" /\ Rolling!WindowInit /\ Unused10
     \/ part = "scope" /\ Chosen!ScopeInit /\ Unused9
     \/ part = "row" /\ Status!RowInit /\ Unused12
     \/ part = "clock" /\ Ticking!ClockInit /\ Unused9
     \/ part = "pins" /\ Pinned!PinsInit /\ Unused10
     \/ part = "editor" /\ Editor!EditorInit /\ Unused8
     \/ part = "notify" /\ Notify!MenuInit
     \/ part = "snooze" /\ Snooze!MenuInit
     \/ part = "families" /\ Families!MenuInit
     \/ part = "machines" /\ Hosts!MenuInit
     \/ part = "parent" /\ Dialog!ParentInit /\ Unused12
     \/ part = "device" /\ Device!DeviceInit /\ Unused11
     \/ part = "stamps" /\ Stamps!DeviceInit /\ Unused11
     \/ part = "looks" /\ Looks!LooksInit /\ Unused16
     \/ part = "settle" /\ Quiet!SettleInit /\ Unused15
     \/ part = "watch" /\ Watch!WatchInit /\ Unused15
     \/ part = "clean" /\ Cleaning!CleanInit /\ Unused14
     \/ part = "shut" /\ Closed!CleanInit /\ Unused14
     \/ part = "portsPage" /\ PortsPages!PageInit /\ Unused13
     \/ part = "scan" /\ Scanned!ScanInit /\ Unused8
     \/ part = "commands" /\ Command!CommandInit /\ Unused13

Next ==
  \/ part = "reorder" /\ Moving!ReorderNext /\ UNCHANGED <<part, rest14>>
  \/ part = "store" /\ Shown!StoreNext /\ UNCHANGED <<part, rest20>>
  \/ part = "closes" /\ Closing!StoreNext /\ UNCHANGED <<part, rest20>>
  \/ part = "window" /\ Rolling!WindowNext /\ UNCHANGED <<part, rest10>>
  \/ part = "scope" /\ Chosen!ScopeNext /\ UNCHANGED <<part, rest9>>
  \/ part = "row" /\ Status!RowNext /\ UNCHANGED <<part, rest12>>
  \/ part = "clock" /\ Ticking!ClockNext /\ UNCHANGED <<part, rest9>>
  \/ part = "pins" /\ Pinned!PinsNext /\ UNCHANGED <<part, rest10>>
  \/ part = "editor" /\ Editor!EditorNext /\ UNCHANGED <<part, rest8>>
  \/ part = "notify" /\ Notify!MenuNext /\ UNCHANGED part
  \/ part = "snooze" /\ Snooze!MenuNext /\ UNCHANGED part
  \/ part = "families" /\ Families!MenuNext /\ UNCHANGED part
  \/ part = "machines" /\ Hosts!MenuNext /\ UNCHANGED part
  \/ part = "parent" /\ Dialog!ParentNext /\ UNCHANGED <<part, rest12>>
  \/ part = "device" /\ Device!DeviceNext /\ UNCHANGED <<part, rest11>>
  \/ part = "stamps" /\ Stamps!DeviceNext /\ UNCHANGED <<part, rest11>>
  \/ part = "looks" /\ Looks!LooksNext /\ UNCHANGED <<part, rest16>>
  \/ part = "settle" /\ Quiet!SettleNext /\ UNCHANGED <<part, rest15>>
  \/ part = "watch" /\ Watch!WatchNext /\ UNCHANGED <<part, rest15>>
  \/ part = "clean" /\ Cleaning!CleanNext /\ UNCHANGED <<part, rest14>>
  \/ part = "shut" /\ Closed!CleanNext /\ UNCHANGED <<part, rest14>>
  \/ part = "portsPage" /\ PortsPages!PageNext /\ UNCHANGED <<part, rest13>>
  \/ part = "scan" /\ Scanned!ScanNext /\ UNCHANGED <<part, rest8>>
  \/ part = "commands" /\ Command!CommandNext /\ UNCHANGED <<part, rest13>>

Spec == Init /\ [][Next]_mcVars

-----------------------------------------------------------------------------
\* The bounds are as the modules ask.
ASSUME Moving!ReorderAssumption /\ Shown!ModelAssumption /\ Shown!StoreAssumption
ASSUME Closing!StoreAssumption /\ Rolling!WindowAssumption /\ Chosen!ScopeAssumption /\ Status!RowAssumption
ASSUME Ticking!ClockAssumption /\ Pinned!PinsAssumption /\ Editor!EditorAssumption /\ Notify!MenuAssumption
ASSUME Snooze!MenuAssumption /\ Families!MenuAssumption /\ Hosts!MenuAssumption /\ Dialog!ParentAssumption
ASSUME Device!DeviceAssumption /\ Stamps!DeviceAssumption /\ Quiet!SettleAssumption /\ Watch!WatchAssumption
ASSUME PortsPages!PageAssumption /\ Scanned!ScanAssumption /\ Command!CommandsAssumption
ASSUME Watch!RulesAssumption /\ Cleaning!CleanAssumption /\ Closed!CleanAssumption /\ Scanned!RulesAssumption

\* ListReorder, ListStore and ParentDialog: each listed thread has one place, under whatever parents
\* bb gives and in whatever order the moves come; and no choice puts a thread below itself
\* (ordering.ts; reorder.ts; forest.ts; ParentDialog.tsx, ancestors).
DrawsEachOnce ==
  /\ part = "reorder" => Moving!DrawsEachOnce
  /\ part \in {"store", "closes"} => (IF part = "store" THEN Shown!EveryThreadPlaced ELSE Closing!EveryThreadPlaced)
  /\ part = "parent" => Dialog!NoneBelowItself

\* ListStore, RowStatus and ListScope: a thread that failed or waits for an answer is drawn, or named
\* on the row, the header or the scope's line that stands for it (list-model.ts; status-slot.ts; scope.ts).
WhatWaitsIsSeen ==
  /\ part = "store" => Shown!AttentionIsDrawn /\ Shown!SeenIsThisQuestion
  /\ part = "row" => Status!RowsNameWhatWaits
  /\ part = "scope" => Chosen!ScopeTellsWhatItHides

\* ListWindow: at rest, the rows drawn are those on screen and their margin, each in its place
\* (virtual-window.ts; ItemList.tsx).
ListStands == part = "window" => Rolling!ListStands

\* ListClock, ThreadMenu and DeviceMemory: a snooze is drawn as ended when it has, the wake time sent
\* lies ahead, and a working time shown began with the work (clock.ts; menu.ts; working-since.ts).
TimesAreTrue ==
  /\ part = "clock" => Ticking!SnoozesEndInTime
  /\ part = "snooze" => Snooze!SentTimesAreAhead
  /\ part = "stamps" => Stamps!StampsAreWork

\* SettlePins: a settle that did not happen, or was undone, leaves the pins where they were
\* (actions.ts, settle and undoSettle; pins.ts).
PinsComeBack == part = "pins" => Pinned!PinsComeBack

\* SettlePins and AutoSettle: an Undo takes back the settle it was offered for, and a pass settles
\* whole trees that nothing keeps (actions.ts, undoSettle; auto-settle.ts).
SettlesItsOwn ==
  [][/\ part = "pins" => Pinned!UndoesItsOwnSettle
     /\ part = "settle" => Quiet!SettlesWholeTrees]_mcVars

\* ThreadMenu and PortWatch: an answer asked for earlier never replaces a later one, and a refresh
\* is answered by a look that began after it (notify-state.ts; ports/engine.ts).
NeverShowsAnOlder ==
  [][/\ part = "notify" => Notify!NeverShowsAnOlder
     /\ part = "families" => Families!NeverShowsAnOlder
     /\ part = "watch" => Watch!RefreshIsNew]_mcVars

\* DeviceMemory and ListReorder: what one window writes leaves what the others wrote, and a reorder
\* leaves the places of the threads outside it (device-storage.ts; manual-order.ts).
OthersAreKept ==
  [][/\ part = "device" => Device!OthersAreKept
     /\ part = "reorder" => Moving!OthersKeepTheirPlaces]_mcVars

\* RenameEditor, ListStore and ListWindow: what is typed, what is open and what is on screen end only
\* by what should end it (RenameEditor.tsx; settle-close.ts; ItemList.tsx).
KeepsWhatIsOpen ==
  [][/\ part = "editor" => Editor!KeepsTheEdit /\ Editor!KeepsFocus'
     /\ part = "closes" => Closing!ClosesForNewsOnly
     /\ part = "window" => Rolling!TogglesSlideNothing]_mcVars

\* PortWatch, HostScan, PortsClean and ThreadCommands: what the snapshot shows as served is held by a
\* process of that thread's, a scan takes no process for another, what is stopped is what was shown, and
\* an offer to stop stands for its settle (ports/engine.ts; host/scan.ts; ports/clean.ts; ports-prompt.ts).
PortsAreTrue ==
  /\ part = "watch" => Watch!ServingIsHeld
  /\ part = "scan" => Scanned!ScanIsWhatItIsTakenFor
  /\ part = "clean" => Cleaning!StopsOnlyWhatWasShown
  /\ part = "shut" => Closed!StopsOnlyWhatWasShown
  /\ part = "commands" => Command!PromptStandsForASettle

\* PortsPage, ThreadMenu and AutoSettle: a page on screen has a look to come, what a failure left open is
\* asked again, and a change of settings has a pass to come (window-state.ts; machines.ts; auto-settle.ts).
KeepsLooking ==
  /\ part = "portsPage" => PortsPages!PageIsFollowed
  /\ part = "machines" => Hosts!KeepsLooking
  /\ part = "settle" => Quiet!ChangesAreFollowed

\* ProjectLooks: no window draws an icon the server had replaced before it was asked for, and two
\* projects' colours stay apart (project-icons.ts; project-colors.ts).
LooksAreTrue == part = "looks" => Looks!DrawsNoEarlierIcon /\ Looks!ColoursKeepApart
=============================================================================
