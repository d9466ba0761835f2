------------------------------ MODULE LogPages ------------------------------
(***************************************************************************)
(* Reading the harness logs of a session in pages (thread-usage's          *)
(* src/host/claude.ts, pi.ts, codex.ts, files.ts, handlers.ts, and         *)
(* readThreadLogs in src/server/engine.ts).  Every page reads the files    *)
(* again and cuts its part of the sorted entries, while the harness goes   *)
(* on writing: a response of Claude Code is several lines, and its entry,  *)
(* made of the last, moves on with it.                                     *)
(*                                                                         *)
(* One session, in a file of its own and in one of a subagent or of bb's   *)
(* bridge, among another session's.  A page reads its files in one step;   *)
(* no file is removed; every request counted wrote to the cache, or is a   *)
(* subagent's.  Clocks agree (LogPlaces has one that is behind).           *)
(***************************************************************************)
EXTENDS Integers, Sequences, FiniteSets, TLC

CONSTANTS
  Files,      \* the log files there can be, as numbers
  SessionOf,  \* the session each one's name gives
  Session,    \* the session read
  Harnesses,  \* the harnesses to begin with: "claude-code", "pi", "codex"
  Limit,      \* how many entries a page holds
  Overlap,    \* how far before the last read an incremental read begins again
  Span,       \* how long a response takes from its first line to its last
  Never,      \* nothing was read yet; no bound
  NoRead,     \* no read is under way
  MaxLines,   \* bound: the lines of all files, by harness
  MaxTime,    \* bound: the clock
  MaxReads,   \* bound: reads begun, by harness
  MaxFailures \* bound: pages that fail

PagesAssumption ==
  /\ Files \subseteq Nat /\ Limit \in Nat \ {0}
  /\ Span \in Nat /\ Overlap \in Nat /\ Span <= Overlap
  /\ Harnesses \subseteq {"claude-code", "pi", "codex"}
  /\ {MaxLines, MaxReads} \subseteq [Harnesses -> Nat] /\ {MaxTime, MaxFailures} \subseteq Nat

VARIABLES
  harness,  \* what writes the files
  log,      \* each file's lines
  torn,     \* the file whose last line is half written, 0 for none
  server,   \* the entries stored, by key, the time read through, the read under way, and how many began
  time,
  failures,
  windows   \* history: the windows that were read to the end

pagesVars == <<harness, log, torn, server, time, failures, windows>>

-----------------------------------------------------------------------------
(***************************************************************************)
(* The files, and what each parser makes of their lines.                   *)
(***************************************************************************)
\* readJsonl: a line still being written does not parse.
Lines(f) == IF torn = f THEN SubSeq(log[f], 1, Len(log[f]) - 1) ELSE log[f]
Entry(f, n, line) == [key |-> <<f, n>>, ts |-> line.ts, amount |-> line.amount]

\* One entry per response, from its last line.
ClaudeEntries(f) ==
  LET lines == Lines(f)
  IN {Entry(f, lines[i].id, lines[i]) :
        i \in {i \in DOMAIN lines : \A j \in i + 1..Len(lines) : lines[j].id # lines[i].id}}

\* Aborted turns are logged with nothing to count.
PiEntries(f) ==
  LET lines == Lines(f) IN {Entry(f, lines[i].id, lines[i]) : i \in {i \in DOMAIN lines : lines[i].amount # 0}}

\* A line whose total is the one before is a repeat, and no request.
NoRepeat(lines, i) ==
  LET counts == {j \in 1..i - 1 : lines[j].kind = "token_count"}
  IN counts # {} => lines[i].total # lines[CHOOSE j \in counts : \A k \in counts : k <= j].total
CodexEntries(f) ==
  LET lines == Lines(f)
  IN {Entry(f, i, lines[i]) : i \in {i \in DOMAIN lines : lines[i].kind = "token_count" /\ NoRepeat(lines, i)}}

EntriesOf(f) ==
  CASE harness = "claude-code" -> ClaudeEntries(f)
    [] harness = "pi" -> PiEntries(f)
    [] harness = "codex" -> CodexEntries(f)

Located == {f \in Files : SessionOf[f] = Session}
InWindow(ts, since, until) == ts >= since /\ (until # Never => ts < until)
All(since, until) ==
  {e \in UNION {EntriesOf(f) : f \in Located} : InWindow(e.ts, since, until)}

\* compareEntries: by time, then by key.
Before(a, b) ==
  \/ a.ts < b.ts
  \/ a.ts = b.ts /\ (a.key[1] < b.key[1] \/ (a.key[1] = b.key[1] /\ a.key[2] < b.key[2]))
\* A page: the entries from the offset on, as many as the limit allows.
PageOf(all, offset) ==
  {e \in all : Cardinality({x \in all : Before(x, e)}) \in offset..offset + Limit - 1}

-----------------------------------------------------------------------------
(***************************************************************************)
(* The harness writes.                                                     *)
(***************************************************************************)
PagesInit ==
  /\ harness \in Harnesses
  /\ log = [f \in Files |-> <<>>] /\ torn = 0
  /\ server = [stored |-> <<>>, through |-> Never, read |-> NoRead, reads |-> 0]
  /\ time = 1 /\ failures = 0 /\ windows = {}

Written == LET sum[n \in 0..Cardinality(Files)] == IF n = 0 THEN 0 ELSE LET s == sum[n - 1] IN s + Len(log[n])
           IN sum[Cardinality(Files)]
LastOf(f) == log[f][Len(log[f])]
Put(f, line) ==
  /\ Written < MaxLines[harness] /\ torn = 0
  /\ log' = [log EXCEPT ![f] = Append(@, line)]
  /\ torn' \in {0, f}
  /\ UNCHANGED <<harness, server, time, failures, windows>>

Total(f) == LET counts == {i \in DOMAIN log[f] : log[f][i].kind = "token_count"}
            IN IF counts = {} THEN 0 ELSE log[f][CHOOSE i \in counts : \A j \in counts : j <= i].total
Line(kind, id, amount, total) == [kind |-> kind, id |-> id, amount |-> amount, total |-> total, first |-> time, ts |-> time]

\* A request's first line.
WriteRequest ==
  \E f \in Files :
    Put(f, Line(IF harness = "codex" THEN "token_count" ELSE "usage", Len(log[f]) + 1, 1, Total(f) + 1))
\* Claude Code: a further block of the response, with what it now holds.
WriteBlock ==
  /\ harness = "claude-code"
  /\ \E f \in Files :
       /\ log[f] # <<>> /\ LastOf(f).amount < 2 /\ time - LastOf(f).first <= Span
       /\ Put(f, [LastOf(f) EXCEPT !.amount = @ + 1, !.ts = time])
\* pi: an aborted turn.
WriteAborted == harness = "pi" /\ \E f \in Files : Put(f, Line("usage", Len(log[f]) + 1, 0, 0))
\* Codex: the counts again, such as for the rate limits, or another model.
WriteRepeat == harness = "codex" /\ \E f \in Files : Total(f) > 0 /\ Put(f, Line("token_count", 0, 1, Total(f)))
WriteModel == harness = "codex" /\ \E f \in Files : Put(f, Line("turn_context", 0, 0, 0))
FinishLine == torn # 0 /\ torn' = 0 /\ UNCHANGED <<harness, log, server, time, failures, windows>>

Tick ==
  /\ time < MaxTime /\ torn = 0 /\ time' = time + 1
  /\ UNCHANGED <<harness, log, torn, server, failures, windows>>

-----------------------------------------------------------------------------
(***************************************************************************)
(* The server reads, page by page.                                         *)
(***************************************************************************)
SinceThrough == IF server.through = Never THEN 0 ELSE server.through    \* mutant: a read begins where the last one did
Since == IF server.through = Never THEN 0 ELSE server.through - Overlap
Read(incremental, since, until) ==
  /\ server.read = NoRead /\ server.reads < MaxReads[harness]
  /\ server' = [server EXCEPT !.reads = @ + 1, !.read =
       [incremental |-> incremental, since |-> since, until |-> until, began |-> time, offset |-> 0,
        ended |-> FALSE, got |-> <<>>]]
  /\ UNCHANGED <<harness, log, torn, time, failures, windows>>
\* Codex logs are read for windows only.
Incremental == harness # "codex" /\ Read(TRUE, Since, Never)
Window == \E until \in 1..time : Read(FALSE, 0, until)

\* The pages come with what the files hold as each is read; a key read twice is its later entry.
Page ==
  /\ server.read # NoRead /\ ~server.read.ended
  /\ LET read == server.read
         all == All(read.since, read.until)
         page == PageOf(all, read.offset)
         end == read.offset + Limit
     IN server' = [server EXCEPT !.read.got = [k \in {e.key : e \in page} |-> (CHOOSE e \in page : e.key = k).amount] @@ @,
                                 !.read.offset = end,
                                 !.read.ended = end >= Cardinality(all)]
  /\ UNCHANGED <<harness, log, torn, time, failures, windows>>
Fail ==
  /\ server.read # NoRead /\ ~server.read.ended /\ failures < MaxFailures
  /\ failures' = failures + 1 /\ server' = [server EXCEPT !.read = NoRead]
  /\ UNCHANGED <<harness, log, torn, time, windows>>
Store ==
  /\ server.read # NoRead /\ server.read.ended
  /\ LET read == server.read
     IN /\ server' = [server EXCEPT !.stored = read.got @@ @, !.read = NoRead,
                                    !.through = IF read.incremental THEN read.began ELSE @]
        /\ windows' = IF read.incremental THEN windows ELSE windows \cup {[until |-> read.until, began |-> read.began]}
  /\ UNCHANGED <<harness, log, torn, time, failures>>

PagesNext ==
  \/ WriteRequest \/ WriteBlock \/ WriteAborted \/ WriteRepeat \/ WriteModel \/ FinishLine \/ Tick
  \/ Incremental \/ Window \/ Page \/ Fail \/ Store

PagesSpec == PagesInit /\ [][PagesNext]_pagesVars

-----------------------------------------------------------------------------
(***************************************************************************)
(* What must hold.                                                         *)
(***************************************************************************)
\* The truth: the requests the harness made, with the key and the tokens each ends with.
Requests ==
  UNION {{[key |-> <<f, IF harness = "codex" THEN i ELSE log[f][i].id>>, ts |-> log[f][i].ts, amount |-> log[f][i].amount] :
            i \in {i \in DOMAIN log[f] :
                     /\ log[f][i].amount > 0
                     /\ CASE harness = "codex" -> \A j \in 1..i - 1 : log[f][j].total # log[f][i].total
                          [] OTHER -> i = Len(log[f]) \/ log[f][i + 1].id # log[f][i].id}} : f \in Located}

\* Everything old is stored with what it came to, though entries move between pages: a request older
\* by a response's span than the last incremental read, or than a window that was over by then, and
\* nothing that is no request (engine.ts:405-434, handlers.ts:75-81).
StoresEachRequest ==
  /\ \A r \in Requests :
       (\/ server.through # Never /\ r.ts < server.through - Span
        \/ \E w \in windows : r.ts < w.until /\ (harness # "claude-code" \/ w.until + Span <= w.began)
                              /\ (torn = 0 \/ r.ts < time) /\ r.ts < w.began)
       => r.key \in DOMAIN server.stored /\ server.stored[r.key] = r.amount
  /\ DOMAIN server.stored \subseteq {r.key : r \in Requests}
=============================================================================
