------------------------------ MODULE LogCache ------------------------------
(***************************************************************************)
(* thread-usage's host worker reads a harness's session log, a file that   *)
(* grows while it is read, only from where it last stopped                 *)
(* (src/host/log-cache.ts).  One file, whose reads run one after the       *)
(* other.  A line has three parts, written one at a time: half its text,   *)
(* the other half, and the newline.  A read waits between asking for the   *)
(* file's size, checking that it is the file it knows, reading and saving. *)
(***************************************************************************)
EXTENDS Integers, SequencesExt

CONSTANTS
  Keys,        \* the keys a line may name
  NoKey,       \* the key of a line that names none
  MaxLines,    \* bound on the lines of a file
  MaxWrites,   \* bound on the changes to the file
  MaxTroubles  \* bound on stopped workers, aborted reads and failed saves

LogCacheAssumption ==
  NoKey \notin Keys /\ {MaxLines, MaxWrites, MaxTroubles} \subseteq Nat

VARIABLES
  lastPerKey,  \* the parser's rule: one entry per key, or one per line
  file,        \* the file, or NoFile
  writes,      \* the changes to the file so far, its modification time
  memory, disk,\* the worker's state of the file, and the stored one
  reading,     \* the read under way, or NotReading
  returned,    \* the last read's answer, and what it should be
  doubtful,    \* the file was rewritten where no read can notice it
  troubles

cacheVars == <<lastPerKey, file, writes, memory, disk, reading, returned, doubtful, troubles>>

NoFile == [ino |-> 0, lines |-> <<>>, size |-> 0, mtime |-> 0]
NoTail == [key |-> NoKey, n |-> 0]
emptyState == [ino |-> 0, mtime |-> 0, offset |-> 0, lineNo |-> 0, tail |-> NoTail, entries |-> <<>>]
NoState == [emptyState EXCEPT !.ino = -1]
NotReading == [at |-> "none"]
LogLine == [key : Keys \cup {NoKey}, n : {1, 2}]

CacheInit ==
  /\ lastPerKey \in BOOLEAN
  /\ file = NoFile /\ writes = 0
  /\ memory = NoState /\ disk = NoState
  /\ reading = NotReading /\ returned = [answer |-> <<>>, wanted |-> <<>>]
  /\ doubtful = FALSE /\ troubles = 0

----------------------------------------------------------------------------
(* The harness and whoever else writes the file.                           *)

Written(f) ==
  /\ writes < MaxWrites /\ writes' = writes + 1
  /\ file' = [f EXCEPT !.mtime = writes + 1]
  /\ UNCHANGED <<lastPerKey, memory, disk, reading, returned, troubles>>

Grow ==
  /\ file.lines # <<>> /\ UNCHANGED doubtful
  /\ \/ file.size % 3 # 0 /\ Written([file EXCEPT !.size = @ + 1])
     \/ /\ file.size % 3 = 0 /\ Len(file.lines) < MaxLines
        /\ \E l \in LogLine, part \in 1..3 :
             Written([file EXCEPT !.lines = Append(@, l), !.size = @ + part])

\* a new file, in place of the old one or of none
ReplaceFile ==
  /\ UNCHANGED doubtful
  /\ \E l \in LogLine : Written([ino |-> file.ino + 1, lines |-> <<l>>, size |-> 3, mtime |-> 0])

DeleteFile == file.lines # <<>> /\ UNCHANGED doubtful /\ Written([NoFile EXCEPT !.ino = file.ino])

\* An editor that rewrites the file in place is noticed by the bytes before
\* the offset, and not while a read is under way.
RewriteFile ==
  /\ file.size > 0
  /\ \E i \in 1..Len(file.lines), l \in LogLine :
       /\ l # file.lines[i]
       /\ doubtful' = (doubtful \/ reading # NotReading
                       \/ \E s \in {memory, disk} : s.offset > 3 * i)
       /\ Written([file EXCEPT !.lines[i] = l])

----------------------------------------------------------------------------
(* Lines and entries.                                                      *)

\* toEntry: a line that names no key is known by its number
EntryOf(l, lineNo) == [key |-> IF l.key = NoKey THEN <<lineNo>> ELSE <<l.key>>, n |-> l.n]

\* apply: the last line of a key stands in the place of the first
Applied(entries, e) ==
  LET at == {i \in DOMAIN entries : lastPerKey /\ entries[i].key = e.key}
  IN IF at = {} THEN Append(entries, e) ELSE [i \in DOMAIN entries |-> IF i \in at THEN e ELSE entries[i]]

ReadLines(entries, f, from, to) ==
  FoldLeftDomain(LAMBDA es, i : IF i \in from..to THEN Applied(es, EntryOf(f.lines[i], i)) ELSE es,
                 entries, f.lines)

\* what a size of the file holds: its whole lines, and a last one that parses
EntriesAt(f, size) == ReadLines(<<>>, f, 1, (size + 1) \div 3)

----------------------------------------------------------------------------
(* A read.                                                                 *)

\* stat; a file that is gone is forgotten, and ends a read when next opened
BeginRead ==
  /\ reading = NotReading
  /\ IF file.lines = <<>>
     THEN /\ memory' = NoState /\ disk' = NoState
          /\ returned' = [answer |-> <<>>, wanted |-> <<>>]
          /\ UNCHANGED reading
     ELSE /\ reading' = [at |-> "sized", ino |-> file.ino, size |-> file.size, mtime |-> file.mtime,
                         wanted |-> EntriesAt(file, file.size), state |-> emptyState, rest |-> <<>>]
          /\ UNCHANGED <<memory, disk, returned>>
  /\ UNCHANGED <<lastPerKey, file, writes, doubtful, troubles>>

Known == IF memory # NoState THEN memory ELSE IF disk # NoState THEN disk ELSE emptyState
TailAt(offset) == IF offset = 0 \/ offset > file.size THEN NoTail ELSE file.lines[offset \div 3]

\* continues: the file still ends, before the offset, with what was read
ContinuesAny(s) == s.offset = 0 \/ (s.ino = reading.ino /\ reading.size >= s.offset)  \* mutant: no look at the tail
Continues(s) ==
  \/ s.offset = 0
  \/ s.ino = reading.ino /\ reading.size >= s.offset /\ TailAt(s.offset) = s.tail

Unchanged(s) == s.ino = reading.ino /\ s.offset = reading.size /\ s.mtime = reading.mtime

CheckFile ==
  /\ reading.at = "sized" /\ file.lines # <<>>
  /\ reading' = [reading EXCEPT !.at = "checked",
                   !.state = IF Unchanged(Known) \/ Continues(Known) THEN Known ELSE emptyState]
  /\ UNCHANGED <<lastPerKey, file, writes, memory, disk, returned, doubtful, troubles>>

\* readLines, up to the size the file had, or to its end if it is shorter now
LinesTo == (IF file.size < reading.size THEN file.size ELSE reading.size) \div 3
RestAfter == reading.size % 3 = 2 /\ reading.size <= file.size
ReadOn ==
  /\ reading.at = "checked" /\ file.lines # <<>>
  /\ LET s == reading.state
         upTo == IF LinesTo > s.lineNo THEN LinesTo ELSE s.lineNo
     IN reading' = [reading EXCEPT !.at = "read",
          !.state = [s EXCEPT !.ino = reading.ino, !.mtime = reading.mtime, !.offset = 3 * upTo, !.lineNo = upTo,
                              !.entries = ReadLines(@, file, s.lineNo + 1, upTo)],
          !.rest = IF RestAfter /\ upTo < Len(file.lines)
                   THEN <<EntryOf(file.lines[upTo + 1], upTo + 1)>> ELSE <<>>]
  /\ UNCHANGED <<lastPerKey, file, writes, memory, disk, returned, doubtful, troubles>>

\* The rest, a line without its newline yet, is in the answer and not in the
\* state: it is read again.
Finish(saved) ==
  /\ reading.at = "read" /\ file.lines # <<>>
  /\ LET s == [reading.state EXCEPT !.tail = TailAt(reading.state.offset)]
     IN /\ memory' = s
        /\ disk' = IF saved THEN s ELSE disk
        /\ returned' = [answer |-> IF reading.rest = <<>> THEN s.entries ELSE Applied(s.entries, reading.rest[1]),
                        wanted |-> IF file.ino = reading.ino THEN reading.wanted ELSE <<>>]
  /\ reading' = NotReading
  /\ UNCHANGED <<lastPerKey, file, writes, doubtful>>

SaveFails == troubles < MaxTroubles /\ troubles' = troubles + 1 /\ Finish(FALSE)
FinishRead == Finish(TRUE) /\ UNCHANGED troubles

\* a read that ends early, because the file is gone or the call was aborted, changes neither state
AbortRead ==
  /\ reading # NotReading
  /\ IF file.lines = <<>> THEN UNCHANGED troubles
     ELSE troubles < MaxTroubles /\ troubles' = troubles + 1
  /\ reading' = NotReading
  /\ UNCHANGED <<lastPerKey, file, writes, memory, disk, returned, doubtful>>

\* bb stops an idle worker, or it dies; or the file is not among the MEMORY_FILES last read
StopWorker ==
  /\ memory # NoState /\ troubles < MaxTroubles /\ troubles' = troubles + 1
  /\ memory' = NoState /\ reading' = NotReading
  /\ UNCHANGED <<lastPerKey, file, writes, disk, returned, doubtful>>

\* a stored state not used for 30 days
PruneDisk ==
  /\ disk # NoState /\ memory = NoState /\ reading = NotReading
  /\ disk' = NoState
  /\ UNCHANGED <<lastPerKey, file, writes, memory, reading, returned, doubtful, troubles>>

CacheNext ==
  \/ Grow \/ ReplaceFile \/ DeleteFile \/ RewriteFile
  \/ BeginRead \/ CheckFile \/ ReadOn \/ FinishRead \/ SaveFails \/ AbortRead \/ StopWorker \/ PruneDisk

CacheSpec == CacheInit /\ [][CacheNext]_cacheVars

----------------------------------------------------------------------------
\* A read answers with exactly the entries the file had when it was asked for
\* its size, each once, however it was cut, aborted, stored or restarted, as
\* long as no other file took its place meanwhile (readNow).
ReadsTheFile == returned' # returned /\ ~doubtful /\ returned'.wanted # <<>>
                     => returned'.answer = returned'.wanted
=============================================================================
