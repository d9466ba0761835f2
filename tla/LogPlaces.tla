----------------------------- MODULE LogPlaces -----------------------------
(***************************************************************************)
(* Where thread-usage finds a session's logs, and from when it reads them. *)
(* The host searches every project's directory for a Claude Code session's *)
(* files and trusts what it found for a while (src/host/claude.ts,         *)
(* src/host/log-cache.ts); the server asks for what is newer than its last *)
(* read, less an overlap, by its own clock (readThreadLogs in              *)
(* src/server/engine.ts).  The entries carry the host's.  An answer is one *)
(* page.                                                                   *)
(***************************************************************************)
EXTENDS Integers, FiniteSets

CONSTANTS
  Dirs,      \* the directories that may hold a file of the session
  Ttl,       \* LOCATION_TTL_MS
  Overlap,   \* the overlap between incremental reads
  Forgotten, \* how long a location is kept at all
  Behind,    \* how far the host's clock is behind the server's
  MaxTime    \* bound on the clock

LogPlacesAssumption ==
  {Ttl, Overlap, Forgotten, Behind, MaxTime} \subseteq Nat /\ Behind <= Overlap /\ Ttl <= Overlap

VARIABLES
  now,         \* the server's clock
  logged,      \* the entries in the files
  location,    \* the remembered directories, or NoLocation
  stored,      \* the entries the server has stored
  readThrough, \* logsReadThrough
  forgot       \* a search found no location because it had been dropped

placesVars == <<now, logged, location, stored, readThrough, forgot>>

Entry == [dir : Dirs, at : 0..MaxTime]
NoLocation == [dirs |-> {}, at |-> -Forgotten, appeared |-> {}]

PlacesInit ==
  /\ now = 0 /\ logged = {} /\ location = NoLocation
  /\ stored = {} /\ readThrough = 0 /\ forgot = FALSE

\* a file appears with its first entry
LogEntry(d) ==
  /\ logged' = logged \cup {[dir |-> d, at |-> now]}
  /\ UNCHANGED <<now, location, stored, readThrough, forgot>>

Tick == now < MaxTime /\ now' = now + 1 /\ UNCHANGED <<logged, location, stored, readThrough, forgot>>

FilesIn(dirs) == {d \in dirs : \E e \in logged : e.dir = d}

Remembered == now - location.at < Forgotten
Fresh == Remembered /\ now - location.at < Ttl
\* a fresh location is trusted if it names no directory, or files are still there
Trusted == Fresh /\ (location.dirs = {} \/ FilesIn(location.dirs) # {})

\* setLocation, with the files that were not where the last search looked
AppearedNone == {}  \* mutant: none is told apart
Appeared == IF Remembered THEN FilesIn(Dirs) \ location.dirs ELSE {}
Located == IF Trusted THEN location ELSE [dirs |-> FilesIn(Dirs), at |-> now, appeared |-> Appeared]

\* a file that appeared is read whole
InWindow(e, l) == e.dir \in l.appeared \/ e.at - Behind >= readThrough - Overlap

\* readThreadLogs: an incremental read
ReadLogs ==
  /\ location' = Located
  /\ stored' = stored \cup {e \in logged : e.dir \in Located.dirs /\ InWindow(e, Located)}
  /\ readThrough' = now
  /\ forgot' = (forgot \/ (location # NoLocation /\ ~Remembered))
  /\ UNCHANGED <<now, logged>>


PlacesNext == Tick \/ ReadLogs \/ \E d \in Dirs : LogEntry(d)

PlacesSpec == PlacesInit /\ [][PlacesNext]_placesVars

----------------------------------------------------------------------------
\* What a read left out, the next one that searches takes in, though the
\* host's clock is behind by up to the overlap: an entry is stored once a
\* location older than it is no longer trusted, unless the plugin read
\* nothing for so long that the location is dropped (locateClaudeSession).
StoresWhatItSkipped ==
  ~forgot =>
    \A e \in logged :
      e.at < readThrough => e \in stored \/ (location.at <= e.at /\ readThrough - location.at < Ttl)
=============================================================================
