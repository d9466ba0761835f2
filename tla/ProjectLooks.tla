---------------------------- MODULE ProjectLooks ----------------------------
(***************************************************************************)
(* How thread-glance's projects look: the colours picked on the settings   *)
(* page (features/settings/model/colour-save.ts) and the automatic ones    *)
(* (model/project-colour.ts), the uploaded icon and the favicon found in   *)
(* the project's files (server/appearance-store.ts, project-icons.ts,      *)
(* favicon.ts, icon-image.ts), and the window that reads the icon once     *)
(* (project/icon-loader.ts, icon-health.ts).                               *)
(*                                                                         *)
(* One project has an icon, the others colours only.  An icon is known by  *)
(* its stamp: how often the icon had been uploaded, cleared or forgotten   *)
(* when it was uploaded, or when the reading of the files that found it    *)
(* began.  A found favicon expires at any time.  Calls are handled in the  *)
(* order they are made; waits and times of retries are left out, and so    *)
(* are the answers for a copy the browser holds.                           *)
(***************************************************************************)
EXTENDS Integers, FiniteSets, Sequences, SequencesExt

CONSTANTS
  Projects,     \* as positive numbers, in the order of their ids
  Own,          \* the hue of each project's id
  Hues, Gap, HueStep, Attempts,    \* the ring of hues, the least gap, the golden angle, the attempts
  Picked,       \* the hues a person picks
  NoColour, NoIcon, NoEntry,
  Candidates,   \* the paths of the usual icon files, best first
  Sources,      \* the paths of the files that may link to an icon
  Named,        \* the paths the link of each source names
  FileKinds,    \* the files a project may have: functions from paths to "icon", "none", "offline"
  MaxUploads, MaxPicks, MaxReads, MaxFailures    \* bounds

VARIABLES
  colours,      \* the stored colour of each project
  icon,         \* the uploaded icon's stamp
  stamp,        \* how often the icon was uploaded, cleared or forgotten
  files,        \* what the project's files hold
  found,        \* the favicon, or its lack, as last read
  pending,      \* the read of the files that a request joins, 0 for none
  reads,        \* the reads under way
  lastRead,
  heard,        \* what the window knows of the icon, and the stamp it had
  entry,        \* the window's icon: what it asked for, what it draws, what it waits on
  waiting,      \* the picked colour that waits to be saved
  calls,        \* the page's calls on their way
  uploads, picks, failures

iconVars == <<icon, stamp, found, pending, reads, lastRead, files, uploads>>
windowVars == <<heard, entry, failures>>
colourVars == <<colours, waiting, calls, picks>>
looksVars == <<iconVars, windowVars, colourVars>>

-----------------------------------------------------------------------------
(***************************************************************************)
(* Colours.                                                                *)
(***************************************************************************)
Distance(a, b) == LET apart == (a - b) % Hues IN IF apart <= Hues - apart THEN apart ELSE Hues - apart
Least(set) == CHOOSE x \in set : \A y \in set : x <= y
GapOf(hue, taken) == IF taken = {} THEN Hues ELSE Least({Distance(hue, t) : t \in taken})
Automatic(p, attempt) == (Own[p] + attempt * HueStep) % Hues
\* The first attempt far enough from every colour taken, else the first of the farthest.
Chosen(p, taken) ==
  LET gap(attempt) == GapOf(Automatic(p, attempt), taken)
      fits == {a \in 0..(Attempts - 1) : gap(a) >= Gap}
      best == {a \in 0..(Attempts - 1) : \A b \in 0..(Attempts - 1) : gap(b) <= gap(a)}
  IN Automatic(p, IF fits # {} THEN Least(fits) ELSE Least(best))
ProjectColoursInTurn(overrides) ==    \* mutant: an override counts as taken only once its project is reached
  LET give(so_far, p) == LET hue == IF overrides[p] # NoColour THEN overrides[p] ELSE Chosen(p, so_far.taken)
                         IN [shown |-> [so_far.shown EXCEPT ![p] = hue], taken |-> so_far.taken \cup {hue}]
  IN FoldLeft(give, [shown |-> [p \in Projects |-> overrides[p]], taken |-> {}], SetToSortSeq(Projects, <)).shown
\* projectColours: overrides are taken first; then the projects in the order of their ids.
ProjectColours(overrides) ==
  LET set == {p \in Projects : overrides[p] # NoColour}
      start == [shown |-> [p \in Projects |-> overrides[p]], taken |-> {overrides[p] : p \in set}]
      give(so_far, p) == LET hue == Chosen(p, so_far.taken)
                         IN [shown |-> [so_far.shown EXCEPT ![p] = hue], taken |-> so_far.taken \cup {hue}]
  IN FoldLeft(give, start, SetToSortSeq(Projects \ set, <)).shown

\* pick: a colour waits for the next; what is no colour cancels what waits.  Choosing another project saves what waits.
Commit == IF waiting = NoColour THEN calls ELSE Append(calls, waiting)
Pick(p, hue) ==
  /\ picks < MaxPicks /\ picks' = picks + 1
  /\ calls' = IF waiting # NoColour /\ waiting.project # p THEN Commit ELSE calls
  /\ waiting' = IF hue = NoColour THEN NoColour ELSE [project |-> p, hue |-> hue]
  /\ UNCHANGED <<colours, iconVars, windowVars>>
\* The 500 ms are over, or the page is left.
Save == waiting # NoColour /\ calls' = Commit /\ waiting' = NoColour /\ UNCHANGED <<colours, picks, iconVars, windowVars>>
Reset(p) ==
  /\ picks < MaxPicks /\ picks' = picks + 1
  /\ waiting' = NoColour
  /\ calls' = IF colours[p] = NoColour THEN calls ELSE Append(calls, [project |-> p, hue |-> NoColour])
  /\ UNCHANGED <<colours, iconVars, windowVars>>
SetColour ==
  /\ calls # <<>> /\ calls' = Tail(calls)
  /\ colours' = [colours EXCEPT ![Head(calls).project] = Head(calls).hue]
  /\ UNCHANGED <<waiting, picks, iconVars, windowVars>>

-----------------------------------------------------------------------------
(***************************************************************************)
(* The server's icons.                                                     *)
(***************************************************************************)
\* findProjectIcon: the first usual file that is an icon, else the first that a link names.
FindIcon(held) ==
  LET isIcon(path) == held[path] = "icon"
      linked == FlattenSeq([i \in DOMAIN Sources |-> IF held[Sources[i]] = "link" THEN Named[i] ELSE <<>>])
      direct == SelectSeq(Candidates, isIcon)
      tried == ToSet(Candidates) \cup (IF direct = <<>> THEN ToSet(Sources) \cup ToSet(linked) ELSE {})
  IN IF direct # <<>> \/ SelectSeq(linked, isIcon) # <<>> THEN "found"
     ELSE IF \E path \in tried : held[path] = "offline" THEN "unreadable" ELSE "missing"

\* checkIconUpload: what is no image, empty or too large is refused, and nothing changes.
Accepted(upload) == upload = "image"

InvalidateFound ==    \* mutant: a read under way is still joined
  stamp' = stamp + 1 /\ found' = NoIcon /\ pending' = pending
Invalidate == stamp' = stamp + 1 /\ found' = NoIcon /\ pending' = 0
Upload(upload) ==
  /\ uploads < MaxUploads /\ uploads' = uploads + 1
  /\ IF Accepted(upload) THEN Invalidate /\ icon' = stamp + 1 ELSE UNCHANGED <<stamp, found, pending, icon>>
  /\ UNCHANGED <<reads, lastRead, files, windowVars, colourVars>>
\* "Use automatic", or the project is removed, which forgets its colour too.
Clear(forgets) ==
  /\ uploads < MaxUploads /\ uploads' = uploads + 1
  /\ Invalidate /\ icon' = NoIcon
  /\ colours' = IF forgets THEN [colours EXCEPT ![1] = NoColour] ELSE colours
  /\ UNCHANGED <<reads, lastRead, files, windowVars, waiting, calls, picks>>
FilesChange ==
  /\ \E held \in FileKinds \ {files} : files' = held
  /\ UNCHANGED <<icon, stamp, found, pending, reads, lastRead, uploads, windowVars, colourVars>>
Expire == found # NoIcon /\ found' = NoIcon /\ UNCHANGED <<icon, stamp, pending, reads, lastRead, files, uploads, windowVars, colourVars>>

Result(kind, at) == [kind |-> kind, stamp |-> at]
\* A read ends: what it found is kept, and answered to whoever joined it.
EndRead(r) ==
  /\ r \in reads
  /\ LET result == Result(FindIcon(files), r.stamp)
     IN /\ reads' = reads \ {r}
        /\ pending' = IF pending = r.id THEN 0 ELSE pending
        /\ found' = IF r.stamp = stamp /\ result.kind # "unreadable" THEN result ELSE found
        /\ entry' = IF entry # NoEntry /\ entry.waits = r.id THEN [entry EXCEPT !.waits = -1, !.answer = result] ELSE entry
  /\ UNCHANGED <<icon, stamp, lastRead, files, uploads, heard, failures, colourVars>>

-----------------------------------------------------------------------------
(***************************************************************************)
(* The window.  entry.waits is the read its request joined: 0 before the   *)
(* server has the request, -1 once it has answered.                        *)
(***************************************************************************)
NoAnswer == Result("none", 0)
Asking(src, since) == [src |-> src, since |-> since, url |-> NoAnswer, waits |-> 0, answer |-> NoAnswer, state |-> "asking"]
\* The appearance is published on every change; the marks drawn then ask for the icon under its URL.
Want(src) == IF entry # NoEntry /\ entry.src = src THEN entry ELSE Asking(src, stamp)
Hear ==
  /\ heard # [icon |-> icon, stamp |-> stamp] \/ entry = NoEntry
  /\ heard' = [icon |-> icon, stamp |-> stamp]
  /\ entry' = Want(icon)
  /\ failures' = failures
  /\ UNCHANGED <<iconVars, colourVars>>

\* The route: the upload if there is one, else the favicon kept, else the read under way or a new one.
Serve ==
  /\ entry # NoEntry /\ entry.state = "asking" /\ entry.waits = 0
  /\ LET answered(result) == entry' = [entry EXCEPT !.waits = -1, !.answer = result] /\ UNCHANGED <<pending, reads, lastRead>>
         joins(id) == entry' = [entry EXCEPT !.waits = id]
     IN \/ icon # NoIcon /\ answered(Result("found", icon))
        \/ icon = NoIcon /\ found # NoIcon /\ answered(found)
        \/ icon = NoIcon /\ found = NoIcon /\ pending # 0 /\ joins(pending) /\ UNCHANGED <<pending, reads, lastRead>>
        \/ /\ icon = NoIcon /\ found = NoIcon /\ pending = 0 /\ lastRead < MaxReads
           /\ lastRead' = lastRead + 1 /\ pending' = lastRead + 1
           /\ reads' = reads \cup {[id |-> lastRead + 1, stamp |-> stamp]}
           /\ joins(lastRead + 1)
  /\ UNCHANGED <<icon, stamp, found, files, uploads, heard, failures, colourVars>>

Wait == [entry EXCEPT !.url = NoAnswer, !.state = "failed", !.waits = 0, !.answer = NoAnswer]
\* load: no icon is left alone; one that could not be read is asked for again.
Load ==
  /\ entry # NoEntry /\ entry.state = "asking" /\ entry.waits = -1
  /\ CASE entry.answer.kind = "unreadable" -> failures < MaxFailures /\ failures' = failures + 1 /\ entry' = Wait
       [] entry.answer.kind = "missing" -> failures' = 0 /\ entry' = [entry EXCEPT !.state = "done", !.waits = 0, !.answer = NoAnswer]
       [] OTHER -> failures' = failures /\ entry' = [entry EXCEPT !.url = entry.answer, !.state = "done", !.waits = 0, !.answer = NoAnswer]
  /\ UNCHANGED <<heard, iconVars, colourVars>>
Retry == entry # NoEntry /\ entry.state = "failed" /\ entry' = [entry EXCEPT !.state = "asking"] /\ UNCHANGED <<heard, failures, iconVars, colourVars>>
\* The browser drew the image, or could not.
Drawn ==
  /\ entry # NoEntry /\ entry.url # NoAnswer
  /\ \/ failures' = 0 /\ entry' = entry
     \/ failures < MaxFailures /\ failures' = failures + 1 /\ entry' = Wait
  /\ UNCHANGED <<heard, iconVars, colourVars>>

-----------------------------------------------------------------------------
LooksInit ==
  /\ colours = [p \in Projects |-> NoColour] /\ waiting = NoColour /\ calls = <<>> /\ picks = 0
  /\ icon = NoIcon /\ stamp = 0 /\ files \in FileKinds
  /\ found = NoIcon /\ pending = 0 /\ reads = {} /\ lastRead = 0
  /\ heard = [icon |-> NoIcon, stamp |-> 0] /\ entry = NoEntry
  /\ uploads = 0 /\ failures = 0

LooksNext ==
  \/ \E p \in Projects : Reset(p) \/ \E hue \in Picked \cup {NoColour} : Pick(p, hue)
  \/ Save \/ SetColour
  \/ \E upload \in {"image", "text", "empty", "large"} : Upload(upload)
  \/ \E forgets \in BOOLEAN : Clear(forgets)
  \/ FilesChange \/ Expire \/ (\E r \in reads : EndRead(r))
  \/ Hear \/ Serve \/ Load \/ Retry \/ Drawn

LooksSpec == LooksInit /\ [][LooksNext]_looksVars

-----------------------------------------------------------------------------
\* Once the window has heard that the icon was uploaded, cleared or forgotten, it draws no icon from before
\* (project-icons.ts:80-88, icon-loader.ts:92-93): neither an earlier upload nor a favicon whose files were read earlier.
DrawsNoEarlierIcon == entry # NoEntry /\ entry.url # NoAnswer => entry.url.stamp >= entry.since

\* An automatic colour keeps the gap from every picked one and from those of the projects before it, while an attempt
\* of its own does (project-colour.ts:98-103); a picked one is drawn as picked.
ColoursKeepApart ==
  LET shown == ProjectColours(colours)
      earlier(q) == {p \in Projects \ {q} : p < q \/ colours[p] # NoColour}
      apart(q, hue) == \A p \in earlier(q) : Distance(shown[p], hue) >= Gap
  IN \A q \in Projects :
       IF colours[q] # NoColour THEN shown[q] = colours[q]
       ELSE apart(q, shown[q]) \/ ~\E a \in 0..(Attempts - 1) : apart(q, Automatic(q, a))
=============================================================================
