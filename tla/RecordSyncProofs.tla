-------------------------- MODULE RecordSyncProofs --------------------------
(***************************************************************************)
(* Proofs about RecordSync, for any threads, rows, server starts, changes  *)
(* and faults: every record a window holds is one the server had, nothing  *)
(* it holds goes back, and, while connection, keeper and server change     *)
(* only while Calm, what it shows as current is what the server stores.    *)
(***************************************************************************)
EXTENDS RecordSync, SequenceTheorems, TLAPS

\* Revision r of epoch e is published: what it left no later change alters.
Past(e, r) == e < epoch \/ (e = epoch /\ r <= revision)

\* The records a message carries are those of its revision.
Sound(msg) ==
  /\ Past(msg.epoch, msg.revision)
  /\ \A t \in msg.about : msg.rows[t] = log[msg.epoch][msg.revision][t]

\* What the running change has not touched is as the last revision left it.
LogIsNow == \A t \in Threads \ touched, r \in Revisions : r >= revision => log[epoch][r][t] = rows[t]

MessagesSound ==
  /\ \A i \in 1..Len(signals) : Sound(signals[i])
  /\ \A s \in early : Sound(s)
  /\ call.phase = "answered" => Sound(call.answer)

\* The window has seen nothing that is not published, and holds what was.
WindowSound(window) ==
  /\ window.point = NoPoint => \A t \in Threads : window.revs[t] = 0
  /\ window.point # NoPoint =>
       /\ Past(window.point.epoch, window.point.revision)
       /\ \A t \in Threads : window.revs[t] # 0 =>
            /\ Past(window.point.epoch, window.revs[t] - 1)
            /\ window.held[t] = log[window.point.epoch][window.revs[t] - 1][t]

\* The point of a call in flight is of the window's epoch still.
CallFits ==
  call.phase # "none" =>
    /\ call.since = NoPoint <=> point = NoPoint
    /\ point # NoPoint => /\ call.since.epoch = point.epoch
                          /\ Past(call.since.epoch, call.since.revision)

\* A delta is of the window's epoch, a full answer of a later one.
AnswerFits ==
  call.phase = "answered" =>
    IF call.answer.full THEN point = NoPoint \/ point.epoch < call.answer.epoch
    ELSE point # NoPoint /\ point.epoch = call.answer.epoch

IInv == TypeOK /\ LogIsNow /\ MessagesSound /\ WindowSound(Window) /\ CallFits /\ AnswerFits

-----------------------------------------------------------------------------
(***************************************************************************)
(* Types of the window's steps and of what the server sends.               *)
(***************************************************************************)
Windows == [held : [Threads -> RowOrNone], revs : [Threads -> 0..(MaxRevision + 1)], point : Points \cup {NoPoint}]

\* What withRecords and the point read of a signal or an answer.
IsMessage(msg) ==
  /\ msg.epoch \in Epochs
  /\ msg.revision \in Revisions
  /\ msg.about \in SUBSET Threads
  /\ msg.rows \in [Threads -> RowOrNone]

LEMMA WithRecordsType ==
  ASSUME NEW window \in Windows, NEW msg, IsMessage(msg)
  PROVE  /\ WithRecords(window, msg) \in Windows
         /\ WithRecords(window, msg).point = window.point
<1> DEFINE takes(t) == t \in msg.about /\ window.revs[t] <= msg.revision + 1
           h == [t \in Threads |-> IF takes(t) THEN msg.rows[t] ELSE window.held[t]]
           r == [t \in Threads |-> IF takes(t) THEN msg.revision + 1 ELSE window.revs[t]]
<1>1. h \in [Threads -> RowOrNone]
  BY DEF Windows, IsMessage
<1>2. r \in [Threads -> 0..(MaxRevision + 1)]
  BY BoundsAssumption DEF Windows, IsMessage, Revisions
<1>3. WithRecords(window, msg) = [window EXCEPT !.held = h, !.revs = r]
  BY DEF WithRecords
<1> HIDE DEF h, r
<1> QED BY <1>1, <1>2, <1>3 DEF Windows

LEMMA PointAfterType ==
  ASSUME NEW window \in Windows, NEW msg, IsMessage(msg)
  PROVE  PointAfter(window, msg) \in Points
BY ValuesAssumption DEF PointAfter, Windows, IsMessage, Points, SameEpoch

LEMMA ReplacedType ==
  ASSUME NEW window \in Windows, NEW msg, IsMessage(msg)
  PROVE  Replaced(window, msg) \in Windows
BY BoundsAssumption DEF Replaced, Windows, IsMessage, Revisions, RowOrNone

LEMMA ApplySyncType ==
  ASSUME NEW window \in Windows, NEW answer \in Answers
  PROVE  /\ ApplySync(window, answer) \in Windows
         /\ ApplySync(window, answer).point = PointAfter(window, answer)
<1>1. IsMessage(answer)
  BY DEF Answers, IsMessage
<1>2. PointAfter(window, answer) \in Points
  BY <1>1, PointAfterType
<1>3. Replaced(window, answer) \in Windows /\ WithRecords(window, answer) \in Windows
  BY <1>1, ReplacedType, WithRecordsType
<1> QED BY <1>2, <1>3 DEF ApplySync, Windows

LEMMA ApplySignalType ==
  ASSUME NEW window \in Windows, NEW signal \in Signals
  PROVE  /\ ApplySignal(window, signal) \in Windows
         /\ ApplySignal(window, signal).point = PointAfter(window, signal)
<1>1. IsMessage(signal)
  BY DEF Signals, IsMessage
<1>2. PointAfter(window, signal) \in Points
  BY <1>1, PointAfterType
<1>3. WithRecords(window, signal) \in Windows
  BY <1>1, WithRecordsType
<1> QED BY <1>2, <1>3 DEF ApplySignal, Windows

LEMMA ApplyEarlyType ==
  ASSUME early \in SUBSET Signals, NEW window \in Windows
  PROVE  ApplyEarly(window) \in Windows
<1> DEFINE ours     == {s \in early : SameEpoch(window, s.epoch)}
           about(t) == {s \in ours : t \in s.about}
           takes(t) == \E s \in about(t) : s = Latest(about(t)) /\ window.revs[t] <= s.revision + 1
           moves    == \E s \in ours : s = Latest(ours) /\ s.revision > window.point.revision
<1>1. ASSUME NEW t \in Threads, takes(t)
      PROVE  Latest(about(t)).rows[t] \in RowOrNone /\ Latest(about(t)).revision + 1 \in 0..(MaxRevision + 1)
  BY <1>1, BoundsAssumption DEF Signals, Revisions
<1>2. moves => PointAfter(window, Latest(ours)) \in Points
  BY PointAfterType DEF Signals, IsMessage
<1>3. [t \in Threads |-> IF takes(t) THEN Latest(about(t)).rows[t] ELSE window.held[t]] \in [Threads -> RowOrNone]
  BY <1>1 DEF Windows
<1>4. [t \in Threads |-> IF takes(t) THEN Latest(about(t)).revision + 1 ELSE window.revs[t]]
        \in [Threads -> 0..(MaxRevision + 1)]
  BY <1>1 DEF Windows
<1>5. (IF moves THEN PointAfter(window, Latest(ours)) ELSE window.point) \in Points \cup {NoPoint}
  BY <1>2 DEF Windows
<1> QED BY <1>3, <1>4, <1>5 DEF ApplyEarly, Windows

-----------------------------------------------------------------------------
(***************************************************************************)
(* Type correctness.                                                       *)
(***************************************************************************)
LEMMA InitType == Init => TypeOK
<1> SUFFICES ASSUME Init PROVE TypeOK
  OBVIOUS
<1>1. 1 \in Epochs /\ 0 \in Revisions /\ 0 \in 0..(MaxRevision + 1) /\ 0 \in 0..MaxFaults
  BY BoundsAssumption DEF Epochs, Revisions
<1>2. signals \in Seq(Signals)
  BY DEF Init
<1>3. log \in [Epochs -> [Revisions -> [Threads -> RowOrNone]]]
  BY DEF Init
<1>4. archived \in SUBSET Threads
  BY BoundsAssumption DEF Init
<1> QED BY <1>1, <1>2, <1>3, <1>4 DEF Init, TypeOK

\* What a call may be, from its parts.
LEMMA CallType ==
  ASSUME TypeOK
  PROVE  /\ Idle \in [phase : {"none", "sent", "lost", "answered"}, since : Points \cup {NoPoint},
                       answer : Answers \cup {NoAnswer}]
         /\ \A since \in Points \cup {NoPoint} :
              Sent(since) \in [phase : {"none", "sent", "lost", "answered"}, since : Points \cup {NoPoint},
                               answer : Answers \cup {NoAnswer}]
BY DEF Idle, Sent

LEMMA PublishType ==
  ASSUME TypeOK, NEW about \in SUBSET Threads, PublishAbout(about)
  PROVE  /\ revision' \in Revisions
         /\ changed' \in [Threads -> Revisions]
         /\ signals' \in Seq(Signals)
         /\ log' \in [Epochs -> [Revisions -> [Threads -> RowOrNone]]]
<1>1. revision + 1 \in Revisions
  BY BoundsAssumption DEF PublishAbout, TypeOK, Revisions
<1>2. NewSignal(about) \in Signals
  BY <1>1 DEF NewSignal, Signals, TypeOK, RowOrNone
<1>3. signals' \in Seq(Signals)
  BY <1>2 DEF PublishAbout, TypeOK
<1>4. changed' \in [Threads -> Revisions]
  BY <1>1 DEF PublishAbout, TypeOK
<1>5. [r \in Revisions |-> IF r > revision THEN rows ELSE log[epoch][r]] \in [Revisions -> [Threads -> RowOrNone]]
  BY DEF TypeOK
<1>6. log' \in [Epochs -> [Revisions -> [Threads -> RowOrNone]]]
  BY <1>5 DEF PublishAbout, TypeOK
<1> QED BY <1>1, <1>3, <1>4, <1>6 DEF PublishAbout

LEMMA AnswerType ==
  ASSUME TypeOK, NEW since
  PROVE  AnswerTo(since) \in Answers
BY DEF AnswerTo, Answers, TypeOK, RowOrNone

LEMMA WindowType ==
  ASSUME TypeOK
  PROVE  Window \in Windows
BY DEF TypeOK, Window, Windows

LEMMA RequestType ==
  ASSUME TypeOK, NEW reason, RequestSync(reason)
  PROVE  /\ call' \in [phase : {"none", "sent", "lost", "answered"}, since : Points \cup {NoPoint},
                        answer : Answers \cup {NoAnswer}]
         /\ call'.phase = "answered" => call'.answer \in Answers
         /\ again' \in BOOLEAN
BY CallType DEF TypeOK, RequestSync, Sent, Syncing

LEMMA EndCallType ==
  ASSUME TypeOK, NEW pointNow \in Points \cup {NoPoint}, EndCall(pointNow)
  PROVE  /\ call' \in [phase : {"none", "sent", "lost", "answered"}, since : Points \cup {NoPoint},
                        answer : Answers \cup {NoAnswer}]
         /\ call'.phase # "answered"
         /\ again' \in BOOLEAN
BY CallType DEF TypeOK, EndCall, Idle, Sent

LEMMA FaultType ==
  ASSUME TypeOK, Fault
  PROVE  faults' \in 0..MaxFaults
BY BoundsAssumption DEF TypeOK, Fault

LEMMA LoseType ==
  ASSUME TypeOK, Lose
  PROVE  /\ conn' \in {"up", "down"}
         /\ signals' \in Seq(Signals)
         /\ status' \in {"waiting", "current", "failed"}
         /\ realtime' \in {"unknown", "up", "down"}
         /\ unconnected' \in BOOLEAN
<1>1. signals' \in Seq(Signals)
  BY DEF Lose
<1> QED BY <1>1 DEF TypeOK, Lose, HearDown, NotCurrent

LEMMA NextType == TypeOK /\ [Next]_vars => TypeOK'
<1> SUFFICES ASSUME TypeOK, [Next]_vars PROVE TypeOK'
  OBVIOUS
<1>1. ASSUME NEW t \in Threads, NEW row \in RowOrNone, Write(t, row) PROVE TypeOK'
  BY <1>1 DEF TypeOK, Write, windowVars
<1>2. CASE EndChange
  BY <1>2, PublishType DEF TypeOK, EndChange, windowVars
<1>3. ASSUME NEW t \in Archivable, Archive(t) PROVE TypeOK'
  BY <1>3, BoundsAssumption DEF TypeOK, Archive, windowVars
<1>4. ASSUME NEW t \in Archivable, Unarchive(t) PROVE TypeOK'
  <2>1. t \in Threads
    BY <1>4, BoundsAssumption
  <2>2. /\ revision' \in Revisions
        /\ changed' \in [Threads -> Revisions]
        /\ signals' \in Seq(Signals)
        /\ log' \in [Epochs -> [Revisions -> [Threads -> RowOrNone]]]
    BY <1>4, <2>1, PublishType DEF Unarchive, TypeOK
  <2> QED BY <1>4, <2>2 DEF TypeOK, Unarchive, windowVars
<1>5. CASE Listed
  BY <1>5 DEF TypeOK, Listed, windowVars
<1>6. CASE Answer
  BY <1>6, AnswerType DEF TypeOK, Answer, serverVars, windowVars
<1>7. CASE Land
  <2> DEFINE window == ApplyEarly(ApplySync(Window, call.answer))
  <2>1. window \in Windows
    BY <1>7, WindowType, ApplySyncType, ApplyEarlyType DEF Land, TypeOK
  <2>2. SetWindow(window) /\ EndCall(window.point)
    BY <1>7 DEF Land
  <2> HIDE DEF window
  <2>3. held' \in [Threads -> RowOrNone] /\ revs' \in [Threads -> 0..(MaxRevision + 1)] /\ point' \in Points \cup {NoPoint}
    BY <2>1, <2>2 DEF SetWindow, Windows
  <2>4. window.point \in Points \cup {NoPoint}
    BY <2>1 DEF Windows
  <2> QED BY <1>7, <2>2, <2>3, <2>4, EndCallType DEF TypeOK, Land, serverVars
<1>8. ASSUME EndFailed, faults' \in 0..MaxFaults PROVE TypeOK'
  BY <1>8, EndCallType DEF TypeOK, EndFailed, serverVars
<1>9. CASE Fail
  BY <1>8, <1>9, BoundsAssumption DEF Fail, TypeOK
<1>10. CASE FailLost
  BY <1>8, <1>10 DEF FailLost, TypeOK
<1>11. CASE RetryFires
  BY <1>11, RequestType DEF TypeOK, RetryFires, serverVars
<1>12. CASE Deliver
  <2>1. Head(signals) \in Signals /\ signals' \in Seq(Signals)
    BY <1>12 DEF Deliver, TypeOK
  <2>2. SetWindow(ApplySignal(Window, Head(signals)))
          => /\ held' \in [Threads -> RowOrNone]
             /\ revs' \in [Threads -> 0..(MaxRevision + 1)]
             /\ point' \in Points \cup {NoPoint}
    BY <2>1, WindowType, ApplySignalType DEF SetWindow, Windows
  <2> QED BY <1>12, <2>1, <2>2, RequestType DEF TypeOK, Deliver, serverVars
<1>13. CASE Reconnect
  BY <1>13, RequestType DEF TypeOK, Reconnect, serverVars
<1>14. CASE UnconnectedFires
  BY <1>14, RequestType DEF TypeOK, UnconnectedFires, serverVars
<1>15. CASE Mount
  BY <1>15, RequestType DEF TypeOK, Mount, HearDown, NotCurrent, serverVars
<1>16. CASE Drop
  <2>1. faults' \in 0..MaxFaults
    BY <1>16, FaultType DEF Drop
  <2>2. Lose
    BY <1>16 DEF Drop
  <2> QED BY <1>16, <2>1, <2>2, LoseType DEF TypeOK, Drop, serverVars
<1>17. CASE Unmount
  <2>1. faults' \in 0..MaxFaults
    BY <1>17, FaultType DEF Unmount
  <2> QED BY <1>17, <2>1 DEF TypeOK, Unmount, NotCurrent, serverVars
<1>18. ASSUME Start
       PROVE  /\ epoch' \in Epochs /\ revision' \in Revisions /\ changed' \in [Threads -> Revisions]
              /\ touched' \in SUBSET Threads /\ known' \in SUBSET Threads
              /\ rows' \in [Threads -> RowOrNone] /\ archived' \in SUBSET Threads
              /\ log' \in [Epochs -> [Revisions -> [Threads -> RowOrNone]]]
  BY <1>18, BoundsAssumption DEF TypeOK, Start, Epochs, Revisions
<1>19. CASE Reload
  <2>1. faults' \in 0..MaxFaults
    BY <1>19, FaultType DEF Reload
  <2> QED BY <1>19, <1>18, <2>1 DEF TypeOK, Reload, windowVars
<1>20. CASE Crash
  <2>1. faults' \in 0..MaxFaults
    BY <1>20, FaultType DEF Crash
  <2>2. Lose /\ Start
    BY <1>20 DEF Crash
  <2> QED BY <1>20, <1>18, <2>1, <2>2, LoseType DEF TypeOK, Crash
<1>21. CASE UNCHANGED vars
  BY <1>21 DEF TypeOK, vars, serverVars, windowVars
<1> QED
  BY <1>1, <1>2, <1>3, <1>4, <1>5, <1>6, <1>7, <1>9, <1>10, <1>11, <1>12, <1>13, <1>14, <1>15, <1>16, <1>17,
     <1>19, <1>20, <1>21 DEF Next

\* The state of the server, the wire and the window always has its type.
THEOREM TypeCorrect == Spec => []TypeOK
BY InitType, NextType, PTL DEF Spec

-----------------------------------------------------------------------------
(***************************************************************************)
(* What is published stays as it is.                                       *)
(***************************************************************************)
LEMMA PublishedStays ==
  ASSUME TypeOK, [Next]_vars, NEW e \in Epochs, NEW r \in Revisions, Past(e, r)
  PROVE  Past(e, r)' /\ log'[e][r] = log[e][r]
<1>1. ASSUME NEW about, PublishAbout(about), epoch' = epoch
      PROVE  Past(e, r)' /\ log'[e][r] = log[e][r]
  BY <1>1 DEF PublishAbout, Past, TypeOK, Epochs, Revisions
<1>2. ASSUME Start
      PROVE  Past(e, r)' /\ log'[e][r] = log[e][r]
  BY <1>2 DEF Start, Past, TypeOK, Epochs, Revisions
<1>3. ASSUME UNCHANGED <<epoch, revision, log>>
      PROVE  Past(e, r)' /\ log'[e][r] = log[e][r]
  BY <1>3 DEF Past
<1>4. CASE EndChange
  BY <1>1, <1>4 DEF EndChange
<1>5. ASSUME NEW t \in Archivable, Unarchive(t)
      PROVE  Past(e, r)' /\ log'[e][r] = log[e][r]
  <2>1. epoch' = epoch
    BY <1>5 DEF Unarchive
  <2> QED BY <1>1, <1>3, <1>5, <2>1 DEF Unarchive
<1>6. CASE Reload \/ Crash
  BY <1>2, <1>6 DEF Reload, Crash
<1>7. CASE Answer \/ Land \/ Fail \/ FailLost \/ RetryFires \/ Deliver \/ Reconnect \/ UnconnectedFires \/ Mount \/ Drop \/ Unmount
  BY <1>3, <1>7 DEF Answer, Land, Fail, FailLost, EndFailed, RetryFires, Deliver, Reconnect, UnconnectedFires, Mount,
                    Drop, Unmount, serverVars
<1>8. ASSUME (\E t \in Threads, row \in RowOrNone : Write(t, row)) \/ (\E t \in Archivable : Archive(t)) \/ Listed
             \/ UNCHANGED vars
      PROVE  Past(e, r)' /\ log'[e][r] = log[e][r]
  BY <1>3, <1>8 DEF Write, Archive, Listed, vars, serverVars
<1> QED BY <1>4, <1>5, <1>6, <1>7, <1>8 DEF Next

LEMMA SoundStays ==
  ASSUME TypeOK, [Next]_vars, NEW msg, IsMessage(msg), Sound(msg)
  PROVE  Sound(msg)'
BY PublishedStays DEF Sound, IsMessage

LEMMA LogStays == IInv /\ [Next]_vars => LogIsNow'
<1> SUFFICES ASSUME IInv, [Next]_vars PROVE LogIsNow'
  OBVIOUS
<1> USE DEF IInv
<1>1. ASSUME NEW about, PublishAbout(about), UNCHANGED <<rows, epoch>> PROVE LogIsNow'
  <2>1. epoch \in Epochs /\ revision \in Nat /\ revision' = revision + 1 /\ Revisions \subseteq Nat
    BY <1>1, BoundsAssumption DEF PublishAbout, TypeOK, Revisions
  <2>2. log'[epoch] = [r \in Revisions |-> IF r > revision THEN rows ELSE log[epoch][r]]
    BY <1>1, <2>1 DEF PublishAbout, TypeOK
  <2>3. ASSUME NEW t \in Threads, NEW r \in Revisions, r >= revision' PROVE log'[epoch'][r][t] = rows'[t]
    BY <1>1, <2>1, <2>2, <2>3
  <2> QED BY <2>3 DEF LogIsNow
<1>2. ASSUME Start PROVE LogIsNow'
  <2>1. epoch' \in Epochs /\ rows' = rows
    BY <1>2, BoundsAssumption DEF Start, TypeOK, Epochs
  <2>2. log'[epoch'] = [r \in Revisions |-> rows]
    BY <1>2, <2>1 DEF Start, TypeOK
  <2> QED BY <2>1, <2>2 DEF LogIsNow
<1>3. ASSUME UNCHANGED <<rows, epoch, revision, log, touched>> PROVE LogIsNow'
  BY <1>3 DEF LogIsNow
<1>4. ASSUME NEW t \in Threads, NEW row \in RowOrNone, Write(t, row) PROVE LogIsNow'
  BY <1>4 DEF Write, LogIsNow, TypeOK
<1>5. CASE EndChange
  BY <1>1, <1>5 DEF EndChange, TypeOK
<1>6. ASSUME NEW t \in Archivable, Unarchive(t) PROVE LogIsNow'
  <2>1. t \in Threads
    BY <1>6, BoundsAssumption
  <2>2. touched' = touched /\ UNCHANGED <<rows, epoch>>
    BY <1>6 DEF Unarchive
  <2> QED BY <1>1, <1>3, <1>6, <2>1, <2>2 DEF Unarchive
<1>7. CASE Reload \/ Crash
  BY <1>2, <1>7 DEF Reload, Crash
<1>8. CASE Answer \/ Land \/ Fail \/ FailLost \/ RetryFires \/ Deliver \/ Reconnect \/ UnconnectedFires \/ Mount \/ Drop \/ Unmount
  BY <1>3, <1>8 DEF Answer, Land, Fail, FailLost, EndFailed, RetryFires, Deliver, Reconnect, UnconnectedFires, Mount,
                    Drop, Unmount, serverVars
<1>9. ASSUME (\E t \in Archivable : Archive(t)) \/ Listed \/ UNCHANGED vars
      PROVE  LogIsNow'
  BY <1>3, <1>9 DEF Archive, Listed, vars, serverVars
<1> QED BY <1>4, <1>5, <1>6, <1>7, <1>8, <1>9 DEF Next

-----------------------------------------------------------------------------
(***************************************************************************)
(* Messages: what is sent is sound, and stays so.                          *)
(***************************************************************************)
\* What a step may do to the signals on the wire.
LEMMA WireStep ==
  ASSUME TypeOK, [Next]_vars
  PROVE  \/ signals' = signals \/ signals' = <<>> \/ (signals # <<>> /\ signals' = Tail(signals))
         \/ \E about \in SUBSET Threads :
              PublishAbout(about) /\ epoch' = epoch /\ signals' = Append(signals, NewSignal(about))
<1> DEFINE Kept == signals' = signals \/ signals' = <<>> \/ (signals # <<>> /\ signals' = Tail(signals))
           Sends == \E about \in SUBSET Threads :
                      PublishAbout(about) /\ epoch' = epoch /\ signals' = Append(signals, NewSignal(about))
<1>1. ASSUME NEW about \in SUBSET Threads, PublishAbout(about), epoch' = epoch PROVE Kept \/ Sends
  BY <1>1 DEF PublishAbout
<1>2. CASE EndChange
  BY <1>1, <1>2 DEF EndChange, TypeOK
<1>3. ASSUME NEW t \in Archivable, Unarchive(t) PROVE Kept \/ Sends
  <2>1. {t} \in SUBSET Threads /\ epoch' = epoch
    BY <1>3, BoundsAssumption DEF Unarchive
  <2> QED BY <1>1, <1>3, <2>1 DEF Unarchive
<1>4. CASE Answer \/ Land \/ Fail \/ FailLost \/ RetryFires \/ Reconnect \/ UnconnectedFires \/ Mount \/ Unmount \/ Reload
  BY <1>4 DEF Answer, Land, Fail, FailLost, EndFailed, RetryFires, Reconnect, UnconnectedFires, Mount, Unmount, Reload
<1>5. CASE Deliver \/ Drop \/ Crash
  BY <1>5 DEF Deliver, Drop, Crash, Lose
<1>6. ASSUME (\E t \in Threads, row \in RowOrNone : Write(t, row)) \/ (\E t \in Archivable : Archive(t)) \/ Listed
             \/ UNCHANGED vars
      PROVE  Kept
  BY <1>6 DEF Write, Archive, Listed, vars
<1> QED BY <1>2, <1>3, <1>4, <1>5, <1>6 DEF Next

LEMMA NewSignalSound ==
  ASSUME TypeOK, NEW about \in SUBSET Threads, PublishAbout(about), epoch' = epoch, NEW msg, msg = NewSignal(about)
  PROVE  Sound(msg)'
<1>1. msg.epoch = epoch /\ msg.revision = revision + 1 /\ msg.about = about
  BY DEF NewSignal
<1>2. \A t \in about : msg.rows[t] = rows[t]
  BY DEF NewSignal
<1>3. revision + 1 \in Revisions /\ epoch \in Epochs /\ revision + 1 > revision /\ revision' = revision + 1
  BY BoundsAssumption DEF PublishAbout, TypeOK, Revisions
<1>4. log'[epoch][revision + 1] = rows
  BY <1>3 DEF PublishAbout, TypeOK
<1> QED BY <1>1, <1>2, <1>3, <1>4 DEF Sound, Past

LEMMA SentSound ==
  ASSUME IInv, NEW j \in 1..Len(signals), NEW msg, msg = signals[j]
  PROVE  IsMessage(msg) /\ Sound(msg)
<1>1. signals \in Seq(Signals)
  BY DEF IInv, TypeOK
<1>2. msg \in Signals
  BY <1>1
<1>3. IsMessage(msg)
  BY <1>2 DEF Signals, IsMessage
<1>4. Sound(signals[j])
  BY DEF IInv, MessagesSound
<1> QED BY <1>3, <1>4

LEMMA SignalsStay ==
  ASSUME IInv, [Next]_vars, NEW i \in 1..Len(signals')
  PROVE  Sound(signals[i])'
<1> USE DEF IInv
<1>1. ASSUME NEW j \in 1..Len(signals), NEW msg, msg = signals[j], msg = signals'[i] PROVE Sound(signals[i])'
  <2>1. IsMessage(msg) /\ Sound(msg)
    BY <1>1, SentSound
  <2>2. Sound(msg)'
    BY <2>1, SoundStays
  <2> QED BY <1>1, <2>2 DEF Sound
<1>2. CASE signals' = signals
  BY <1>1, <1>2
<1>3. CASE signals' = <<>>
  BY <1>3
<1>4. CASE signals # <<>> /\ signals' = Tail(signals)
  <2>1. i + 1 \in 1..Len(signals) /\ signals'[i] = signals[i + 1]
    BY <1>4 DEF TypeOK
  <2> QED BY <1>1, <2>1
<1>5. ASSUME NEW about \in SUBSET Threads, PublishAbout(about), epoch' = epoch,
             signals' = Append(signals, NewSignal(about))
      PROVE  Sound(signals[i])'
  <2>1. CASE i \in 1..Len(signals)
    BY <1>1, <1>5, <2>1 DEF TypeOK
  <2>2. CASE i = Len(signals) + 1
    <3>1. signals'[i] = NewSignal(about)
      BY <1>5, <2>2 DEF TypeOK
    <3>2. ASSUME NEW msg, msg = NewSignal(about) PROVE Sound(msg)'
      BY <1>5, <3>2, NewSignalSound
    <3> QED BY <3>1, <3>2 DEF Sound
  <2>3. i \in 1..Len(signals) \/ i = Len(signals) + 1
    BY <1>5 DEF TypeOK
  <2> QED BY <2>1, <2>2, <2>3
<1> QED BY <1>2, <1>3, <1>4, <1>5, WireStep

LEMMA EarlyStays ==
  ASSUME IInv, [Next]_vars, NEW s \in early'
  PROVE  Sound(s)'
<1> USE DEF IInv
<1>1. ASSUME s \in early PROVE Sound(s)'
  <2>1. IsMessage(s) /\ Sound(s)
    BY <1>1 DEF TypeOK, MessagesSound, Signals, IsMessage
  <2> QED BY <2>1, SoundStays
<1>2. ASSUME signals # <<>>, s = Head(signals) PROVE Sound(s)'
  <2>1. 1 \in 1..Len(signals) /\ s = signals[1]
    BY <1>2 DEF TypeOK
  <2>2. IsMessage(s) /\ Sound(s)
    BY <2>1, SentSound
  <2> QED BY <2>2, SoundStays
<1>3. CASE Deliver
  BY <1>1, <1>2, <1>3 DEF Deliver
<1>4. CASE Land
  BY <1>4 DEF Land
<1>5. CASE EndChange \/ Listed \/ Answer \/ Fail \/ FailLost \/ RetryFires \/ Reconnect \/ UnconnectedFires \/ Mount
           \/ Drop \/ Unmount \/ Reload \/ Crash
  BY <1>1, <1>5 DEF EndChange, Listed, Answer, Fail, FailLost, EndFailed, RetryFires, Reconnect, UnconnectedFires, Mount,
                    Drop, Unmount, Reload, Crash, windowVars
<1>6. ASSUME (\E t \in Threads, row \in RowOrNone : Write(t, row)) \/ (\E t \in Archivable : Archive(t))
             \/ (\E t \in Archivable : Unarchive(t)) \/ UNCHANGED vars
      PROVE  Sound(s)'
  BY <1>1, <1>6 DEF Write, Archive, Unarchive, vars, windowVars
<1> QED BY <1>3, <1>4, <1>5, <1>6 DEF Next

\* Only a delivered signal and an answer that lands change the window's records,
\* and only the server's answer gives a call one.
Quiet ==
  /\ UNCHANGED <<held, revs, point>>
  /\ call' = call \/ call' = Idle \/ call' = Sent(point) \/ (call.phase = "sent" /\ call' = [call EXCEPT !.phase = "lost"])

LEMMA WindowStep ==
  ASSUME [Next]_vars
  PROVE  Land \/ Deliver \/ Answer \/ Quiet
<1>1. CASE Fail \/ FailLost \/ RetryFires \/ Reconnect \/ UnconnectedFires \/ Mount
  BY <1>1 DEF Fail, FailLost, EndFailed, EndCall, RetryFires, RequestSync, Reconnect, UnconnectedFires, Mount, Quiet
<1>2. CASE EndChange \/ Listed \/ Drop \/ Unmount \/ Reload \/ Crash
  BY <1>2 DEF EndChange, Listed, Drop, Unmount, Reload, Crash, windowVars, Quiet
<1>3. ASSUME (\E t \in Threads, row \in RowOrNone : Write(t, row)) \/ (\E t \in Archivable : Archive(t))
             \/ (\E t \in Archivable : Unarchive(t)) \/ UNCHANGED vars
      PROVE  Quiet
  BY <1>3 DEF Write, Archive, Unarchive, vars, windowVars, Quiet
<1> QED BY <1>1, <1>2, <1>3 DEF Next

LEMMA DeliverCall ==
  ASSUME Deliver
  PROVE  call' = call \/ (UNCHANGED <<held, revs, point>> /\ (call' = call \/ call' = Sent(point)))
BY DEF Deliver, RequestSync

LEMMA AnswerSound ==
  ASSUME IInv, touched = {}, NEW since \in Points \cup {NoPoint}
  PROVE  Sound(AnswerTo(since)) /\ AnswerTo(since).epoch = epoch /\ AnswerTo(since).revision = revision
<1> DEFINE about == AnswerTo(since).about
<1>1. AnswerTo(since).epoch = epoch /\ AnswerTo(since).revision = revision /\ about \subseteq Threads
  BY DEF AnswerTo
<1>2. \A t \in about : AnswerTo(since).rows[t] = rows[t]
  BY DEF AnswerTo
<1>3. \A t \in Threads : log[epoch][revision][t] = rows[t]
  <2>1. revision \in Revisions /\ revision >= revision
    BY DEF IInv, TypeOK, Revisions
  <2> QED BY <2>1 DEF IInv, LogIsNow
<1>4. Past(epoch, revision)
  BY DEF IInv, TypeOK, Past, Revisions
<1> HIDE DEF about
<1> QED BY <1>1, <1>2, <1>3, <1>4 DEF Sound, about

LEMMA AnswersStay ==
  ASSUME IInv, [Next]_vars, call'.phase = "answered"
  PROVE  Sound(call.answer)'
<1>1. ASSUME call' = call PROVE Sound(call.answer)'
  <2>1. ASSUME NEW msg, msg = call.answer PROVE Sound(msg)'
    <3>1. IsMessage(msg)
      BY <1>1, <2>1 DEF IInv, TypeOK, Answers, IsMessage
    <3>2. Sound(msg)
      BY <1>1, <2>1 DEF IInv, MessagesSound
    <3> QED BY <3>1, <3>2, SoundStays DEF IInv
  <2> QED BY <1>1, <2>1 DEF Sound
<1>2. CASE Answer
  <2>1. touched = {} /\ call.since \in Points \cup {NoPoint} /\ call'.answer = AnswerTo(call.since)
    BY <1>2 DEF Answer, IInv, TypeOK
  <2>2. Sound(AnswerTo(call.since))
    BY <2>1, AnswerSound
  <2>3. UNCHANGED <<log, epoch, revision>>
    BY <1>2 DEF Answer, serverVars
  <2> QED BY <2>1, <2>2, <2>3 DEF Sound, Past
<1>3. CASE Land \/ Quiet \/ Deliver
  <2>1. call' = call \/ call' = Idle \/ call'.phase \in {"sent", "lost"}
    BY <1>3, DeliverCall DEF Land, EndCall, Sent, Quiet, IInv, TypeOK
  <2> QED BY <1>1, <2>1 DEF Idle
<1> QED BY <1>2, <1>3, WindowStep

LEMMA MessagesStay == IInv /\ [Next]_vars => MessagesSound'
<1> SUFFICES ASSUME IInv, [Next]_vars PROVE MessagesSound'
  OBVIOUS
<1>1. \A i \in 1..Len(signals') : Sound(signals[i])'
  BY SignalsStay
<1>2. \A s \in early' : Sound(s)'
  BY EarlyStays
<1>3. call'.phase = "answered" => Sound(call.answer)'
  BY AnswersStay
<1> QED BY <1>1, <1>2, <1>3 DEF MessagesSound

-----------------------------------------------------------------------------
(***************************************************************************)
(* The window: its steps keep it sound.                                    *)
(***************************************************************************)
LEMMA WithRecordsSound ==
  ASSUME NEW window \in Windows, WindowSound(window), NEW msg, IsMessage(msg), Sound(msg),
         SameEpoch(window, msg.epoch), NEW p \in Points, p = PointAfter(window, msg)
  PROVE  WindowSound([WithRecords(window, msg) EXCEPT !.point = p])
<1> DEFINE after == [WithRecords(window, msg) EXCEPT !.point = p]
           takes(t) == t \in msg.about /\ window.revs[t] <= msg.revision + 1
<1>1. p # NoPoint /\ p.epoch = window.point.epoch /\ window.point.epoch = msg.epoch /\ window.point # NoPoint
  BY ValuesAssumption DEF PointAfter, SameEpoch, Points, Epochs, Revisions
<1>2. Past(p.epoch, p.revision)
  BY <1>1 DEF PointAfter, Sound, WindowSound
<1>3. /\ after.point = p
      /\ \A t \in Threads : /\ takes(t) => after.revs[t] = msg.revision + 1 /\ after.held[t] = msg.rows[t]
                            /\ ~takes(t) => after.revs[t] = window.revs[t] /\ after.held[t] = window.held[t]
  BY DEF WithRecords, Windows
<1>4. msg.revision \in Nat /\ (msg.revision + 1) - 1 = msg.revision
  BY DEF IsMessage, Revisions
<1> HIDE DEF after
<1>5. ASSUME NEW t \in Threads, after.revs[t] # 0
      PROVE  Past(p.epoch, after.revs[t] - 1) /\ after.held[t] = log[p.epoch][after.revs[t] - 1][t]
  <2>1. CASE takes(t)
    BY <1>1, <1>3, <1>4, <2>1 DEF Sound
  <2>2. CASE ~takes(t)
    BY <1>1, <1>3, <1>5, <2>2 DEF WindowSound
  <2> QED BY <2>1, <2>2
<1>6. WindowSound(after)
  BY <1>1, <1>2, <1>3, <1>5 DEF WindowSound
<1> QED BY <1>6 DEF after

LEMMA ReplacedSound ==
  ASSUME NEW window \in Windows, NEW answer, IsMessage(answer), Sound(answer),
         ~SameEpoch(window, answer.epoch), NEW p \in Points, p = PointAfter(window, answer)
  PROVE  WindowSound([Replaced(window, answer) EXCEPT !.point = p])
<1> DEFINE after == [Replaced(window, answer) EXCEPT !.point = p]
<1>1. p # NoPoint /\ p.epoch = answer.epoch /\ p.revision = answer.revision
  BY ValuesAssumption DEF PointAfter, Points, Epochs, Revisions
<1>2. /\ after.point = p
      /\ \A t \in Threads : /\ t \in answer.about => after.revs[t] = answer.revision + 1 /\ after.held[t] = answer.rows[t]
                            /\ t \notin answer.about => after.revs[t] = 0
  BY DEF Replaced
<1>3. answer.revision \in Nat /\ (answer.revision + 1) - 1 = answer.revision
  BY DEF IsMessage, Revisions
<1> HIDE DEF after
<1>4. WindowSound(after)
  BY <1>1, <1>2, <1>3 DEF WindowSound, Sound
<1> QED BY <1>4 DEF after

LEMMA ApplyEarlySound ==
  ASSUME IInv, NEW window \in Windows, WindowSound(window), window.point # NoPoint
  PROVE  /\ WindowSound(ApplyEarly(window))
         /\ ApplyEarly(window).point # NoPoint
         /\ ApplyEarly(window).point.epoch = window.point.epoch
<1> DEFINE ours == {s \in early : SameEpoch(window, s.epoch)}
           about(t) == {s \in ours : t \in s.about}
           takes(t) == \E s \in about(t) : s = Latest(about(t)) /\ window.revs[t] <= s.revision + 1
           moves == \E s \in ours : s = Latest(ours) /\ s.revision > window.point.revision
           after == ApplyEarly(window)
<1>1. ASSUME NEW s \in ours
      PROVE  s.epoch = window.point.epoch /\ Sound(s) /\ s.revision \in Nat /\ (s.revision + 1) - 1 = s.revision
  BY <1>1 DEF IInv, TypeOK, MessagesSound, SameEpoch, Signals, Revisions
<1>2. /\ after.point = IF moves THEN PointAfter(window, Latest(ours)) ELSE window.point
      /\ \A t \in Threads :
           /\ takes(t) => after.revs[t] = Latest(about(t)).revision + 1 /\ after.held[t] = Latest(about(t)).rows[t]
           /\ ~takes(t) => after.revs[t] = window.revs[t] /\ after.held[t] = window.held[t]
  BY DEF ApplyEarly
<1>3. after.point # NoPoint /\ after.point.epoch = window.point.epoch /\ Past(after.point.epoch, after.point.revision)
  <2>1. CASE moves
    <3> DEFINE s == Latest(ours)
    <3>1. s \in ours
      BY <2>1
    <3>2. s \in Signals
      BY <3>1 DEF IInv, TypeOK
    <3>3. IsMessage(s)
      BY <3>2 DEF Signals, IsMessage
    <3>4. after.point = PointAfter(window, s) /\ after.point \in Points
      BY <1>2, <2>1, <3>3, PointAfterType
    <3>5. after.point.epoch = s.epoch /\ (after.point.revision = s.revision \/ after.point.revision = window.point.revision)
      BY <3>4 DEF PointAfter
    <3>6. Past(window.point.epoch, s.revision) /\ s.epoch = window.point.epoch
      BY <1>1, <3>1 DEF Sound
    <3> QED BY <3>4, <3>5, <3>6, ValuesAssumption DEF WindowSound, Points, Epochs, Revisions
  <2>2. CASE ~moves
    BY <1>2, <2>2 DEF WindowSound
  <2> QED BY <2>1, <2>2
<1> HIDE DEF after
<1>4. ASSUME NEW t \in Threads, after.revs[t] # 0
      PROVE  /\ Past(after.point.epoch, after.revs[t] - 1)
             /\ after.held[t] = log[after.point.epoch][after.revs[t] - 1][t]
  <2>1. CASE takes(t)
    <3>1. PICK s \in about(t) : s = Latest(about(t))
      BY <2>1
    <3>2. after.revs[t] = s.revision + 1 /\ after.held[t] = s.rows[t]
      BY <1>2, <2>1, <3>1
    <3>3. s.epoch = window.point.epoch /\ Sound(s) /\ t \in s.about /\ (s.revision + 1) - 1 = s.revision
      BY <1>1, <3>1
    <3> QED BY <1>3, <3>2, <3>3 DEF Sound
  <2>2. CASE ~takes(t)
    BY <1>2, <1>3, <1>4, <2>2 DEF WindowSound
  <2> QED BY <2>1, <2>2
<1>5. WindowSound(after)
  BY <1>3, <1>4 DEF WindowSound
<1> QED BY <1>3, <1>5 DEF after

LEMMA WindowStays ==
  ASSUME TypeOK, [Next]_vars, NEW window \in Windows, WindowSound(window)
  PROVE  WindowSound(window)'
<1>1. CASE window.point = NoPoint
  BY <1>1 DEF WindowSound
<1>2. CASE window.point # NoPoint
  <2>1. window.point.epoch \in Epochs /\ window.point.revision \in Revisions
    BY <1>2 DEF Windows, Points
  <2>2. Past(window.point.epoch, window.point.revision)'
    BY <1>2, <2>1, PublishedStays DEF WindowSound
  <2>3. ASSUME NEW t \in Threads, window.revs[t] # 0
        PROVE  /\ Past(window.point.epoch, window.revs[t] - 1)'
               /\ window.held[t] = log'[window.point.epoch][window.revs[t] - 1][t]
    <3>1. window.revs[t] - 1 \in Revisions
      BY <2>3, BoundsAssumption DEF Windows, Revisions
    <3> QED BY <1>2, <2>1, <2>3, <3>1, PublishedStays DEF WindowSound
  <2> QED BY <1>2, <2>2, <2>3 DEF WindowSound
<1> QED BY <1>1, <1>2

\* The window a step leaves.
NextWindow == [held |-> held', revs |-> revs', point |-> point']

LEMMA WindowTyped == TypeOK => Window \in Windows
BY DEF TypeOK, Window, Windows

LEMMA LandWindow ==
  ASSUME IInv, Land
  PROVE  /\ NextWindow = ApplyEarly(ApplySync(Window, call.answer))
         /\ WindowSound(NextWindow)
         /\ point' # NoPoint
         /\ point'.epoch = call.answer.epoch
<1> USE DEF IInv
<1> DEFINE answer == call.answer
           p == PointAfter(Window, answer)
           synced == ApplySync(Window, answer)
<1>1. answer \in Answers /\ IsMessage(answer) /\ Sound(answer)
  BY DEF Land, TypeOK, MessagesSound, Answers, IsMessage
<1>2. Window \in Windows
  BY WindowTyped
<1>3. p \in Points /\ p.epoch = answer.epoch /\ p # NoPoint
  BY <1>1, <1>2, PointAfterType, ValuesAssumption DEF PointAfter, Points, Epochs, Revisions
<1>4. synced \in Windows /\ synced.point = p
  BY <1>1, <1>2, ApplySyncType
<1>5. WindowSound(synced)
  <2>1. CASE answer.full
    <3>1. ~SameEpoch(Window, answer.epoch)
      BY <1>1, <2>1 DEF Land, AnswerFits, SameEpoch, Window, TypeOK, Points, Answers, Epochs
    <3> QED BY <1>1, <1>2, <1>3, <2>1, <3>1, ReplacedSound DEF ApplySync
  <2>2. CASE ~answer.full
    <3>1. SameEpoch(Window, answer.epoch)
      BY <2>2 DEF Land, AnswerFits, SameEpoch, Window
    <3> QED BY <1>1, <1>2, <1>3, <2>2, <3>1, WithRecordsSound DEF ApplySync
  <2> QED BY <2>1, <2>2
<1>6. /\ WindowSound(ApplyEarly(synced))
      /\ ApplyEarly(synced).point # NoPoint
      /\ ApplyEarly(synced).point.epoch = answer.epoch
  <2> HIDE DEF synced, p
  <2> QED BY <1>3, <1>4, <1>5, ApplyEarlySound
<1>7. NextWindow = ApplyEarly(synced)
  BY DEF Land, SetWindow, NextWindow, ApplyEarly
<1> QED BY <1>6, <1>7 DEF NextWindow

LEMMA DeliverWindow ==
  ASSUME IInv, Deliver, ~UNCHANGED <<held, revs, point>>
  PROVE  /\ \E signal \in Signals : IsMessage(signal) /\ SameEpoch(Window, signal.epoch) /\ NextWindow = ApplySignal(Window, signal)
         /\ WindowSound(NextWindow)
         /\ point # NoPoint /\ point' # NoPoint /\ point'.epoch = point.epoch
         /\ UNCHANGED call
<1> USE DEF IInv
<1> DEFINE signal == Head(signals)
<1>1. SameEpoch(Window, signal.epoch) /\ SetWindow(ApplySignal(Window, signal)) /\ UNCHANGED call
  BY DEF Deliver
<1>2. signals # <<>> /\ 1 \in 1..Len(signals) /\ signal = signals[1]
  BY DEF Deliver, TypeOK
<1>3. signal \in Signals
  BY <1>2 DEF TypeOK
<1>4. IsMessage(signal) /\ Sound(signal)
  BY <1>2, SentSound
<1> HIDE DEF signal
<1>5. Window \in Windows
  BY WindowTyped
<1>6. PointAfter(Window, signal) \in Points /\ PointAfter(Window, signal).epoch = signal.epoch
  BY <1>4, <1>5, PointAfterType DEF PointAfter
<1>7. WindowSound(ApplySignal(Window, signal))
  BY <1>1, <1>4, <1>5, <1>6, WithRecordsSound DEF ApplySignal
<1>8. ApplySignal(Window, signal).point = PointAfter(Window, signal)
  BY <1>3, <1>5, ApplySignalType
<1>9. NextWindow = ApplySignal(Window, signal)
  <2>1. ApplySignal(Window, signal) \in Windows
    BY <1>3, <1>5, ApplySignalType
  <2> QED BY <1>1, <2>1 DEF SetWindow, NextWindow, Windows
<1>10. point # NoPoint /\ point.epoch = signal.epoch
  BY <1>1 DEF SameEpoch, Window
<1>11. point' = PointAfter(Window, signal)
  BY <1>1, <1>8 DEF SetWindow
<1> QED BY <1>1, <1>3, <1>4, <1>6, <1>7, <1>9, <1>10, <1>11, ValuesAssumption DEF Points, Epochs, Revisions

LEMMA WindowSoundStays == IInv /\ [Next]_vars => WindowSound(Window)'
<1> SUFFICES ASSUME IInv, [Next]_vars PROVE WindowSound(Window)'
  OBVIOUS
<1>1. WindowSound(NextWindow)
  <2>1. CASE Land
    BY <2>1, LandWindow
  <2>2. CASE Deliver /\ ~UNCHANGED <<held, revs, point>>
    BY <2>2, DeliverWindow
  <2>3. CASE UNCHANGED <<held, revs, point>>
    BY <2>3 DEF IInv, NextWindow, Window
  <2>4. Land \/ Deliver \/ UNCHANGED <<held, revs, point>>
    BY WindowStep DEF Answer, windowVars, Quiet
  <2> QED BY <2>1, <2>2, <2>3, <2>4
<1>2. TypeOK' /\ TypeOK
  BY NextType DEF IInv
<1>3. NextWindow \in Windows
  BY <1>2 DEF TypeOK, NextWindow, Windows
<1>4. ASSUME NEW window, window = NextWindow PROVE WindowSound(window)'
  BY <1>1, <1>2, <1>3, <1>4, WindowStays
<1> QED BY <1>4 DEF NextWindow, Window, WindowSound

-----------------------------------------------------------------------------
(***************************************************************************)
(* The call in flight and its answer fit the window.                       *)
(***************************************************************************)
\* The window's point stays, or moves on within its epoch.
PointKept == point' = point \/ (point # NoPoint /\ point' # NoPoint /\ point'.epoch = point.epoch)

LEMMA CallStep ==
  ASSUME IInv, [Next]_vars, call'.phase # "none"
  PROVE  \/ call'.since = point'
         \/ call.phase # "none" /\ call'.since = call.since /\ PointKept
<1>1. CASE Land
  BY <1>1 DEF Land, SetWindow, EndCall, Sent, Idle
<1>2. CASE Deliver /\ ~UNCHANGED <<held, revs, point>>
  BY <1>2, DeliverWindow DEF PointKept
<1>3. CASE (Deliver \/ Quiet) /\ UNCHANGED <<held, revs, point>>
  <2>1. \/ call' = call \/ call' = Idle \/ call' = Sent(point)
        \/ call.phase = "sent" /\ call' = [call EXCEPT !.phase = "lost"]
    BY <1>3, DeliverCall DEF Quiet
  <2>2. call' # Idle
    BY DEF Idle
  <2>3. CASE call' = Sent(point)
    BY <1>3, <2>3 DEF Sent
  <2>4. CASE call' = call
    BY <1>3, <2>4 DEF PointKept
  <2>5. CASE call.phase = "sent" /\ call' = [call EXCEPT !.phase = "lost"]
    BY <1>3, <2>5 DEF PointKept, IInv, TypeOK
  <2> QED BY <2>1, <2>2, <2>3, <2>4, <2>5
<1>4. CASE Answer
  BY <1>4 DEF Answer, windowVars, PointKept, IInv, TypeOK
<1> QED BY <1>1, <1>2, <1>3, <1>4, WindowStep DEF Quiet

LEMMA CallFitsStays == IInv /\ [Next]_vars => CallFits'
<1> SUFFICES ASSUME IInv, [Next]_vars, call'.phase # "none"
             PROVE  /\ call'.since = NoPoint <=> point' = NoPoint
                    /\ point' # NoPoint => call'.since.epoch = point'.epoch /\ Past(call.since.epoch, call.since.revision)'
  BY DEF CallFits
<1>1. CASE call'.since = point'
  <2>1. WindowSound(Window)'
    BY WindowSoundStays
  <2> QED BY <1>1, <2>1 DEF WindowSound, Window, Past
<1>2. CASE call.phase # "none" /\ call'.since = call.since /\ PointKept
  <2>1. CASE point = NoPoint
    BY <1>2, <2>1 DEF PointKept, CallFits, IInv
  <2>2. CASE point # NoPoint
    <3>1. call.since # NoPoint /\ call.since.epoch = point.epoch /\ Past(call.since.epoch, call.since.revision)
      BY <1>2, <2>2 DEF CallFits, IInv
    <3>2. call.since.epoch \in Epochs /\ call.since.revision \in Revisions
      BY <3>1 DEF IInv, TypeOK, Points
    <3>3. Past(call.since.epoch, call.since.revision)'
      <4>1. ASSUME NEW e \in Epochs, NEW r \in Revisions, Past(e, r) PROVE Past(e, r)'
        BY <4>1, PublishedStays DEF IInv
      <4> QED BY <1>2, <3>1, <3>2, <4>1 DEF Past
    <3> QED BY <1>2, <2>2, <3>1, <3>3 DEF PointKept
  <2> QED BY <2>1, <2>2
<1> QED BY <1>1, <1>2, CallStep

LEMMA AnswerFitsStays == IInv /\ [Next]_vars => AnswerFits'
<1> SUFFICES ASSUME IInv, [Next]_vars, call'.phase = "answered"
             PROVE  IF call'.answer.full THEN point' = NoPoint \/ point'.epoch < call'.answer.epoch
                    ELSE point' # NoPoint /\ point'.epoch = call'.answer.epoch
  BY DEF AnswerFits
<1>1. CASE call' = call /\ PointKept
  BY <1>1 DEF AnswerFits, PointKept, IInv
<1>2. CASE Answer
  <2>1. point' = point /\ call.phase = "sent" /\ call'.answer = AnswerTo(call.since)
    BY <1>2 DEF Answer, windowVars, IInv, TypeOK
  <2>2. /\ call'.answer.epoch = epoch
        /\ call'.answer.full <=> ~(call.since # NoPoint /\ call.since.epoch = epoch /\ call.since.revision <= revision)
    <3> DEFINE delta == call.since # NoPoint /\ call.since.epoch = epoch /\ call.since.revision <= revision
    <3>1. AnswerTo(call.since).full = ~delta
      BY Zenon DEF AnswerTo
    <3>2. AnswerTo(call.since).epoch = epoch
      BY DEF AnswerTo
    <3> HIDE DEF delta
    <3>3. AnswerTo(call.since).full <=> ~delta
      BY <3>1
    <3> QED BY <2>1, <3>2, <3>3 DEF delta
  <2>3. CASE point = NoPoint
    BY <2>1, <2>2, <2>3 DEF CallFits, IInv
  <2>4. CASE point # NoPoint
    BY <2>1, <2>2, <2>4 DEF CallFits, Past, IInv
  <2> QED BY <2>3, <2>4
<1>3. CASE Deliver \/ Land \/ Quiet
  <2>1. CASE Land
    BY <2>1 DEF Land, EndCall, Sent, Idle
  <2>2. CASE Deliver /\ ~UNCHANGED <<held, revs, point>>
    BY <1>1, <2>2, DeliverWindow DEF PointKept
  <2>3. CASE (Deliver \/ Quiet) /\ UNCHANGED <<held, revs, point>>
    <3>1. call' = call
      BY <2>3, DeliverCall DEF Quiet, Idle, Sent, IInv, TypeOK
    <3> QED BY <1>1, <2>3, <3>1 DEF PointKept
  <2> QED BY <1>3, <2>1, <2>2, <2>3 DEF Quiet
<1> QED BY <1>2, <1>3, WindowStep

LEMMA InitIInv == Init => IInv
<1> SUFFICES ASSUME Init PROVE IInv
  OBVIOUS
<1>1. TypeOK
  BY InitType
<1>2. LogIsNow
  BY <1>1 DEF Init, LogIsNow, TypeOK
<1>3. MessagesSound
  BY DEF Init, MessagesSound
<1>4. WindowSound(Window)
  BY DEF Init, WindowSound, Window
<1>5. CallFits /\ AnswerFits
  BY DEF Init, CallFits, AnswerFits
<1> QED BY <1>1, <1>2, <1>3, <1>4, <1>5 DEF IInv

LEMMA NextIInv == IInv /\ [Next]_vars => IInv'
<1> SUFFICES ASSUME IInv, [Next]_vars PROVE IInv'
  OBVIOUS
<1>1. TypeOK'
  BY NextType DEF IInv
<1>2. LogIsNow' /\ MessagesSound' /\ WindowSound(Window)' /\ CallFits' /\ AnswerFits'
  BY LogStays, MessagesStay, WindowSoundStays, CallFitsStays, AnswerFitsStays
<1> QED BY <1>1, <1>2 DEF IInv

\* Every record the window holds at a revision is the one the server had at
\* that revision of that epoch, whatever was lost, restarted or reordered.
THEOREM HoldsTheTruth == Spec => []HeldIsTrue
<1>1. IInv => HeldIsTrue
  BY DEF IInv, WindowSound, Window, HeldIsTrue
<1> QED BY <1>1, InitIInv, NextIInv, PTL DEF Spec

-----------------------------------------------------------------------------
(***************************************************************************)
(* Nothing goes back.                                                      *)
(***************************************************************************)
\* What `later` holds of the same epoch is not older than what `window` holds.
NotBefore(later, window) ==
  /\ later.point.revision >= window.point.revision
  /\ \A t \in Threads : later.revs[t] >= window.revs[t]

LEMMA WithRecordsNotBefore ==
  ASSUME NEW window \in Windows, NEW msg, IsMessage(msg), SameEpoch(window, msg.epoch),
         NEW p \in Points, p = PointAfter(window, msg)
  PROVE  NotBefore([WithRecords(window, msg) EXCEPT !.point = p], window)
<1> DEFINE after == [WithRecords(window, msg) EXCEPT !.point = p]
<1>1. window.point \in Points /\ msg.revision \in Nat
  BY DEF SameEpoch, Windows, IsMessage, Revisions
<1>2. p.revision >= window.point.revision
  BY <1>1 DEF PointAfter, Points, Revisions
<1>3. after.point = p
  BY DEF WithRecords, Windows
<1>4. ASSUME NEW t \in Threads PROVE after.revs[t] >= window.revs[t]
  <2>1. window.revs[t] \in Nat
    BY BoundsAssumption DEF Windows
  <2>2. after.revs[t] = IF t \in msg.about /\ window.revs[t] <= msg.revision + 1 THEN msg.revision + 1 ELSE window.revs[t]
    BY DEF WithRecords, Windows
  <2> QED BY <1>1, <2>1, <2>2
<1> HIDE DEF after
<1>5. NotBefore(after, window)
  BY <1>2, <1>3, <1>4 DEF NotBefore
<1> QED BY <1>5 DEF after

LEMMA ApplyEarlyNotBefore ==
  ASSUME IInv, NEW window \in Windows, window.point # NoPoint
  PROVE  NotBefore(ApplyEarly(window), window)
<1> DEFINE ours == {s \in early : SameEpoch(window, s.epoch)}
           about(t) == {s \in ours : t \in s.about}
           takes(t) == \E s \in about(t) : s = Latest(about(t)) /\ window.revs[t] <= s.revision + 1
           moves == \E s \in ours : s = Latest(ours) /\ s.revision > window.point.revision
           after == ApplyEarly(window)
<1>1. /\ after.point = IF moves THEN PointAfter(window, Latest(ours)) ELSE window.point
      /\ \A t \in Threads :
           /\ takes(t) => after.revs[t] = Latest(about(t)).revision + 1
           /\ ~takes(t) => after.revs[t] = window.revs[t]
  BY DEF ApplyEarly
<1>2. window.point \in Points /\ \A s \in ours : s.revision \in Nat /\ SameEpoch(window, s.epoch)
  BY DEF Windows, IInv, TypeOK, Signals, Revisions
<1>3. after.point.revision >= window.point.revision
  BY <1>1, <1>2 DEF PointAfter, Points, Revisions
<1>4. ASSUME NEW t \in Threads PROVE after.revs[t] >= window.revs[t]
  <2>1. window.revs[t] \in Nat
    BY BoundsAssumption DEF Windows
  <2>2. CASE takes(t)
    <3>1. PICK s \in about(t) : s = Latest(about(t)) /\ window.revs[t] <= s.revision + 1
      BY <2>2
    <3>2. after.revs[t] = s.revision + 1
      BY <1>1, <2>2, <3>1
    <3> QED BY <3>1, <3>2
  <2>3. CASE ~takes(t)
    BY <1>1, <2>1, <2>3
  <2> QED BY <2>2, <2>3
<1> HIDE DEF after
<1>5. NotBefore(after, window)
  BY <1>3, <1>4 DEF NotBefore
<1> QED BY <1>5 DEF after

LEMMA NothingBack ==
  ASSUME IInv, [Next]_vars, point # NoPoint
  PROVE  /\ point' # NoPoint /\ point'.epoch >= point.epoch
         /\ point'.epoch = point.epoch => NotBefore(NextWindow, Window)
<1>1. Window \in Windows /\ Window.point = point /\ point.epoch \in Nat /\ point.revision \in Nat
  BY WindowTyped DEF IInv, TypeOK, Window, Points, Epochs, Revisions
<1>2. CASE UNCHANGED <<held, revs, point>>
  BY <1>1, <1>2, BoundsAssumption DEF NextWindow, Window, NotBefore, Windows
<1>3. CASE Deliver /\ ~UNCHANGED <<held, revs, point>>
  <2>1. PICK signal \in Signals : IsMessage(signal) /\ SameEpoch(Window, signal.epoch) /\ NextWindow = ApplySignal(Window, signal)
    BY <1>3, DeliverWindow
  <2>2. PointAfter(Window, signal) \in Points
    BY <1>1, <2>1, PointAfterType
  <2>3. NotBefore(ApplySignal(Window, signal), Window)
    BY <1>1, <2>1, <2>2, WithRecordsNotBefore DEF ApplySignal
  <2> QED BY <1>1, <1>3, <2>1, <2>3, DeliverWindow
<1>4. CASE Land
  <2> DEFINE answer == call.answer
             synced == ApplySync(Window, answer)
  <2>1. answer \in Answers /\ IsMessage(answer) /\ answer.epoch \in Nat
    BY <1>4 DEF Land, IInv, TypeOK, Answers, IsMessage, Epochs
  <2>2. point' # NoPoint /\ point'.epoch = answer.epoch /\ NextWindow = ApplyEarly(synced)
    BY <1>4, LandWindow
  <2>3. point.epoch < answer.epoch \/ (~answer.full /\ point.epoch = answer.epoch)
    BY <1>4 DEF Land, IInv, AnswerFits
  <2>4. ASSUME ~answer.full, point.epoch = answer.epoch PROVE NotBefore(NextWindow, Window)
    <3>1. PointAfter(Window, answer) \in Points /\ SameEpoch(Window, answer.epoch)
      BY <1>1, <2>1, <2>4, PointAfterType DEF SameEpoch
    <3>2. NotBefore(synced, Window)
      BY <1>1, <2>1, <2>4, <3>1, WithRecordsNotBefore DEF ApplySync
    <3>3. synced \in Windows /\ synced.point \in Points
      BY <1>1, <2>1, <3>1, ApplySyncType
    <3>4. NotBefore(ApplyEarly(synced), synced)
      BY <3>3, ApplyEarlyNotBefore, ValuesAssumption DEF Points, Epochs, Revisions
    <3>5. ApplyEarly(synced).point.revision \in Nat /\ \A t \in Threads : ApplyEarly(synced).revs[t] \in Nat
      BY <2>2, NextType, BoundsAssumption DEF NextWindow, IInv, TypeOK, Points, Revisions
    <3> HIDE DEF synced
    <3>6. synced.point.revision \in Nat /\ \A t \in Threads : synced.revs[t] \in Nat /\ Window.revs[t] \in Nat
      BY <1>1, <3>3, BoundsAssumption DEF Windows, Points, Revisions
    <3> QED BY <1>1, <2>2, <3>2, <3>4, <3>5, <3>6 DEF NotBefore
  <2> QED BY <1>1, <2>1, <2>2, <2>3, <2>4
<1>5. Land \/ Deliver \/ UNCHANGED <<held, revs, point>>
  BY WindowStep DEF Answer, windowVars, Quiet
<1> QED BY <1>2, <1>3, <1>4, <1>5

\* A window never goes back to the records of an earlier server start.
THEOREM EpochsGoOn == Spec => EpochNeverBack
<1>1. IInv /\ [Next]_vars => [point # NoPoint => point' # NoPoint /\ point'.epoch >= point.epoch]_vars
  BY NothingBack
<1> QED BY <1>1, InitIInv, NextIInv, PTL DEF Spec, EpochNeverBack

\* Within an epoch neither the window's point nor any record goes back.
THEOREM RevisionsGoOn == Spec => NeverBack
<1> DEFINE A == (point # NoPoint /\ point' # NoPoint /\ point'.epoch = point.epoch) =>
                  /\ point'.revision >= point.revision
                  /\ \A t \in Threads : revs'[t] >= revs[t]
<1>1. IInv /\ [Next]_vars => [A]_vars
  BY NothingBack DEF NotBefore, NextWindow, Window
<1> QED BY <1>1, InitIInv, NextIInv, PTL DEF Spec, NeverBack

-----------------------------------------------------------------------------
(***************************************************************************)
(* Current is current, while the connection, the keeper and the server     *)
(* change only while Calm.                                                 *)
(***************************************************************************)
\* The row of t as last published, and whether a window has it.  A full answer leaves an
\* archived thread out.
Published(t) == log[epoch][revision][t]
Good(t) == held[t] = Published(t) \/ (t \in archived /\ held[t] = NoRow)

Live == following /\ conn = "up"
Answered == call.phase = "answered"
Same == point # NoPoint /\ point.epoch = epoch

\* A signal of this server start about t, and the one of its last change.
Tells(s, t) == s.epoch = epoch /\ t \in s.about
Wire == 1..Len(signals)
OnWire(t) == following /\ \E i \in Wire : Tells(signals[i], t) /\ signals[i].revision = changed[t]
InEarly(t) == \E s \in early : t \in s.about /\ s.revision = changed[t]

\* What the call in flight brings; what the next one will, of changes that sent no signal;
\* and what nothing on its way disturbs.
Covered(t) ==
  \/ call.phase = "sent" /\ changed[t] > call.since.revision
  \/ Answered /\ t \in call.answer.about /\ call.answer.revision >= changed[t]
Lost(t) == ~Live /\ changed[t] > point.revision /\ (Answered => changed[t] > call.answer.revision)
Still(t) ==
  /\ Good(t)
  /\ \A i \in Wire : ~Tells(signals[i], t)
  /\ Answered /\ t \in call.answer.about => call.answer.revision >= changed[t]

\* A window of this server start has each thread's last change, or it is on its way to it.
Reached(t) == revs[t] > changed[t] \/ Still(t) \/ OnWire(t) \/ Covered(t) \/ Lost(t)
RecordsReach == Same => \A t \in Threads : Reached(t)

\* To any other window nothing after the first signal of this start is lost.
WireWhole ==
  ~Same => \A i \in Wire : \A t \in Threads : Tells(signals[i], t) =>
             \E j \in Wire : j >= i /\ Tells(signals[j], t) /\ signals[j].revision = changed[t]
EarlyWhole ==
  \A s \in early : \A t \in s.about : s.revision <= changed[t] /\ (InEarly(t) \/ OnWire(t))

\* A full answer has what was published before it; the rest follows by signal or by the
\* call after it.
Follows(t) == OnWire(t) \/ InEarly(t) \/ (point # NoPoint /\ again) \/ ~Live
FullAnswers ==
  ~Same /\ Answered =>
    /\ call.answer.full
    /\ \A t \in Threads :
         \/ changed[t] > call.answer.revision /\ Follows(t)
         \/ /\ changed[t] <= call.answer.revision
            /\ t \in call.answer.about \/ Published(t) = NoRow \/ t \in archived

\* A window of an earlier start that has not heard of this one will have what that one left.
OldTells(s, t) == s.epoch = point.epoch /\ t \in s.about
Last(s, t) ==
  /\ OldTells(s, t) /\ s.rows[t] = Published(t) /\ revs[t] <= s.revision + 1
  /\ \A k \in Wire : OldTells(signals[k], t) => signals[k].revision <= s.revision
OldReached(t) ==
  \/ \E j \in Wire : Last(signals[j], t)
  \/ Good(t) /\ \A k \in Wire : OldTells(signals[k], t) => revs[t] > signals[k].revision + 1
OldWindow ==
  point # NoPoint /\ point.epoch # epoch /\ Live /\ ~Syncing =>
    \/ \E i \in Wire : signals[i].epoch = epoch
    \/ revision = 0 /\ \A t \in Threads : OldReached(t)

\* Who asks follows, and hears of a lost connection.
Keeping ==
  /\ point # NoPoint => early = {}
  /\ conn = "down" => signals = <<>> /\ early = {} /\ (following => realtime = "down")
  /\ Syncing \/ early # {} => following
  /\ call.phase # "lost"
  /\ status = "current" => following /\ point # NoPoint
  /\ unconnected => following
  /\ Answered => call.answer.epoch = epoch
  /\ call.phase = "sent" /\ Same => call.since.revision <= point.revision

Logged ==
  /\ known \subseteq archived
  /\ \A t \in Threads : changed[t] <= revision
  /\ \A t \in Threads, r \in Revisions : r >= changed[t] => log[epoch][r][t] = Published(t)

SignalsTell ==
  /\ \A i \in Wire : \A t \in Threads : Tells(signals[i], t) => signals[i].revision <= changed[t]
  /\ ~Same /\ (\E i \in Wire : signals[i].epoch = epoch) => following
  /\ point = NoPoint => /\ \A i \in Wire : signals[i].epoch = epoch
                        /\ \A s \in early : s.epoch = epoch

CInv ==
  /\ Keeping /\ Logged /\ SignalsTell /\ WireWhole /\ EarlyWhole
  /\ FullAnswers /\ OldWindow /\ RecordsReach

-----------------------------------------------------------------------------
(***************************************************************************)
(* Lemmas about the wire and the numbers.                                  *)
(***************************************************************************)
\* A wire without its first signal, and with one more.
LEMMA TailWire ==
  ASSUME NEW w \in Seq(Signals), w # <<>>
  PROVE  /\ Head(w) = w[1] /\ 1 \in 1..Len(w) /\ Head(w) \in Signals
         /\ \A i \in 1..Len(Tail(w)) : i + 1 \in 1..Len(w) /\ Tail(w)[i] = w[i + 1]
         /\ \A j \in 1..Len(w) : j # 1 => j - 1 \in 1..Len(Tail(w)) /\ Tail(w)[j - 1] = w[j]
OBVIOUS

LEMMA AppendWire ==
  ASSUME NEW w \in Seq(Signals), NEW s, NEW v, v = Append(w, s)
  PROVE  /\ \A i \in 1..Len(w) : i \in 1..Len(v) /\ v[i] = w[i]
         /\ Len(w) + 1 \in 1..Len(v) /\ v[Len(w) + 1] = s
         /\ \A i \in 1..Len(v) : i \in 1..Len(w) \/ i = Len(w) + 1
OBVIOUS

\* What the types and the first invariant say of the numbers.
LEMMA Numbers ==
  ASSUME IInv
  PROVE  /\ revision \in Nat /\ revision \in Revisions /\ epoch \in Nat
         /\ \A t \in Threads : changed[t] \in Nat /\ changed[t] \in Revisions /\ revs[t] \in Nat
         /\ point # NoPoint => point.epoch \in Nat /\ point.revision \in Nat /\ point.epoch <= epoch
         /\ Same => point.revision <= revision
         /\ \A i \in Wire : /\ signals[i] \in Signals /\ signals[i].epoch \in Nat /\ signals[i].revision \in Nat
                            /\ signals[i].about \subseteq Threads /\ signals[i].epoch <= epoch
         /\ \A s \in early : s.epoch \in Nat /\ s.revision \in Nat /\ s.about \subseteq Threads
         /\ signals \in Seq(Signals)
<1>1. TypeOK /\ Revisions \subseteq Nat /\ Epochs \subseteq Nat
  BY BoundsAssumption DEF IInv, Revisions, Epochs
<1>2. point # NoPoint => point.epoch \in Epochs /\ point.revision \in Revisions /\ Past(point.epoch, point.revision)
  BY <1>1 DEF TypeOK, Points, IInv, WindowSound, Window
<1>3. \A i \in Wire : signals[i] \in Signals /\ Sound(signals[i])
  BY <1>1 DEF TypeOK, IInv, MessagesSound, Wire
<1>4. \A i \in Wire : signals[i].epoch \in Epochs /\ signals[i].revision \in Revisions /\ signals[i].about \subseteq Threads
  BY <1>3 DEF Signals
<1>5. \A i \in Wire : signals[i].epoch <= epoch
  <2>1. epoch \in Nat
    BY <1>1 DEF TypeOK
  <2>2. ASSUME NEW i \in Wire PROVE signals[i].epoch <= epoch
    <3> DEFINE e == signals[i].epoch
    <3>1. e \in Nat /\ (e < epoch \/ e = epoch)
      BY <1>1, <1>3, <1>4 DEF Sound, Past
    <3> HIDE DEF e
    <3>2. e <= epoch
      BY <2>1, <3>1
    <3> QED BY <3>2 DEF e
  <2> QED BY <2>2
<1>6. \A s \in early : s.epoch \in Epochs /\ s.revision \in Revisions /\ s.about \subseteq Threads
  BY <1>1 DEF TypeOK, Signals
<1>7. \A t \in Threads : revs[t] \in Nat
  BY <1>1, BoundsAssumption DEF TypeOK
<1>8. revision \in Nat /\ revision \in Revisions /\ epoch \in Nat /\ signals \in Seq(Signals)
  BY <1>1 DEF TypeOK
<1>9. \A t \in Threads : changed[t] \in Nat /\ changed[t] \in Revisions
  BY <1>1 DEF TypeOK
<1>10. point # NoPoint => point.epoch \in Nat /\ point.revision \in Nat /\ point.epoch <= epoch
  <2> SUFFICES ASSUME point # NoPoint PROVE point.epoch \in Nat /\ point.revision \in Nat /\ point.epoch <= epoch
    OBVIOUS
  <2>1. point.epoch \in Nat /\ point.revision \in Nat
    BY <1>1, <1>2
  <2>2. point.epoch < epoch \/ point.epoch = epoch
    BY <1>2 DEF Past
  <2> QED BY <1>8, <2>1, <2>2
<1>11. Same => point.revision <= revision
  BY <1>1, <1>2, <1>8 DEF Past, Same
<1>12. \A i \in Wire : signals[i].epoch \in Nat /\ signals[i].revision \in Nat
  BY <1>1, <1>4
<1>13. \A s \in early : s.epoch \in Nat /\ s.revision \in Nat /\ s.about \subseteq Threads
  BY <1>1, <1>6
<1> QED BY <1>3, <1>4, <1>5, <1>7, <1>8, <1>9, <1>10, <1>11, <1>12, <1>13

\* What it says of the call in flight.
LEMMA CallNumbers ==
  ASSUME IInv
  PROVE  /\ call.phase # "none" => (call.since = NoPoint <=> point = NoPoint)
         /\ call.phase # "none" /\ point # NoPoint =>
              call.since.epoch = point.epoch /\ call.since.revision \in Nat
         /\ call.phase # "none" /\ Same => call.since.revision <= revision
         /\ Answered => /\ call.answer \in Answers /\ IsMessage(call.answer)
                        /\ call.answer.revision \in Nat /\ call.answer.about \subseteq Threads
                        /\ (call.answer.epoch = epoch => call.answer.revision <= revision)
         /\ Answered /\ call.answer.epoch = epoch => (call.answer.full <=> ~Same)
<1>1. TypeOK /\ Revisions \subseteq Nat /\ Epochs \subseteq Nat /\ CallFits /\ AnswerFits
  BY BoundsAssumption DEF IInv, Revisions, Epochs
<1>2. call.phase # "none" /\ point # NoPoint => call.since \in Points
  BY <1>1 DEF TypeOK, CallFits
<1>3. call.phase # "none" /\ point # NoPoint =>
        call.since.epoch = point.epoch /\ call.since.revision \in Nat /\ Past(call.since.epoch, call.since.revision)
  BY <1>1, <1>2 DEF CallFits, Points
<1>4. Answered => call.answer \in Answers /\ Sound(call.answer)
  BY <1>1 DEF Answered, TypeOK, IInv, MessagesSound
<1>5. Answered => IsMessage(call.answer) /\ call.answer.revision \in Nat /\ call.answer.about \subseteq Threads
  BY <1>1, <1>4 DEF Answers, IsMessage
<1>6. Answered /\ call.answer.epoch = epoch => call.answer.revision <= revision
  BY <1>1, <1>4, <1>5 DEF Sound, Past, TypeOK
<1>7. Answered /\ call.answer.epoch = epoch => (call.answer.full <=> ~Same)
  <2> SUFFICES ASSUME Answered, call.answer.epoch = epoch PROVE call.answer.full <=> ~Same OBVIOUS
  <2>1. call.answer.full \in BOOLEAN BY <1>4 DEF Answers
  <2>2. epoch \in Nat BY <1>1 DEF TypeOK
  <2>3. CASE call.answer.full
    BY <1>1, <2>2, <2>3 DEF AnswerFits, Answered, Same
  <2>4. CASE ~call.answer.full
    BY <1>1, <2>2, <2>4 DEF AnswerFits, Answered, Same
  <2> QED BY <2>3, <2>4
<1> QED BY <1>1, <1>3, <1>4, <1>5, <1>6, <1>7, Numbers DEF CallFits, Same, Past, TypeOK

\* What they say after a step.
LEMMA NextNumbers ==
  ASSUME IInv, [Next]_vars
  PROVE  /\ revision' \in Nat /\ epoch' \in Nat
         /\ \A t \in Threads : changed'[t] \in Nat /\ revs'[t] \in Nat
         /\ point' # NoPoint => point'.epoch \in Nat /\ point'.revision \in Nat
<1>1. TypeOK' /\ Revisions \subseteq Nat /\ Epochs \subseteq Nat
  BY NextType, BoundsAssumption DEF IInv, Revisions, Epochs
<1>2. point' # NoPoint => point'.epoch \in Nat /\ point'.revision \in Nat
  BY <1>1 DEF TypeOK, Points
<1>3. \A t \in Threads : revs'[t] \in Nat
  BY <1>1, BoundsAssumption DEF TypeOK
<1> QED BY <1>1, <1>2, <1>3 DEF TypeOK

-----------------------------------------------------------------------------
(***************************************************************************)
(* What the user and the listing change goes unnoticed.                    *)
(***************************************************************************)
\* A step that publishes nothing and that the window does not notice.
LEMMA QuietStep ==
  ASSUME CInv,
         UNCHANGED <<epoch, revision, changed, log, held, revs, point, early, following, realtime, status, again,
                     unconnected, conn, signals, call>>,
         known' \subseteq archived',
         \A t \in Threads : t \in archived => t \in archived' \/ Published(t) = NoRow
  PROVE  CInv'
<1>1. ASSUME NEW t \in Threads, Good(t) PROVE Good(t)'
  BY <1>1 DEF Good, Published
<1>2. Keeping' /\ Logged' /\ SignalsTell' /\ WireWhole' /\ EarlyWhole'
  <2>1. Keeping' /\ SignalsTell' BY DEF CInv, Keeping, SignalsTell, Tells, Wire, Same, Syncing, Answered
  <2>2. Logged' BY DEF CInv, Logged, Published
  <2>3. WireWhole' BY DEF CInv, WireWhole, Tells, Wire, Same
  <2>4. EarlyWhole' BY DEF CInv, EarlyWhole, InEarly, OnWire, Tells, Wire
  <2> QED BY <2>1, <2>2, <2>3, <2>4
<1>3. FullAnswers'
  <2>1. \A t \in Threads : Follows(t) => Follows(t)'
    BY DEF Follows, OnWire, InEarly, Live, Tells, Wire
  <2>2. ASSUME NEW t \in Threads, Published(t) = NoRow \/ t \in archived
        PROVE  Published(t)' = NoRow \/ t \in archived'
    BY <2>2 DEF Published
  <2> QED BY <2>1, <2>2 DEF CInv, FullAnswers, Same, Answered
<1>4. OldWindow'
  <2>1. \A t \in Threads : OldReached(t) => OldReached(t)'
    BY <1>1 DEF OldReached, Last, OldTells, Wire, Published
  <2> QED BY <2>1 DEF CInv, OldWindow, Live, Syncing, Wire
<1>5. RecordsReach'
  <2>1. \A t \in Threads : Still(t) => Still(t)'
    BY <1>1 DEF Still, Wire, Tells, Answered
  <2>2. \A t \in Threads : OnWire(t) => OnWire(t)'
    BY DEF OnWire, Wire, Tells
  <2>3. \A t \in Threads : Covered(t) => Covered(t)'
    BY DEF Covered, Answered
  <2>4. \A t \in Threads : Lost(t) => Lost(t)'
    BY DEF Lost, Answered, Live
  <2> QED BY <2>1, <2>2, <2>3, <2>4 DEF CInv, RecordsReach, Reached, Same
<1> QED BY <1>2, <1>3, <1>4, <1>5 DEF CInv

LEMMA QuietSteps ==
  ASSUME IInv, CInv,
         \/ \E t \in Threads, row \in RowOrNone : Write(t, row)
         \/ \E t \in Archivable : Archive(t)
         \/ \E t \in Archivable : Unarchive(t) /\ rows[t] = NoRow
         \/ Listed
         \/ UNCHANGED vars
  PROVE  CInv'
<1>1. known \subseteq archived
  BY DEF CInv, Logged
<1>2. ASSUME NEW t \in Threads, NEW row \in RowOrNone, Write(t, row) PROVE CInv'
  BY <1>1, <1>2, QuietStep DEF Write, windowVars
<1>3. ASSUME NEW t \in Archivable, Archive(t) PROVE CInv'
  BY <1>1, <1>3, QuietStep DEF Archive, windowVars
<1>4. ASSUME NEW t \in Archivable, Unarchive(t), rows[t] = NoRow PROVE CInv'
  <2>1. Published(t) = NoRow
    <3>1. t \in Threads /\ touched = {} /\ revision \in Revisions /\ revision >= revision
      BY <1>4, BoundsAssumption DEF Unarchive, IInv, TypeOK, Revisions
    <3> QED BY <1>4, <3>1 DEF IInv, LogIsNow, Published
  <2> QED BY <1>1, <1>4, <2>1, QuietStep DEF Unarchive, windowVars
<1>5. CASE Listed
  BY <1>5, QuietStep DEF Listed, windowVars
<1>6. CASE UNCHANGED vars
  BY <1>1, <1>6, QuietStep DEF vars, serverVars, windowVars
<1> QED BY <1>2, <1>3, <1>4, <1>5, <1>6

-----------------------------------------------------------------------------
(***************************************************************************)
(* Changes that are published.                                             *)
(***************************************************************************)
\* A change is published: what it is about is on the wire to a window that
\* follows, and lost to one that does not.
LEMMA PublishStep ==
  ASSUME IInv, CInv, NEW about \in SUBSET Threads, PublishAbout(about), touched \subseteq about,
         UNCHANGED <<rows, epoch, held, revs, point, early, following, realtime, status, again, unconnected, conn, call>>,
         known' \subseteq archived',
         \A t \in Threads \ about : t \in archived => t \in archived'
  PROVE  CInv'
<1> DEFINE new == NewSignal(about)
<1>1. /\ revision' = revision + 1 /\ revision \in Nat
      /\ \A t \in about : changed'[t] = revision + 1
      /\ \A t \in Threads \ about : changed'[t] = changed[t]
      /\ \A t \in Threads : changed[t] \in Nat /\ changed[t] <= revision
  BY Numbers DEF PublishAbout, CInv, Logged
<1>2. log'[epoch] = [r \in Revisions |-> IF r > revision THEN rows ELSE log[epoch][r]]
  BY DEF PublishAbout, IInv, TypeOK
<1>3. \A t \in Threads : Published(t)' = rows[t]
  <2>1. revision + 1 \in Revisions /\ revision + 1 > revision
    BY <1>1, BoundsAssumption DEF PublishAbout, Revisions
  <2> QED BY <1>1, <1>2, <2>1 DEF Published
<1>4. \A t \in Threads \ about : Published(t)' = Published(t)
  <2>1. revision \in Revisions /\ revision >= revision
    BY Numbers
  <2> QED BY <1>3, <2>1 DEF IInv, LogIsNow, Published
<1>5. new.epoch = epoch /\ new.about = about /\ new.revision = revision + 1
  BY DEF NewSignal
<1> HIDE DEF new
<1>6. /\ \A i \in Wire : i \in 1..Len(signals') /\ signals'[i] = signals[i]
      /\ Live => Len(signals) + 1 \in 1..Len(signals') /\ signals'[Len(signals) + 1] = new
      /\ \A i \in 1..Len(signals') : i \in Wire \/ (Live /\ i = Len(signals) + 1)
      /\ ~Live => signals' = signals
  <2>1. CASE Live
    <3>1. signals' = Append(signals, new)
      BY <2>1 DEF PublishAbout, Live, new
    <3> QED BY <2>1, <3>1, Numbers, AppendWire DEF Wire
  <2>2. CASE ~Live
    BY <2>2 DEF PublishAbout, Live, Wire
  <2> QED BY <2>1, <2>2
<1>7. \A t \in Threads : OnWire(t) /\ t \notin about => OnWire(t)'
  BY <1>1, <1>6 DEF OnWire, Wire, Tells
<1>8. Live => \A t \in about : OnWire(t)'
  BY <1>1, <1>5, <1>6 DEF OnWire, Wire, Tells, Live
<1>9. \A t \in Threads : InEarly(t) /\ t \notin about => InEarly(t)'
  BY <1>1 DEF InEarly
<1>10. ~Live => signals' = signals
  BY <1>6
<1>11. Keeping'
  <2>1. conn = "down" => signals' = <<>>
    BY <1>10 DEF CInv, Keeping, Live
  <2>2. Same' = Same /\ Answered' = Answered /\ Syncing' = Syncing
    BY DEF Same, Answered, Syncing
  <2> QED BY <2>1, <2>2 DEF CInv, Keeping
<1>12. Logged'
  <2>1. ASSUME NEW t \in Threads PROVE changed'[t] <= revision'
    BY <1>1
  <2>2. ASSUME NEW t \in Threads, NEW r \in Revisions, r >= changed'[t] PROVE log'[epoch'][r][t] = Published(t)'
    <3>1. r \in Nat
      BY BoundsAssumption DEF Revisions
    <3>2. CASE r > revision
      BY <1>2, <1>3, <3>2
    <3>3. CASE ~(r > revision)
      <4>1. t \notin about /\ r >= changed[t]
        BY <1>1, <2>2, <3>1, <3>3
      <4>2. log[epoch][r][t] = Published(t)
        BY <4>1 DEF CInv, Logged
      <4> QED BY <1>2, <1>4, <3>3, <4>1, <4>2
    <3> QED BY <3>2, <3>3
  <2> QED BY <2>1, <2>2 DEF Logged
<1>13. SignalsTell'
  <2>1. ASSUME NEW i \in 1..Len(signals'), NEW t \in Threads, Tells(signals[i], t)' PROVE signals'[i].revision <= changed'[t]
    <3>1. CASE i \in Wire
      <4>1. signals[i].revision <= changed[t] /\ signals[i].revision \in Nat
        BY <1>6, <2>1, <3>1, Numbers DEF CInv, SignalsTell, Tells
      <4> QED BY <1>1, <1>6, <3>1, <4>1
    <3>2. CASE Live /\ i = Len(signals) + 1
      BY <1>1, <1>5, <1>6, <2>1, <3>2 DEF Tells
    <3> QED BY <1>6, <3>1, <3>2
  <2>2. ASSUME ~Same', NEW i \in 1..Len(signals'), signals'[i].epoch = epoch PROVE following
    BY <1>6, <2>2 DEF CInv, SignalsTell, Same, Live
  <2>3. ASSUME point = NoPoint, NEW i \in 1..Len(signals') PROVE signals'[i].epoch = epoch
    BY <1>5, <1>6, <2>3 DEF CInv, SignalsTell
  <2> QED BY <2>1, <2>2, <2>3 DEF CInv, SignalsTell, Wire
<1>14. WireWhole'
  <2> SUFFICES ASSUME ~Same, NEW i \in 1..Len(signals'), NEW t \in Threads, Tells(signals[i], t)'
               PROVE  \E j \in 1..Len(signals') : j >= i /\ Tells(signals[j], t)' /\ signals'[j].revision = changed'[t]
    BY DEF WireWhole, Wire, Same
  <2>1. Len(signals) \in Nat
    BY Numbers
  <2>2. CASE t \in about
    <3>1. Live
      <4>1. CASE i \in Wire
        BY <1>6, <4>1 DEF CInv, SignalsTell, Keeping, Live, Tells, Wire, IInv, TypeOK
      <4> QED BY <1>6, <4>1
    <3>2. Len(signals) + 1 >= i
      BY <1>6, <2>1 DEF Wire
    <3> QED BY <1>1, <1>5, <1>6, <2>2, <3>1, <3>2 DEF Tells
  <2>3. CASE t \notin about
    <3>1. i \in Wire /\ Tells(signals[i], t)
      BY <1>5, <1>6, <2>3 DEF Tells
    <3>2. PICK j \in Wire : j >= i /\ Tells(signals[j], t) /\ signals[j].revision = changed[t]
      BY <3>1 DEF CInv, WireWhole
    <3> QED BY <1>1, <1>6, <2>3, <3>2 DEF Tells
  <2> QED BY <2>2, <2>3
<1>15. EarlyWhole'
  <2> SUFFICES ASSUME NEW s \in early, NEW t \in s.about
               PROVE  s.revision <= changed'[t] /\ (InEarly(t)' \/ OnWire(t)')
    BY DEF EarlyWhole
  <2>1. t \in Threads /\ s.revision \in Nat /\ s.revision <= changed[t] /\ (InEarly(t) \/ OnWire(t))
    BY Numbers DEF CInv, EarlyWhole
  <2>2. Live
    BY DEF CInv, Keeping, Live, IInv, TypeOK
  <2> QED BY <1>1, <1>7, <1>8, <1>9, <2>1, <2>2
<1>16. FullAnswers'
  <2> SUFFICES ASSUME ~Same, Answered
               PROVE  /\ call.answer.full
                      /\ \A t \in Threads :
                           \/ changed'[t] > call.answer.revision /\ Follows(t)'
                           \/ /\ changed'[t] <= call.answer.revision
                              /\ t \in call.answer.about \/ Published(t)' = NoRow \/ t \in archived'
    BY DEF FullAnswers, Same, Answered
  <2>1. call.answer.revision \in Nat /\ call.answer.revision <= revision
    BY CallNumbers DEF CInv, Keeping
  <2>2. ASSUME NEW t \in about PROVE changed'[t] > call.answer.revision /\ Follows(t)'
    BY <1>1, <1>8, <2>1 DEF Follows, Live
  <2>3. ASSUME NEW t \in Threads \ about, Follows(t) PROVE Follows(t)'
    BY <1>7, <1>1, <2>3 DEF Follows, Live, InEarly
  <2>4. ASSUME NEW t \in Threads \ about
        PROVE  \/ changed'[t] > call.answer.revision /\ Follows(t)'
               \/ /\ changed'[t] <= call.answer.revision
                  /\ t \in call.answer.about \/ Published(t)' = NoRow \/ t \in archived'
    BY <1>1, <1>4, <2>3 DEF CInv, FullAnswers
  <2> QED BY <2>2, <2>4 DEF CInv, FullAnswers
<1>17. OldWindow'
  <2>1. Live => \E i \in 1..Len(signals') : signals'[i].epoch = epoch
    BY <1>5, <1>6
  <2> QED BY <2>1 DEF OldWindow, Live, Wire
<1>18. RecordsReach'
  <2> SUFFICES ASSUME Same, NEW t \in Threads PROVE Reached(t)'
    BY DEF RecordsReach, Same
  <2>1. CASE t \in about
    <3>1. CASE Live
      BY <1>8, <2>1, <3>1 DEF Reached
    <3>2. CASE ~Live /\ call.phase = "sent"
      <4>1. call.since.revision \in Nat /\ call.since.revision <= revision
        BY <3>2, CallNumbers DEF Same
      <4> QED BY <1>1, <2>1, <3>2, <4>1 DEF Reached, Covered
    <3>3. CASE ~Live /\ call.phase # "sent"
      <4>1. point.revision \in Nat /\ point.revision <= revision
        BY Numbers DEF Same
      <4>2. Answered => call.answer.revision \in Nat /\ call.answer.revision <= revision
        BY CallNumbers DEF CInv, Keeping
      <4> QED BY <1>1, <2>1, <3>3, <4>1, <4>2 DEF Reached, Lost, Live, Answered
    <3> QED BY <3>1, <3>2, <3>3
  <2>2. CASE t \notin about
    <3>1. Still(t) => Still(t)'
      <4>1. Good(t) => Good(t)'
        BY <1>4, <2>2 DEF Good
      <4> QED BY <1>1, <1>5, <1>6, <2>2, <4>1 DEF Still, Wire, Tells, Answered
    <3>2. Covered(t) => Covered(t)'
      BY <1>1, <2>2 DEF Covered, Answered
    <3>3. Lost(t) => Lost(t)'
      BY <1>1, <2>2 DEF Lost, Live, Answered
    <3>4. revs[t] > changed[t] => revs'[t] > changed'[t]
      BY <1>1, <2>2
    <3> QED BY <1>7, <2>2, <3>1, <3>2, <3>3, <3>4 DEF CInv, RecordsReach, Reached
  <2> QED BY <2>1, <2>2
<1> QED BY <1>11, <1>12, <1>13, <1>14, <1>15, <1>16, <1>17, <1>18 DEF CInv

LEMMA PublishSteps ==
  ASSUME IInv, CInv, EndChange \/ \E t \in Archivable : Unarchive(t) /\ rows[t] # NoRow
  PROVE  CInv'
<1>1. known \subseteq archived
  BY DEF CInv, Logged
<1>2. CASE EndChange
  BY <1>1, <1>2, PublishStep DEF EndChange, windowVars, IInv, TypeOK
<1>3. ASSUME NEW t \in Archivable, Unarchive(t), rows[t] # NoRow PROVE CInv'
  <2>1. {t} \in SUBSET Threads /\ touched = {} /\ PublishAbout({t})
    BY <1>3, BoundsAssumption DEF Unarchive
  <2> QED BY <1>1, <1>3, <2>1, PublishStep DEF Unarchive, windowVars
<1> QED BY <1>2, <1>3

-----------------------------------------------------------------------------
(***************************************************************************)
(* The answer, and its landing in a window of the same start.              *)
(***************************************************************************)
\* The server's answer is a delta to a window of its start, and full to any other.
LEMMA AnswerStep ==
  ASSUME IInv, CInv, Answer
  PROVE  CInv'
<1> DEFINE delta == call.since # NoPoint /\ call.since.epoch = epoch /\ call.since.revision <= revision
           new == AnswerTo(call.since)
<1>1. /\ call.phase = "sent" /\ touched = {} /\ call'.phase = "answered" /\ call'.answer = new
      /\ UNCHANGED <<serverVars, windowVars, conn, signals>>
  BY DEF Answer, IInv, TypeOK
<1>2. delta <=> Same
  BY <1>1, CallNumbers DEF Same
<1>3. /\ new.epoch = epoch /\ new.revision = revision
      /\ delta => new.about = {t \in Threads : changed[t] > call.since.revision}
      /\ ~delta => new.about = {t \in Threads \ known : rows[t] # NoRow}
  BY DEF AnswerTo
<1>4. ~delta => new.full
  <2>1. new.full = ~delta
    BY Zenon DEF AnswerTo
  <2> QED BY <2>1
<1> HIDE DEF delta, new
<1>5. \A t \in Threads : changed[t] <= revision /\ Published(t)' = Published(t) /\ changed'[t] = changed[t] /\ changed[t] \in Nat
  BY <1>1, Numbers DEF CInv, Logged, Published, serverVars
<1>6. /\ Same' = Same /\ Live' = Live /\ Wire' = Wire /\ Syncing /\ Syncing' /\ Answered'
      /\ \A t \in Threads : OnWire(t)' = OnWire(t)
  BY <1>1 DEF Same, Live, Wire, OnWire, Tells, serverVars, windowVars, Syncing, Answered
<1>7. Keeping'
  BY <1>1, <1>3, <1>6 DEF CInv, Keeping, serverVars, windowVars
<1>8. Logged' /\ SignalsTell' /\ WireWhole' /\ EarlyWhole'
  <2>1. Logged'
    BY <1>1 DEF CInv, Logged, Published, serverVars
  <2>2. SignalsTell'
    BY <1>1 DEF CInv, SignalsTell, Same, Wire, Tells, serverVars, windowVars
  <2>3. WireWhole'
    BY <1>1 DEF CInv, WireWhole, Same, Wire, Tells, serverVars, windowVars
  <2>4. EarlyWhole'
    BY <1>1 DEF CInv, EarlyWhole, InEarly, OnWire, Wire, Tells, serverVars, windowVars
  <2> QED BY <2>1, <2>2, <2>3, <2>4
<1>9. FullAnswers'
  <2> SUFFICES ASSUME ~Same PROVE new.full /\ \A t \in Threads : changed[t] <= new.revision /\ (t \in new.about \/ Published(t) = NoRow \/ t \in archived)
    BY <1>1, <1>5, <1>6 DEF FullAnswers, serverVars
  <2>1. \A t \in Threads : Published(t) = rows[t]
    <3>1. revision \in Revisions /\ revision >= revision
      BY Numbers
    <3> QED BY <1>1, <3>1 DEF IInv, LogIsNow, Published
  <2> QED BY <1>2, <1>3, <1>4, <1>5, <2>1 DEF CInv, Logged
<1>10. OldWindow'
  BY <1>6 DEF OldWindow
<1>11. RecordsReach'
  <2> SUFFICES ASSUME Same, NEW t \in Threads PROVE Reached(t)'
    BY <1>6 DEF RecordsReach
  <2>1. CASE changed[t] > call.since.revision
    BY <1>1, <1>2, <1>3, <1>5, <2>1 DEF Reached, Covered, Answered
  <2>2. CASE Still(t)
    <3>1. Good(t)' /\ \A i \in Wire' : ~Tells(signals[i], t)'
      BY <1>1, <1>5, <2>2 DEF Still, Good, Wire, Tells, serverVars, windowVars
    <3> QED BY <1>1, <1>3, <1>5, <3>1 DEF Reached, Still
  <2>3. CASE Lost(t)
    <3>1. call.since.revision <= point.revision /\ changed[t] > point.revision
      BY <1>1, <2>3 DEF Lost, CInv, Keeping
    <3>2. call.since.revision \in Nat /\ point.revision \in Nat
      BY <1>1, Numbers, CallNumbers DEF Same
    <3> QED BY <1>5, <2>1, <3>1, <3>2
  <2>4. CASE revs[t] > changed[t] \/ OnWire(t)
    BY <1>1, <1>6, <2>4 DEF Reached, windowVars, serverVars
  <2> QED BY <1>1, <2>1, <2>2, <2>3, <2>4 DEF CInv, RecordsReach, Reached, Covered, Answered
<1> QED BY <1>7, <1>8, <1>9, <1>10, <1>11 DEF CInv

LEMMA NothingEarly ==
  ASSUME early = {}, NEW window \in Windows
  PROVE  ApplyEarly(window) = window
BY DEF ApplyEarly, Windows

\* What follows from a window of this start once an answer has landed.
LEMMA LandRest ==
  ASSUME IInv, CInv, Land, RecordsReach'
  PROVE  CInv'
<1>1. point' # NoPoint /\ point'.epoch = epoch /\ UNCHANGED <<serverVars, following, realtime, unconnected, conn, signals>>
  BY LandWindow DEF Land, CInv, Keeping, Answered
<1>2. /\ following /\ status' = "current" /\ early' = {}
      /\ call' = Idle \/ call' = Sent(point')
  <2>1. following
    BY DEF Land, CInv, Keeping, Syncing
  <2>2. call' = Idle \/ call' = Sent(point')
    BY DEF Land, SetWindow, EndCall
  <2> QED BY <2>1, <2>2 DEF Land
<1>3. Same' /\ ~Answered'
  BY <1>1, <1>2 DEF Same, Answered, Idle, Sent, serverVars
<1>4. call'.phase # "lost" /\ (call'.phase = "sent" => call'.since.revision <= point'.revision)
  <2>1. point'.revision \in Nat
    BY <1>1, NextNumbers DEF Next
  <2> QED BY <1>2, <2>1 DEF Idle, Sent
<1>5. Keeping'
  BY <1>1, <1>2, <1>3, <1>4 DEF CInv, Keeping
<1>6. Logged' /\ SignalsTell'
  BY <1>1, <1>3 DEF CInv, Logged, Published, SignalsTell, Wire, Tells, serverVars
<1>7. WireWhole' /\ EarlyWhole' /\ FullAnswers' /\ OldWindow'
  BY <1>1, <1>2, <1>3 DEF WireWhole, EarlyWhole, FullAnswers, OldWindow, serverVars
<1> QED BY <1>5, <1>6, <1>7 DEF CInv

LEMMA LandDelta ==
  ASSUME IInv, CInv, Land, Same
  PROVE  RecordsReach'
<1> DEFINE answer == call.answer
           takes(t) == t \in answer.about /\ Window.revs[t] <= answer.revision + 1
<1>1. Answered /\ answer.epoch = epoch /\ answer.revision \in Nat /\ ~answer.full /\ early = {}
  <2>1. Answered /\ answer.epoch = epoch /\ early = {}
    BY DEF Land, CInv, Keeping, Answered, Same
  <2>2. answer \in Answers /\ answer.revision \in Nat /\ (answer.full <=> ~Same)
    BY <2>1, CallNumbers
  <2> QED BY <2>1, <2>2
<1>2. Window \in Windows /\ answer \in Answers
  BY WindowTyped, CallNumbers, <1>1 DEF IInv
<1>3. NextWindow = ApplySync(Window, answer)
  BY <1>1, <1>2, LandWindow, ApplySyncType, NothingEarly
<1>4. point' = PointAfter(Window, answer)
  BY <1>2, <1>3, ApplySyncType DEF NextWindow
<1>5. /\ point'.revision = answer.revision \/ point'.revision = point.revision
      /\ \A t \in Threads : /\ takes(t) => revs'[t] = answer.revision + 1
                            /\ ~takes(t) => revs'[t] = revs[t] /\ held'[t] = held[t]
  <2>1. NextWindow = [WithRecords(Window, answer) EXCEPT !.point = PointAfter(Window, answer)]
    BY <1>1, <1>3 DEF ApplySync
  <2>2. \A t \in Threads : /\ takes(t) => NextWindow.revs[t] = answer.revision + 1
                           /\ ~takes(t) => NextWindow.revs[t] = Window.revs[t] /\ NextWindow.held[t] = Window.held[t]
    BY <1>2, <2>1 DEF WithRecords, Windows
  <2> QED BY <1>4, <2>2 DEF NextWindow, Window, PointAfter
<1>6. ~Answered' /\ UNCHANGED <<serverVars, following, conn, signals>>
  BY DEF Land, EndCall, Idle, Sent, Answered
<1> SUFFICES ASSUME NEW t \in Threads PROVE Reached(t)'
  BY DEF RecordsReach
<1>7. changed[t] \in Nat /\ revs[t] \in Nat /\ changed'[t] = changed[t]
  BY <1>6, Numbers DEF serverVars
<1>8. CASE takes(t)
  <2>1. revs'[t] = answer.revision + 1 /\ revs[t] <= answer.revision + 1
    BY <1>5, <1>8 DEF Window
  <2>2. CASE answer.revision >= changed[t]
    BY <1>1, <1>7, <2>1, <2>2 DEF Reached
  <2>3. CASE OnWire(t)
    BY <1>6, <2>3 DEF Reached, OnWire, Wire, Tells, serverVars
  <2>4. CASE revs[t] > changed[t]
    BY <1>1, <1>7, <2>1, <2>4 DEF Reached
  <2>5. CASE Lost(t)
    BY <1>1, <1>5, <1>6, <1>7, <2>5 DEF Reached, Lost, Live, serverVars
  <2> QED BY <1>1, <1>8, <2>2, <2>3, <2>4, <2>5 DEF CInv, RecordsReach, Reached, Still, Covered, Answered
<1>9. CASE ~takes(t)
  <2>1. revs'[t] = revs[t] /\ held'[t] = held[t] /\ (t \in answer.about => revs[t] > answer.revision + 1)
    BY <1>1, <1>5, <1>7, <1>9 DEF Window
  <2>2. CASE OnWire(t)
    BY <1>6, <2>2 DEF Reached, OnWire, Wire, Tells, serverVars
  <2>3. CASE Covered(t)
    BY <1>1, <1>7, <2>1, <2>3 DEF Reached, Covered, Answered
  <2>4. CASE Lost(t)
    BY <1>1, <1>5, <1>6, <1>7, <2>4 DEF Reached, Lost, Live, serverVars
  <2>5. CASE Still(t)
    BY <1>6, <2>1, <2>5 DEF Reached, Still, Good, Published, Wire, Tells, serverVars
  <2>6. CASE revs[t] > changed[t]
    BY <1>7, <2>1, <2>6 DEF Reached
  <2> QED BY <2>2, <2>3, <2>4, <2>5, <2>6 DEF CInv, RecordsReach, Reached
<1> QED BY <1>8, <1>9

-----------------------------------------------------------------------------
(***************************************************************************)
(* Its landing in any other window, with the early signals.                *)
(***************************************************************************)
\* The early signals about t: the latest is taken unless a later record is held.
LEMMA EarlyTaken ==
  ASSUME NEW window \in Windows, NEW t \in Threads, NEW s \in early, t \in s.about, SameEpoch(window, s.epoch),
         \A other \in early : other.revision \in Nat /\ (t \in other.about => other.revision <= s.revision)
  PROVE  ApplyEarly(window).revs[t] > s.revision
<1> DEFINE ours == {m \in early : SameEpoch(window, m.epoch)}
           about == {m \in ours : t \in m.about}
           last == Latest(about)
<1>1. last \in about /\ s.revision <= last.revision
  BY DEF Latest
<1>2. last.revision = s.revision /\ s.revision \in Nat
  BY <1>1
<1>3. window.revs[t] \in Nat
  BY BoundsAssumption DEF Windows
<1>4. CASE window.revs[t] <= last.revision + 1
  <2>1. ApplyEarly(window).revs[t] = last.revision + 1
    BY <1>1, <1>4 DEF ApplyEarly
  <2> QED BY <1>2, <2>1
<1>5. CASE ~(window.revs[t] <= last.revision + 1)
  <2>1. ApplyEarly(window).revs[t] = window.revs[t]
    BY <1>5 DEF ApplyEarly
  <2> HIDE DEF last
  <2> QED BY <1>2, <1>3, <1>5, <2>1
<1> QED BY <1>4, <1>5

LEMMA EarlyLeaves ==
  ASSUME NEW window \in Windows, NEW t \in Threads, \A s \in early : t \notin s.about
  PROVE  ApplyEarly(window).revs[t] = window.revs[t] /\ ApplyEarly(window).held[t] = window.held[t]
BY DEF ApplyEarly

\* A full answer and the early signals after it.
LEMMA LandFull ==
  ASSUME IInv, CInv, Land, ~Same
  PROVE  RecordsReach'
<1> DEFINE answer == call.answer
           R == answer.revision
           synced == ApplySync(Window, answer)
<1>1. Answered /\ answer.epoch = epoch /\ R \in Nat /\ answer.full /\ answer \in Answers
  <2>1. Answered /\ answer.epoch = epoch
    BY DEF Land, CInv, Keeping, Answered
  <2> QED BY <2>1, CallNumbers
<1>2. Window \in Windows /\ synced \in Windows /\ ~SameEpoch(Window, answer.epoch)
  BY WindowTyped, ApplySyncType, <1>1 DEF IInv, SameEpoch, Window, Same
<1>3. NextWindow = ApplyEarly(synced)
  BY LandWindow
<1>4. /\ synced.point = [epoch |-> epoch, revision |-> R]
      /\ \A t \in Threads : /\ t \in answer.about => synced.revs[t] = R + 1
                            /\ t \notin answer.about => synced.revs[t] = 0 /\ synced.held[t] = NoRow
  <2>1. synced = [Replaced(Window, answer) EXCEPT !.point = PointAfter(Window, answer)]
    BY <1>1 DEF ApplySync
  <2>2. PointAfter(Window, answer) = [epoch |-> epoch, revision |-> R]
    BY <1>1, <1>2 DEF PointAfter
  <2> QED BY <1>1, <1>2, <2>1, <2>2 DEF Replaced
<1> HIDE DEF synced
<1>5. synced.point # NoPoint /\ synced.point.epoch = epoch /\ synced.point.revision = R
  BY <1>1, <1>4, Numbers, ValuesAssumption
<1>6. \A s \in early : s.revision \in Nat /\ SameEpoch(synced, s.epoch)
  BY <1>5, Numbers DEF CInv, Keeping, SignalsTell, SameEpoch
<1>7. early = {} => point' = [epoch |-> epoch, revision |-> R]
  BY <1>2, <1>3, <1>4, NothingEarly DEF NextWindow
<1>8. ~Live => early = {}
  BY DEF Live, CInv, Keeping, IInv, TypeOK
<1>9. ~Answered' /\ UNCHANGED <<serverVars, following, conn, signals>>
  BY DEF Land, EndCall, Idle, Sent, Answered
<1> SUFFICES ASSUME NEW t \in Threads PROVE Reached(t)'
  BY DEF RecordsReach
<1>10. changed[t] \in Nat /\ changed'[t] = changed[t]
  BY <1>9, Numbers DEF serverVars
<1>11. CASE OnWire(t)
  BY <1>9, <1>11 DEF Reached, OnWire, Wire, Tells, serverVars
<1>12. CASE ~OnWire(t) /\ \E s \in early : t \in s.about
  <2>1. PICK s \in early : t \in s.about /\ s.revision = changed[t]
    BY <1>12 DEF CInv, EarlyWhole, InEarly
  <2>2. \A other \in early : other.revision \in Nat /\ (t \in other.about => other.revision <= s.revision)
    BY <1>6, <2>1 DEF CInv, EarlyWhole
  <2>3. NextWindow.revs[t] > s.revision
    BY <1>2, <1>3, <1>6, <2>1, <2>2, EarlyTaken
  <2> QED BY <1>10, <2>1, <2>3 DEF Reached, NextWindow
<1>13. CASE ~OnWire(t) /\ \A s \in early : t \notin s.about
  <2>1. revs'[t] = synced.revs[t] /\ held'[t] = synced.held[t]
    BY <1>2, <1>3, <1>13, EarlyLeaves DEF NextWindow
  <2>2. \A i \in Wire : ~Tells(signals[i], t)
    BY <1>13 DEF CInv, WireWhole, OnWire, SignalsTell, Tells
  <2>3. CASE changed[t] <= R /\ t \in answer.about
    BY <1>1, <1>4, <1>10, <2>1, <2>3 DEF Reached
  <2>4. CASE t \notin answer.about /\ (Published(t) = NoRow \/ t \in archived)
    <3>1. held'[t] = NoRow
      BY <1>4, <2>1, <2>4
    <3> QED BY <1>9, <2>2, <2>4, <3>1 DEF Reached, Still, Good, Published, Wire, Tells, serverVars
  <2>5. CASE changed[t] > R /\ (~Live \/ (point # NoPoint /\ again))
    <3>1. early = {}
      BY <1>8, <2>5 DEF CInv, Keeping
    <3>2. point'.revision = R
      BY <1>7, <3>1
    <3>3. CASE ~Live
      BY <1>9, <1>10, <2>5, <3>2, <3>3 DEF Reached, Lost, Live
    <3>4. CASE again
      <4>1. call' = Sent(point')
        BY <3>4 DEF Land, SetWindow, EndCall
      <4> QED BY <1>10, <2>5, <3>2, <4>1 DEF Reached, Covered, Sent
    <3> QED BY <2>5, <3>3, <3>4
  <2>6. ~InEarly(t)
    BY <1>13 DEF InEarly
  <2> QED BY <1>1, <1>13, <2>3, <2>4, <2>5, <2>6 DEF CInv, FullAnswers, Follows
<1> QED BY <1>11, <1>12, <1>13

LEMMA LandStep == IInv /\ CInv /\ Land => CInv'
BY LandDelta, LandFull, LandRest

-----------------------------------------------------------------------------
(***************************************************************************)
(* Failed calls, and the ways a window comes to ask.                       *)
(***************************************************************************)
\* Before a first answer a failed call loses nothing.
LEMMA FailStep ==
  ASSUME IInv, CInv, AnyTime = FALSE, Fail \/ FailLost
  PROVE  CInv'
<1>1. /\ point = NoPoint /\ EndFailed
      /\ UNCHANGED <<serverVars, held, revs, point, early, following, realtime, unconnected, conn, signals>>
  BY DEF Fail, FailLost, EndFailed, CInv, Keeping
<1>2. following /\ (call' = Idle \/ call' = Sent(point)) /\ status' = "failed"
  BY <1>1 DEF EndFailed, EndCall, Fail, FailLost, CInv, Keeping, Syncing
<1>3. ~Same /\ ~Same' /\ ~Answered'
  BY <1>1, <1>2 DEF Same, Answered, Idle, Sent
<1>4. Keeping'
  BY <1>1, <1>2, <1>3 DEF CInv, Keeping, Idle, Sent
<1>5. Logged' /\ SignalsTell' /\ WireWhole' /\ EarlyWhole'
  <2>1. Logged' /\ SignalsTell'
    BY <1>1 DEF CInv, Logged, Published, SignalsTell, Same, Wire, Tells, serverVars
  <2>2. WireWhole'
    BY <1>1 DEF CInv, WireWhole, Same, Wire, Tells, serverVars
  <2>3. EarlyWhole'
    BY <1>1 DEF CInv, EarlyWhole, InEarly, OnWire, Wire, Tells, serverVars
  <2> QED BY <2>1, <2>2, <2>3
<1>6. FullAnswers' /\ OldWindow' /\ RecordsReach'
  BY <1>1, <1>3 DEF FullAnswers, OldWindow, RecordsReach
<1> QED BY <1>4, <1>5, <1>6 DEF CInv

\* A window that asks, or that starts to follow: it asks before it trusts a
\* connection it did not have.
LEMMA AskStep ==
  ASSUME IInv, CInv,
         UNCHANGED <<serverVars, held, revs, point, early, signals>>,
         (call' = call /\ (Live' => Live)) \/ (~Syncing /\ call' = Sent(point)),
         following => following', again => again',
         Syncing' => following', unconnected' => following',
         conn' = "down" => conn = "down" /\ (following' => realtime' = "down"),
         status' = "current" => following' /\ point # NoPoint
  PROVE  CInv'
<1>1. Same' = Same /\ Wire' = Wire /\ \A t \in Threads : OnWire(t) => OnWire(t)'
  BY DEF Same, Wire, OnWire, Tells, serverVars
<1>2. Answered' => Answered /\ call' = call /\ (Live' => Live)
  BY DEF Answered, Sent
<1>3. Keeping'
  <2>1. /\ call'.phase # "lost" /\ (Answered' => call'.answer.epoch = epoch')
        /\ point' # NoPoint => early' = {}
        /\ conn' = "down" => signals' = <<>> /\ early' = {}
        /\ early' # {} => following'
    BY <1>2 DEF CInv, Keeping, Sent, Answered, serverVars
  <2>2. ASSUME call'.phase = "sent", Same PROVE call'.since.revision <= point.revision
    BY <2>2, Numbers DEF CInv, Keeping, Sent, Same, Syncing
  <2> QED BY <1>1, <2>1, <2>2 DEF Keeping
<1>4. Logged'
  BY DEF CInv, Logged, Published, serverVars
<1>5. SignalsTell'
  BY <1>1 DEF CInv, SignalsTell, Wire, Tells, serverVars
<1>6. WireWhole'
  BY <1>1 DEF CInv, WireWhole, Tells, serverVars
<1>7. EarlyWhole'
  <2>1. \A s \in early : s.about \subseteq Threads
    BY Numbers
  <2> QED BY <1>1, <2>1 DEF CInv, EarlyWhole, InEarly, serverVars
<1>8. FullAnswers'
  <2>1. ASSUME Answered', NEW t \in Threads, Follows(t) PROVE Follows(t)'
    BY <1>1, <1>2, <2>1 DEF Follows, InEarly, serverVars
  <2> QED BY <1>1, <1>2, <2>1 DEF CInv, FullAnswers, Published, serverVars
<1>9. OldWindow'
  <2> SUFFICES ASSUME point # NoPoint, point.epoch # epoch, Live', ~Syncing'
               PROVE  (\E i \in Wire : signals[i].epoch = epoch) \/ (revision = 0 /\ \A t \in Threads : OldReached(t)')
    BY <1>1 DEF OldWindow, serverVars
  <2>1. Live /\ ~Syncing
    BY DEF Syncing, Sent
  <2>2. \A t \in Threads : OldReached(t) => OldReached(t)'
    BY <1>1 DEF OldReached, Last, OldTells, Good, Published, serverVars
  <2> QED BY <2>1, <2>2 DEF CInv, OldWindow
<1>10. RecordsReach'
  <2> SUFFICES ASSUME Same, NEW t \in Threads PROVE Reached(t)'
    BY <1>1 DEF RecordsReach
  <2>1. Still(t) => Still(t)'
    BY <1>1, <1>2 DEF Still, Good, Published, Tells, serverVars
  <2>2. Covered(t) => Covered(t)'
    BY DEF Covered, Answered, Syncing, serverVars
  <2>3. Lost(t) => Lost(t)' \/ Covered(t)'
    BY DEF Lost, Covered, Answered, Sent, Syncing, serverVars
  <2>4. revs[t] > changed[t] => revs'[t] > changed'[t]
    BY DEF serverVars
  <2> QED BY <1>1, <2>1, <2>2, <2>3, <2>4 DEF CInv, RecordsReach, Reached
<1> QED BY <1>3, <1>4, <1>5, <1>6, <1>7, <1>8, <1>9, <1>10 DEF CInv

LEMMA AskSteps ==
  ASSUME IInv, CInv, AnyTime = FALSE, RetryFires \/ UnconnectedFires \/ Reconnect \/ Mount
  PROVE  CInv'
<1>1. CASE RetryFires
  BY <1>1, AskStep DEF RetryFires, RequestSync, CInv, Keeping, Live, Syncing
<1>2. CASE UnconnectedFires
  BY <1>2, AskStep DEF UnconnectedFires, RequestSync, CInv, Keeping, Live, Syncing
<1>3. CASE Reconnect
  <2>1. CASE following
    BY <1>3, <2>1, AskStep DEF Reconnect, RequestSync, ReasonWhenUp, CInv, Keeping, Live, Syncing
  <2>2. CASE ~following
    BY <1>3, <2>2, AskStep DEF Reconnect, CInv, Keeping, Live, Syncing
  <2> QED BY <2>1, <2>2
<1>4. CASE Mount
  <2>1. CASE conn = "up"
    BY <1>4, <2>1, AskStep DEF Mount, RequestSync, ReasonWhenUp, CInv, Keeping, Live, Syncing
  <2>2. CASE conn # "up"
    BY <1>4, <2>2, AskStep DEF Mount, HearDown, NotCurrent, CInv, Keeping, Live, Syncing
  <2> QED BY <2>1, <2>2
<1> QED BY <1>1, <1>2, <1>3, <1>4

-----------------------------------------------------------------------------
(***************************************************************************)
(* A signal is delivered.                                                  *)
(***************************************************************************)
\* What a delivered signal leaves on the wire.
LEMMA TailStep ==
  ASSUME IInv, Deliver
  PROVE  /\ Head(signals) = signals[1] /\ 1 \in Wire /\ signals[1] \in Signals
         /\ \A i \in 1..Len(signals') : i + 1 \in Wire /\ signals'[i] = signals[i + 1]
         /\ \A j \in Wire : j # 1 => j - 1 \in 1..Len(signals') /\ signals'[j - 1] = signals[j]
BY TailWire, Numbers DEF Deliver, Wire

LEMMA DeliverWire ==
  ASSUME IInv, CInv, Deliver
  PROVE  /\ Logged' /\ WireWhole'
         /\ \A i \in 1..Len(signals'), t \in Threads : Tells(signals[i], t)' => signals'[i].revision <= changed'[t]
         /\ Same' = Same
         /\ \A t \in Threads : OnWire(t) => OnWire(t)' \/ (Tells(signals[1], t) /\ signals[1].revision = changed[t])
         /\ \A t \in Threads : (\A i \in Wire : ~Tells(signals[i], t)) => \A i \in Wire' : ~Tells(signals[i], t)'
<1>1. UNCHANGED <<serverVars, following, realtime, status, unconnected, conn>>
  BY DEF Deliver
<1>2. Same' = Same
  <2>1. CASE UNCHANGED point
    BY <1>1, <2>1 DEF Same, serverVars
  <2>2. CASE ~UNCHANGED point
    BY <1>1, <2>2, DeliverWindow DEF Same, serverVars
  <2> QED BY <2>1, <2>2
<1>3. Logged'
  BY <1>1 DEF CInv, Logged, Published, serverVars
<1>4. WireWhole'
  <2> SUFFICES ASSUME ~Same, NEW i \in 1..Len(signals'), NEW t \in Threads, Tells(signals[i], t)'
               PROVE  \E j \in 1..Len(signals') : j >= i /\ Tells(signals[j], t)' /\ signals'[j].revision = changed'[t]
    BY <1>2 DEF WireWhole, Wire
  <2>1. i + 1 \in Wire /\ Tells(signals[i + 1], t)
    BY <1>1, TailStep DEF Tells, serverVars
  <2>2. PICK j \in Wire : j >= i + 1 /\ Tells(signals[j], t) /\ signals[j].revision = changed[t]
    BY <2>1 DEF CInv, WireWhole
  <2>3. j # 1 /\ j - 1 >= i
    BY <2>2 DEF Wire
  <2>4. j - 1 \in 1..Len(signals') /\ signals'[j - 1] = signals[j]
    BY <2>3, TailStep
  <2> QED BY <1>1, <2>2, <2>3, <2>4 DEF Tells, serverVars
<1>5. ASSUME NEW i \in 1..Len(signals'), NEW t \in Threads, Tells(signals[i], t)' PROVE signals'[i].revision <= changed'[t]
  BY <1>1, <1>5, TailStep DEF CInv, SignalsTell, Tells, serverVars
<1>6. ASSUME NEW t \in Threads, OnWire(t) PROVE OnWire(t)' \/ (Tells(signals[1], t) /\ signals[1].revision = changed[t])
  <2>1. PICK j \in Wire : Tells(signals[j], t) /\ signals[j].revision = changed[t]
    BY <1>6 DEF OnWire
  <2> QED BY <1>1, <1>6, <2>1, TailStep DEF OnWire, Tells, Wire, serverVars
<1>7. ASSUME NEW t \in Threads, \A i \in Wire : ~Tells(signals[i], t), NEW i \in Wire' PROVE ~Tells(signals[i], t)'
  BY <1>1, <1>7, TailStep DEF Tells, Wire, serverVars
<1> QED BY <1>2, <1>3, <1>4, <1>5, <1>6, <1>7

\* A signal of the window's epoch is applied.
LEMMA DeliverTaken ==
  ASSUME IInv, Deliver, following, SameEpoch(Window, signals[1].epoch), NEW s, s = signals[1]
  PROVE  /\ UNCHANGED <<call, early, again>>
         /\ point # NoPoint /\ point' # NoPoint /\ point'.epoch = point.epoch /\ s.epoch = point.epoch
         /\ point'.revision \in Nat /\ point.revision \in Nat /\ point'.revision >= point.revision
         /\ \A t \in Threads :
              IF t \in s.about /\ revs[t] <= s.revision + 1
              THEN revs'[t] = s.revision + 1 /\ held'[t] = s.rows[t]
              ELSE revs'[t] = revs[t] /\ held'[t] = held[t]
<1>1. Head(signals) = s /\ s \in Signals /\ Window \in Windows
  BY TailStep, WindowTyped DEF IInv
<1>2. s.epoch = point.epoch /\ point # NoPoint /\ Window.point = point
  BY DEF SameEpoch, Window
<1>3. UNCHANGED <<call, early, again>> /\ SetWindow(ApplySignal(Window, s))
  BY <1>1, <1>2 DEF Deliver
<1>4. ApplySignal(Window, s) = [WithRecords(Window, s) EXCEPT !.point = PointAfter(Window, s)]
  BY DEF ApplySignal
<1>5. point' = PointAfter(Window, s)
  BY <1>1, <1>3, ApplySignalType DEF SetWindow
<1>6. point'.epoch = s.epoch /\ (point'.revision = point.revision \/ (point'.revision = s.revision /\ ~(point.revision > s.revision)))
  BY <1>2, <1>5 DEF PointAfter, SameEpoch
<1>7. point.revision \in Nat /\ s.revision \in Nat
  BY <1>1, <1>2, Numbers, BoundsAssumption DEF Signals, Revisions
<1>8. point' # NoPoint
  <2>1. IsMessage(s)
    BY <1>1 DEF Signals, IsMessage
  <2> QED BY <1>1, <1>5, <2>1, PointAfterType, ValuesAssumption DEF Points, Epochs, Revisions
<1>9. \A t \in Threads :
        IF t \in s.about /\ revs[t] <= s.revision + 1
        THEN revs'[t] = s.revision + 1 /\ held'[t] = s.rows[t]
        ELSE revs'[t] = revs[t] /\ held'[t] = held[t]
  <2>1. \A t \in Threads :
          IF t \in s.about /\ Window.revs[t] <= s.revision + 1
          THEN ApplySignal(Window, s).revs[t] = s.revision + 1 /\ ApplySignal(Window, s).held[t] = s.rows[t]
          ELSE ApplySignal(Window, s).revs[t] = Window.revs[t] /\ ApplySignal(Window, s).held[t] = Window.held[t]
    BY <1>1, <1>4 DEF WithRecords, Windows
  <2> QED BY <1>3, <2>1 DEF SetWindow, Window
<1> QED BY <1>2, <1>3, <1>6, <1>7, <1>8, <1>9

\* Of the window's start and the server's.
LEMMA DeliverOurs ==
  ASSUME IInv, CInv, Deliver, following, Same, signals[1].epoch = epoch
  PROVE  CInv'
<1> DEFINE s == signals[1]
<1>1. UNCHANGED <<serverVars, following, realtime, status, unconnected, conn>> /\ conn = "up"
  BY DEF Deliver
<1>2. SameEpoch(Window, s.epoch)
  BY DEF SameEpoch, Window, Same
<1>3. /\ UNCHANGED <<call, early, again>>
      /\ point # NoPoint /\ point' # NoPoint
      /\ point'.revision \in Nat /\ point.revision \in Nat /\ point'.revision >= point.revision
      /\ \A t \in Threads :
           IF t \in s.about /\ revs[t] <= s.revision + 1
           THEN revs'[t] = s.revision + 1 /\ held'[t] = s.rows[t]
           ELSE revs'[t] = revs[t] /\ held'[t] = held[t]
  BY <1>2, DeliverTaken
<1>4. s.revision \in Nat /\ \A t \in s.about : t \in Threads /\ Tells(s, t) /\ s.revision <= changed[t]
  BY TailStep, Numbers DEF CInv, SignalsTell, Tells
<1> HIDE DEF s
<1>5. Same' /\ early' = {}
  BY <1>3, DeliverWire DEF CInv, Keeping
<1>6. Keeping'
  <2>1. call'.phase = "sent" => call'.since.revision <= point'.revision
    <3>1. call.phase = "sent" => call.since.revision <= point.revision /\ call.since.revision \in Nat
      BY <1>3, CallNumbers DEF CInv, Keeping
    <3> QED BY <1>3, <3>1
  <2> QED BY <1>1, <1>3, <1>5, <2>1 DEF CInv, Keeping, Syncing, Answered, serverVars
<1>7. Logged' /\ SignalsTell' /\ WireWhole'
  BY <1>3, <1>5, DeliverWire DEF SignalsTell, Wire
<1>8. EarlyWhole' /\ FullAnswers' /\ OldWindow'
  BY <1>5 DEF EarlyWhole, FullAnswers, OldWindow, Same
<1>9. RecordsReach'
  <2> SUFFICES ASSUME NEW t \in Threads PROVE Reached(t)'
    BY DEF RecordsReach
  <2>1. changed[t] \in Nat /\ revs[t] \in Nat /\ changed'[t] = changed[t]
    BY <1>1, Numbers DEF serverVars
  <2>2. Covered(t) => Covered(t)'
    BY <1>1, <1>3 DEF Covered, Answered, serverVars
  <2>3. OnWire(t) => OnWire(t)' \/ (t \in s.about /\ s.revision = changed[t])
    BY DeliverWire DEF Tells, s
  <2>4. ~Lost(t)
    BY <1>1 DEF Lost, Live
  <2>5. CASE t \in s.about /\ s.revision = changed[t]
    BY <1>3, <1>4, <2>1, <2>5 DEF Reached
  <2>6. CASE t \in s.about /\ s.revision # changed[t]
    <3>1. ~Still(t)
      BY <1>4, <2>6, TailStep DEF Still, s
    <3>2. revs[t] > changed[t] => revs'[t] > changed'[t]
      BY <1>3, <1>4, <2>1, <2>6
    <3> QED BY <2>2, <2>3, <2>4, <2>6, <3>1, <3>2 DEF CInv, RecordsReach, Reached
  <2>7. CASE t \notin s.about
    <3>1. revs'[t] = revs[t] /\ held'[t] = held[t]
      BY <1>3, <2>7
    <3>2. Still(t) => Still(t)'
      BY <1>1, <1>3, <3>1, DeliverWire DEF Still, Good, Published, Answered, serverVars
    <3> QED BY <2>1, <2>2, <2>3, <2>4, <2>7, <3>1, <3>2 DEF CInv, RecordsReach, Reached
  <2> QED BY <2>5, <2>6, <2>7
<1> QED BY <1>6, <1>7, <1>8, <1>9 DEF CInv

\* Of an earlier start than the server's.
LEMMA DeliverOld ==
  ASSUME IInv, CInv, Deliver, following, point # NoPoint, point.epoch # epoch, signals[1].epoch = point.epoch
  PROVE  CInv'
<1> DEFINE s == signals[1]
<1>1. UNCHANGED <<serverVars, following, realtime, status, unconnected, conn>> /\ conn = "up"
  BY DEF Deliver
<1>2. SameEpoch(Window, s.epoch)
  BY DEF SameEpoch, Window
<1>3. /\ UNCHANGED <<call, early, again>>
      /\ point' # NoPoint /\ point'.epoch = point.epoch
      /\ \A t \in Threads :
           IF t \in s.about /\ revs[t] <= s.revision + 1
           THEN revs'[t] = s.revision + 1 /\ held'[t] = s.rows[t]
           ELSE revs'[t] = revs[t] /\ held'[t] = held[t]
  BY <1>2, DeliverTaken
<1>4. /\ s \in Signals /\ s.revision \in Nat /\ s.epoch = point.epoch
      /\ \A i \in Wire : signals[i].revision \in Nat
  BY TailStep, Numbers
<1>5. ~Same /\ ~Same' /\ early = {} /\ early' = {}
  BY <1>1, <1>3 DEF CInv, Keeping, Same, serverVars
<1>6. \A t \in Threads : ~Tells(s, t)
  BY DEF Tells
<1> HIDE DEF s
<1>7. Keeping'
  BY <1>1, <1>3, <1>5 DEF CInv, Keeping, Syncing, Answered, serverVars
<1>8. Logged' /\ SignalsTell' /\ WireWhole'
  <2>1. SignalsTell'
    BY <1>1, <1>3, <1>5, DeliverWire DEF SignalsTell, Wire
  <2> QED BY <2>1, DeliverWire
<1>9. EarlyWhole' /\ RecordsReach'
  BY <1>5 DEF EarlyWhole, RecordsReach
<1>10. FullAnswers'
  <2>1. ASSUME NEW t \in Threads, Follows(t) PROVE Follows(t)'
    BY <1>1, <1>3, <1>5, <1>6, <2>1, DeliverWire DEF Follows, InEarly, Live, s
  <2> QED BY <1>1, <1>3, <1>5, <2>1 DEF CInv, FullAnswers, Published, Answered, serverVars
<1>11. OldWindow'
  <2> SUFFICES ASSUME ~Syncing, Live
               PROVE  (\E i \in Wire' : signals'[i].epoch = epoch) \/ (revision = 0 /\ \A t \in Threads : OldReached(t)')
    BY <1>1, <1>3 DEF OldWindow, Live, Syncing, serverVars
  <2>1. CASE \E i \in Wire : signals[i].epoch = epoch
    <3>1. PICK i \in Wire : signals[i].epoch = epoch
      BY <2>1
    <3>2. i # 1
      BY <3>1
    <3> QED BY <3>1, <3>2, TailStep DEF Wire
  <2>2. CASE revision = 0 /\ \A t \in Threads : OldReached(t)
    <3> SUFFICES ASSUME NEW t \in Threads PROVE OldReached(t)'
      BY <2>2
    <3>1. \A x, u : OldTells(x, u)' <=> OldTells(x, u)
      BY <1>3 DEF OldTells
    <3>2. Published(t)' = Published(t) /\ (Good(t) /\ held'[t] = held[t] => Good(t)') /\ revs[t] \in Nat
      BY <1>1, Numbers DEF Good, Published, serverVars
    <3>3. ASSUME NEW k \in Wire', OldTells(signals[k], t)'
          PROVE  k + 1 \in Wire /\ k + 1 # 1 /\ OldTells(signals[k + 1], t) /\ signals'[k] = signals[k + 1]
      BY <3>1, <3>3, TailStep DEF Wire
    <3>4. ASSUME NEW j \in Wire, j # 1, OldTells(signals[j], t), signals[j].rows[t] = Published(t),
                 revs'[t] <= signals[j].revision + 1,
                 \A k \in Wire : OldTells(signals[k], t) => signals[k].revision <= signals[j].revision
          PROVE  OldReached(t)'
      <4>1. j - 1 \in Wire' /\ signals'[j - 1] = signals[j]
        BY <3>4, TailStep DEF Wire
      <4>2. Last(signals[j - 1], t)'
        BY <3>1, <3>2, <3>3, <3>4, <4>1 DEF Last
      <4> QED BY <4>1, <4>2 DEF OldReached
    <3>5. CASE Last(s, t)
      <4>1. t \in s.about /\ revs[t] <= s.revision + 1
        BY <3>5 DEF Last, OldTells
      <4>2. revs'[t] = s.revision + 1 /\ held'[t] = Published(t)
        BY <1>3, <3>5, <4>1 DEF Last
      <4>3. CASE \E k \in Wire : k # 1 /\ OldTells(signals[k], t) /\ signals[k].revision = s.revision
        <5>1. PICK k \in Wire : k # 1 /\ OldTells(signals[k], t) /\ signals[k].revision = s.revision
          BY <4>3
        <5>2. Sound(signals[k]) /\ Sound(s)
          BY TailStep, SentSound DEF s, Wire
        <5>3. signals[k].rows[t] = s.rows[t]
          BY <1>4, <4>1, <5>1, <5>2 DEF Sound, OldTells
        <5> QED BY <1>4, <3>4, <3>5, <4>2, <5>1, <5>3 DEF Last
      <4>4. CASE \A k \in Wire : k # 1 /\ OldTells(signals[k], t) => signals[k].revision # s.revision
        <5>1. \A k \in Wire' : OldTells(signals[k], t)' => revs'[t] > signals'[k].revision + 1
          BY <1>4, <3>3, <3>5, <4>2, <4>4 DEF Last
        <5>2. Good(t)'
          BY <3>2, <4>2 DEF Good
        <5> QED BY <5>1, <5>2 DEF OldReached
      <4> QED BY <4>3, <4>4
    <3>6. CASE \E j \in Wire : j # 1 /\ Last(signals[j], t)
      <4>1. PICK j \in Wire : j # 1 /\ Last(signals[j], t)
        BY <3>6
      <4>2. t \in s.about => s.revision <= signals[j].revision
        BY <1>4, <4>1, TailStep DEF Last, OldTells, s
      <4>3. revs'[t] <= signals[j].revision + 1
        BY <1>3, <1>4, <4>1, <4>2 DEF Last
      <4> QED BY <3>4, <4>1, <4>3 DEF Last
    <3>7. CASE Good(t) /\ \A k \in Wire : OldTells(signals[k], t) => revs[t] > signals[k].revision + 1
      <4>1. t \in s.about => revs[t] > s.revision + 1
        BY <1>4, <3>7, TailStep DEF OldTells, s
      <4>2. revs'[t] = revs[t] /\ held'[t] = held[t]
        BY <1>3, <1>4, <3>2, <4>1
      <4> QED BY <3>2, <3>3, <3>7, <4>2 DEF OldReached
    <3> QED BY <2>2, <3>5, <3>6, <3>7 DEF OldReached, s
  <2> QED BY <1>3, <1>4, <2>1, <2>2 DEF CInv, OldWindow
<1> QED BY <1>7, <1>8, <1>9, <1>10, <1>11 DEF CInv

\* Before the first answer.
LEMMA DeliverBefore ==
  ASSUME IInv, CInv, Deliver, following, point = NoPoint
  PROVE  CInv'
<1> DEFINE s == signals[1]
<1>1. /\ UNCHANGED <<serverVars, following, realtime, status, unconnected, conn, held, revs, point, call, again>>
      /\ conn = "up" /\ early' = early \cup {s}
  BY TailStep DEF Deliver, SameEpoch, Window
<1>2. s.epoch = epoch /\ s.about \subseteq Threads /\ \A t \in s.about : Tells(s, t) /\ s.revision <= changed[t]
  BY TailStep, Numbers DEF CInv, SignalsTell, Tells
<1>3. ~Same /\ ~Same'
  BY <1>1 DEF Same
<1>4. \A t \in Threads : OnWire(t) => OnWire(t)' \/ (t \in s.about /\ s.revision = changed[t])
  BY DeliverWire DEF Tells
<1>5. \A t \in s.about : OnWire(t)
  BY <1>2, <1>3, TailStep DEF CInv, WireWhole, OnWire
<1> HIDE DEF s
<1>6. \A t \in Threads : InEarly(t) \/ OnWire(t) => InEarly(t)' \/ OnWire(t)'
  BY <1>1, <1>4 DEF InEarly, serverVars
<1>7. Keeping'
  BY <1>1, <1>3 DEF CInv, Keeping, Syncing, Answered, serverVars
<1>8. Logged' /\ WireWhole'
  BY DeliverWire
<1>9. SignalsTell'
  <2>1. point' = NoPoint => /\ \A i \in Wire' : signals'[i].epoch = epoch'
                            /\ \A e \in early' : e.epoch = epoch'
    BY <1>1, <1>2, TailStep DEF CInv, SignalsTell, Wire, serverVars
  <2> QED BY <1>1, <2>1, DeliverWire DEF SignalsTell, Wire
<1>10. EarlyWhole'
  <2>1. ASSUME NEW e \in early', NEW t \in e.about PROVE e.revision <= changed'[t] /\ (InEarly(t)' \/ OnWire(t)')
    <3>1. CASE e \in early
      BY <1>1, <1>6, <2>1, <3>1, Numbers DEF CInv, EarlyWhole, serverVars
    <3>2. CASE e = s
      BY <1>1, <1>2, <1>5, <1>6, <2>1, <3>2 DEF serverVars
    <3> QED BY <1>1, <3>1, <3>2
  <2> QED BY <2>1 DEF EarlyWhole
<1>11. FullAnswers'
  <2>1. ASSUME NEW t \in Threads, Follows(t) PROVE Follows(t)'
    BY <1>1, <1>6, <2>1 DEF Follows, Live
  <2> QED BY <1>1, <1>3, <2>1 DEF CInv, FullAnswers, Published, Answered, serverVars
<1>12. OldWindow' /\ RecordsReach'
  BY <1>1, <1>3 DEF OldWindow, RecordsReach
<1> QED BY <1>7, <1>8, <1>9, <1>10, <1>11, <1>12 DEF CInv

\* To nobody.
LEMMA DeliverDropped ==
  ASSUME IInv, CInv, Deliver, ~following
  PROVE  CInv'
<1>1. UNCHANGED <<serverVars, windowVars, conn, call>> /\ conn = "up"
  BY DEF Deliver, windowVars
<1>2. early = {} /\ ~Syncing /\ ~Live /\ ~Live' /\ ~Answered'
  BY <1>1 DEF CInv, Keeping, Live, Syncing, Answered, windowVars
<1>3. Keeping'
  BY <1>1 DEF CInv, Keeping, Syncing, Answered, Same, serverVars, windowVars
<1>4. Logged' /\ WireWhole'
  BY DeliverWire
<1>5. SignalsTell'
  <2>1. ~Same => \A i \in Wire' : signals'[i].epoch # epoch'
    BY <1>1, TailStep DEF CInv, SignalsTell, Wire, serverVars
  <2>2. point = NoPoint => \A i \in Wire' : signals'[i].epoch = epoch'
    BY <1>1, TailStep DEF CInv, SignalsTell, Wire, serverVars
  <2> QED BY <1>1, <1>2, <2>1, <2>2, DeliverWire DEF SignalsTell, Wire, windowVars
<1>6. EarlyWhole' /\ FullAnswers' /\ OldWindow'
  BY <1>1, <1>2 DEF EarlyWhole, FullAnswers, OldWindow, windowVars
<1>7. RecordsReach'
  <2> SUFFICES ASSUME Same, NEW t \in Threads PROVE Reached(t)'
    BY DeliverWire DEF RecordsReach
  <2>1. Still(t) => Still(t)'
    BY <1>1, DeliverWire DEF Still, Good, Published, Answered, serverVars, windowVars
  <2>2. (Covered(t) => Covered(t)') /\ (Lost(t) => Lost(t)')
    BY <1>1 DEF Covered, Lost, Live, Answered, serverVars, windowVars
  <2> QED BY <1>1, <2>1, <2>2 DEF CInv, RecordsReach, Reached, OnWire, serverVars, windowVars
<1> QED BY <1>3, <1>4, <1>5, <1>6, <1>7 DEF CInv

\* Of another start than the window's: it asks.
LEMMA DeliverOther ==
  ASSUME IInv, CInv, Deliver, following, point # NoPoint, signals[1].epoch # point.epoch
  PROVE  CInv'
<1>1. /\ UNCHANGED <<serverVars, following, realtime, status, unconnected, conn, held, revs, point, early>>
      /\ conn = "up" /\ RequestSync("missed")
  BY TailStep DEF Deliver, SameEpoch, Window
<1>2. early = {} /\ Syncing' /\ Same' = Same /\ Live /\ (Syncing => call' = call /\ again') /\ (~Syncing => call' = Sent(point))
  BY <1>1, DeliverWire DEF CInv, Keeping, RequestSync, Syncing, Sent, Live
<1>3. Keeping'
  <2>1. ASSUME call'.phase = "sent", Same PROVE call'.since.revision <= point.revision
    BY <1>2, <2>1, Numbers DEF CInv, Keeping, Sent, Same
  <2>2. call'.phase # "lost" /\ (Answered' => call'.answer.epoch = epoch)
    BY <1>2 DEF CInv, Keeping, Sent, Answered
  <2> QED BY <1>1, <1>2, <2>1, <2>2 DEF CInv, Keeping, serverVars
<1>4. Logged' /\ WireWhole'
  BY DeliverWire
<1>5. SignalsTell'
  BY <1>1, DeliverWire DEF SignalsTell, Wire
<1>6. EarlyWhole' /\ OldWindow'
  BY <1>1, <1>2 DEF EarlyWhole, OldWindow
<1>7. FullAnswers'
  <2> SUFFICES ASSUME ~Same, Answered' PROVE FullAnswers'
    BY <1>2 DEF FullAnswers
  <2>1. Answered /\ call' = call /\ again'
    BY <1>2 DEF Answered, Sent
  <2> QED BY <1>1, <2>1 DEF CInv, FullAnswers, Follows, Published, serverVars
<1>8. RecordsReach'
  <2> SUFFICES ASSUME Same, NEW t \in Threads PROVE Reached(t)'
    BY <1>2 DEF RecordsReach
  <2>1. ~Tells(signals[1], t)
    BY DEF Tells, Same
  <2>2. OnWire(t) => OnWire(t)'
    BY <2>1, DeliverWire
  <2>3. Answered' => Answered /\ call' = call
    BY <1>2 DEF Answered, Sent
  <2>4. Still(t) => Still(t)'
    BY <1>1, <2>3, DeliverWire DEF Still, Good, Published, serverVars
  <2>5. Covered(t) => Covered(t)'
    BY <1>1, <1>2 DEF Covered, Answered, Syncing, serverVars
  <2>6. ~Lost(t)
    BY <1>2 DEF Lost
  <2> QED BY <1>1, <2>2, <2>4, <2>5, <2>6 DEF CInv, RecordsReach, Reached, serverVars
<1> QED BY <1>3, <1>4, <1>5, <1>6, <1>7, <1>8 DEF CInv

LEMMA DeliverStep == IInv /\ CInv /\ Deliver => CInv'
<1> SUFFICES ASSUME IInv, CInv, Deliver PROVE CInv'
  OBVIOUS
<1>1. CASE following /\ point # NoPoint /\ signals[1].epoch = point.epoch
  BY <1>1, DeliverOurs, DeliverOld DEF Same
<1> QED BY <1>1, DeliverBefore, DeliverDropped, DeliverOther

-----------------------------------------------------------------------------
(***************************************************************************)
(* Faults, which come only while Calm.                                     *)
(***************************************************************************)
\* A window that no longer hears: what was on its way is lost, and it will ask.
LEMMA DeafStep ==
  ASSUME IInv, CInv, AnyTime = FALSE, Drop \/ Unmount
  PROVE  CInv'
<1>1. /\ UNCHANGED <<serverVars, held, revs, point, early, again, call>> /\ Calm /\ ~Live'
      /\ following' => following
      /\ status' # "current" /\ (unconnected' => following')
      /\ conn' = "down" => signals' = <<>> /\ (following' => realtime' = "down")
      /\ signals' = <<>> \/ signals' = signals
  BY DEF Drop, Unmount, Fault, Lose, HearDown, NotCurrent, Live, CInv, Keeping
<1>2. /\ ~Syncing /\ ~Syncing' /\ ~Answered' /\ early = {} /\ Same' = Same
      /\ \A i \in Wire : point # NoPoint /\ signals[i].epoch = point.epoch /\ signals[i].revision > point.revision
      /\ \A i \in Wire' : i \in Wire /\ signals'[i] = signals[i]
  BY <1>1 DEF Calm, Syncing, Answered, Same, SameEpoch, Window, Wire, serverVars, IInv, TypeOK
<1>3. Keeping'
  BY <1>1, <1>2 DEF CInv, Keeping, Syncing
<1>4. Logged'
  BY <1>1 DEF CInv, Logged, Published, serverVars
<1>5. SignalsTell'
  BY <1>1, <1>2 DEF CInv, SignalsTell, Same, Tells, serverVars
<1>6. WireWhole'
  <2>1. CASE signals' = <<>>
    BY <2>1 DEF WireWhole, Wire
  <2>2. CASE signals' = signals
    BY <1>1, <1>2, <2>2 DEF CInv, WireWhole, Tells, Wire, serverVars
  <2> QED BY <1>1, <2>1, <2>2
<1>7. EarlyWhole' /\ FullAnswers' /\ OldWindow'
  BY <1>1, <1>2 DEF EarlyWhole, FullAnswers, OldWindow
<1>8. RecordsReach'
  <2> SUFFICES ASSUME Same, NEW t \in Threads PROVE Reached(t)'
    BY <1>2 DEF RecordsReach
  <2>1. Still(t) => Still(t)'
    BY <1>1, <1>2 DEF Still, Good, Published, Tells, serverVars
  <2>2. Lost(t) \/ OnWire(t) => Lost(t)'
    BY <1>1, <1>2 DEF Lost, OnWire, serverVars
  <2>3. ~Covered(t)
    BY <1>2 DEF Covered, Answered, Syncing
  <2> QED BY <1>1, <2>1, <2>2, <2>3 DEF CInv, RecordsReach, Reached, serverVars
<1> QED BY <1>3, <1>4, <1>5, <1>6, <1>7, <1>8 DEF CInv

\* A server start.
LEMMA StartLog ==
  ASSUME IInv, CInv, Start
  PROVE  /\ Logged' /\ revision' = 0 /\ epoch' = epoch + 1 /\ \A t \in Threads : Published(t)' = rows[t]
<1>1. log'[epoch + 1] = [r \in Revisions |-> rows] /\ 0 \in Revisions /\ Revisions \subseteq Nat
  BY BoundsAssumption DEF Start, IInv, TypeOK, Epochs, Revisions
<1>2. \A t \in Threads, r \in Revisions : log'[epoch'][r][t] = rows[t]
  BY <1>1 DEF Start
<1>3. \A t \in Threads : Published(t)' = rows[t]
  BY <1>1, <1>2 DEF Start, Published
<1>4. known' \subseteq archived' /\ \A t \in Threads : changed'[t] <= revision'
  BY DEF Start
<1> QED BY <1>2, <1>3, <1>4 DEF Start, Logged

LEMMA StartRest ==
  ASSUME IInv, CInv, Start, Calm, UNCHANGED <<held, revs, point, early, following, again, call>>,
         signals' = signals \/ signals' = <<>>,
         Keeping', OldWindow'
  PROVE  CInv'
<1>1. epoch' = epoch + 1 /\ epoch \in Nat /\ Logged'
  BY StartLog, Numbers
<1>2. ~Same'
  BY <1>1, Numbers DEF Same
<1>3. \A i \in Wire' : i \in Wire /\ signals'[i] = signals[i] /\ signals'[i].epoch < epoch' /\ point # NoPoint
  BY <1>1, Numbers DEF Wire, Calm, SameEpoch, Window, IInv, TypeOK
<1>4. ~Answered' /\ early' = {}
  BY DEF Calm, Syncing, Answered
<1>5. \A i \in Wire' : signals'[i].epoch # epoch'
  BY <1>1, <1>3, Numbers
<1>6. SignalsTell'
  BY <1>3, <1>4, <1>5 DEF SignalsTell, Tells
<1>7. WireWhole' /\ EarlyWhole' /\ FullAnswers' /\ RecordsReach'
  BY <1>2, <1>4, <1>5 DEF WireWhole, EarlyWhole, FullAnswers, RecordsReach, Tells
<1> QED BY <1>1, <1>6, <1>7 DEF CInv

\* A record held at a revision past the last change of its thread is the one published last.
LEMMA HeldPublished ==
  ASSUME IInv, CInv, Same, NEW t \in Threads, revs[t] > changed[t]
  PROVE  Good(t)
<1>1. revs[t] \in Nat /\ changed[t] \in Nat /\ revs[t] # 0 /\ revs[t] - 1 >= changed[t]
  BY Numbers
<1>2. revs[t] - 1 \in Revisions
  BY <1>1, BoundsAssumption DEF IInv, TypeOK, Revisions
<1>3. held[t] = log[epoch][revs[t] - 1][t]
  BY <1>1 DEF IInv, WindowSound, Window, Same
<1>4. log[epoch][revs[t] - 1][t] = Published(t)
  BY <1>1, <1>2 DEF CInv, Logged
<1> QED BY <1>3, <1>4 DEF Good

\* What a window has of the start that ends.
LEMMA OldOfReached ==
  ASSUME IInv, CInv, Same, Live, ~Syncing, NEW t \in Threads
  PROVE  OldReached(t)
<1>1. /\ \A x : OldTells(x, t) <=> Tells(x, t)
      /\ \A k \in Wire : signals[k].revision \in Nat /\ (Tells(signals[k], t) => signals[k].revision <= changed[t])
      /\ changed[t] \in Nat /\ changed[t] \in Revisions /\ revs[t] \in Nat
  BY Numbers DEF OldTells, Tells, Same, CInv, SignalsTell
<1>2. CASE Still(t)
  BY <1>1, <1>2 DEF Still, OldReached
<1>3. ASSUME NEW k \in Wire, Tells(signals[k], t), signals[k].revision = changed[t], revs[t] <= changed[t] + 1
      PROVE  OldReached(t)
  <2>1. signals[k].rows[t] = log[epoch][changed[t]][t]
    <3>1. Sound(signals[k])
      BY SentSound DEF Wire
    <3> QED BY <1>3, <3>1 DEF Sound, Tells
  <2>2. log[epoch][changed[t]][t] = Published(t)
    BY <1>1 DEF CInv, Logged
  <2>3. Last(signals[k], t)
    BY <1>1, <1>3, <2>1, <2>2 DEF Last
  <2> QED BY <2>3 DEF OldReached
<1>4. CASE revs[t] > changed[t]
  <2>1. Good(t)
    BY <1>4, HeldPublished
  <2>2. CASE \E k \in Wire : Tells(signals[k], t) /\ ~(revs[t] > signals[k].revision + 1)
    <3>1. PICK k \in Wire : Tells(signals[k], t) /\ ~(revs[t] > signals[k].revision + 1)
      BY <2>2
    <3>2. signals[k].revision = changed[t] /\ revs[t] <= changed[t] + 1
      BY <1>1, <1>4, <3>1
    <3> QED BY <1>3, <3>1, <3>2
  <2>3. CASE \A k \in Wire : Tells(signals[k], t) => revs[t] > signals[k].revision + 1
    BY <1>1, <2>1, <2>3 DEF OldReached
  <2> QED BY <2>2, <2>3
<1>5. CASE OnWire(t) /\ ~(revs[t] > changed[t])
  <2>1. revs[t] <= changed[t] + 1
    BY <1>1, <1>5
  <2> QED BY <1>3, <1>5, <2>1 DEF OnWire
<1>6. ~Covered(t) /\ ~Lost(t)
  BY DEF Covered, Lost, Answered, Syncing
<1> QED BY <1>2, <1>4, <1>5, <1>6 DEF CInv, RecordsReach, Reached

LEMMA ReloadStep ==
  ASSUME IInv, CInv, AnyTime = FALSE, Reload
  PROVE  CInv'
<1>1. Start /\ Calm /\ touched = {} /\ UNCHANGED <<windowVars, conn, signals, call>>
  BY DEF Reload, Fault
<1>2. ~Syncing /\ ~Answered /\ call.phase # "sent"
  BY <1>1 DEF Calm, Syncing, Answered
<1>3. Keeping'
  BY <1>1, <1>2 DEF CInv, Keeping, Syncing, Answered, windowVars
<1>4. OldWindow'
  <2> SUFFICES ASSUME point # NoPoint, Live, NEW t \in Threads PROVE OldReached(t)'
    BY <1>1, StartLog DEF OldWindow, Live, windowVars
  <2>1. OldReached(t)
    <3>1. CASE Same
      BY <1>2, <3>1, OldOfReached
    <3>2. CASE ~Same
      <4>1. \A i \in Wire : signals[i].epoch # epoch
        BY <1>1, <3>2 DEF Calm, SameEpoch, Window, Same, Wire, IInv, TypeOK
      <4> QED BY <1>2, <3>2, <4>1 DEF CInv, OldWindow, Same
    <3> QED BY <3>1, <3>2
  <2>2. Published(t)' = Published(t)
    <3>1. revision \in Revisions /\ revision >= revision
      BY Numbers
    <3>2. rows[t] = Published(t)
      BY <1>1, <3>1 DEF IInv, LogIsNow, Published
    <3> QED BY <1>1, <3>2, StartLog
  <2> QED BY <1>1, <2>1, <2>2 DEF OldReached, Last, OldTells, Good, Wire, windowVars, Start
<1> QED BY <1>1, <1>3, <1>4, StartRest DEF windowVars

LEMMA CrashStep ==
  ASSUME IInv, CInv, AnyTime = FALSE, Crash
  PROVE  CInv'
<1>1. /\ Start /\ Calm /\ UNCHANGED <<held, revs, point, early, following, again>> /\ conn' = "down" /\ signals' = <<>>
      /\ status' # "current" /\ (unconnected' => following') /\ (following' => realtime' = "down")
  BY DEF Crash, Fault, Lose, HearDown, NotCurrent, CInv, Keeping
<1>2. ~Syncing /\ call' = call
  BY <1>1 DEF Crash, Calm, Syncing
<1>3. Keeping'
  BY <1>1, <1>2 DEF CInv, Keeping, Syncing, Answered, Calm
<1>4. OldWindow'
  BY <1>1 DEF OldWindow, Live
<1> QED BY <1>1, <1>2, <1>3, <1>4, StartRest

-----------------------------------------------------------------------------
(***************************************************************************)
(* What a window shows as current is what the server stores.               *)
(***************************************************************************)
LEMMA InitCInv == Init => CInv
<1> SUFFICES ASSUME Init PROVE CInv
  OBVIOUS
<1>1. ~Same /\ ~Answered /\ Wire = {} /\ early = {} /\ point = NoPoint
  BY DEF Init, Same, Answered, Wire
<1>2. Keeping
  BY <1>1 DEF Init, Keeping, Syncing
<1>3. Logged
  <2>1. \A r \in Revisions : log[1][r] = rows
    BY BoundsAssumption DEF Init, Epochs
  <2>2. 0 \in Revisions
    BY BoundsAssumption DEF Revisions
  <2> QED BY <2>1, <2>2 DEF Init, Logged, Published
<1>4. SignalsTell /\ WireWhole /\ EarlyWhole /\ FullAnswers /\ OldWindow /\ RecordsReach
  BY <1>1 DEF SignalsTell, WireWhole, EarlyWhole, FullAnswers, OldWindow, RecordsReach
<1> QED BY <1>2, <1>3, <1>4 DEF CInv

LEMMA NextCInv == AnyTime = FALSE /\ IInv /\ CInv /\ [Next]_vars => CInv'
<1> SUFFICES ASSUME AnyTime = FALSE, IInv, CInv, [Next]_vars PROVE CInv'
  OBVIOUS
<1>1. ASSUME \/ \E t \in Threads, row \in RowOrNone : Write(t, row)
             \/ \E t \in Archivable : Archive(t)
             \/ \E t \in Archivable : Unarchive(t)
             \/ Listed \/ EndChange \/ UNCHANGED vars
      PROVE  CInv'
  BY <1>1, QuietSteps, PublishSteps
<1>2. CASE Answer \/ Land \/ Deliver
  BY <1>2, AnswerStep, LandStep, DeliverStep
<1>3. CASE Fail \/ FailLost \/ RetryFires \/ Reconnect \/ UnconnectedFires \/ Mount
  BY <1>3, FailStep, AskSteps
<1>4. CASE Drop \/ Unmount \/ Reload \/ Crash
  BY <1>4, DeafStep, ReloadStep, CrashStep
<1> QED BY <1>1, <1>2, <1>3, <1>4 DEF Next

LEMMA SettledIsCurrent == IInv /\ CInv => CurrentIsCurrent
<1> SUFFICES ASSUME IInv, CInv, Settled, NEW t \in Threads \ archived PROVE held[t] = rows[t]
  BY DEF CurrentIsCurrent
<1>1. Live /\ point # NoPoint /\ ~Syncing /\ touched = {} /\ Wire = {}
  BY DEF Settled, Live, CInv, Keeping, Wire
<1>2. Good(t)
  <2>1. CASE Same
    <3>1. revs[t] > changed[t] \/ Still(t)
      BY <1>1, <2>1 DEF CInv, RecordsReach, Reached, OnWire, Covered, Lost, Answered, Syncing
    <3> QED BY <2>1, <3>1, HeldPublished DEF Still
  <2>2. CASE ~Same
    BY <1>1, <2>2 DEF CInv, OldWindow, OldReached, Same
  <2> QED BY <2>1, <2>2
<1>3. Published(t) = rows[t]
  <2>1. revision \in Revisions /\ revision >= revision
    BY Numbers
  <2> QED BY <1>1, <2>1 DEF IInv, LogIsNow, Published
<1> QED BY <1>2, <1>3 DEF Good

\* While the connection, the keeper and the server change only with no sync in
\* flight and no old signal on its way, what a window shows as current, with
\* nothing on its way, is what the server stores: signals, answers, retries and
\* the follow-up sync between them lose no change.
THEOREM CurrentIsTrue == AnyTime = FALSE => (Spec => []CurrentIsCurrent)
<1> SUFFICES ASSUME AnyTime = FALSE PROVE Spec => []CurrentIsCurrent
  OBVIOUS
<1>1. Init => IInv /\ CInv
  BY InitIInv, InitCInv
<1>2. (IInv /\ CInv) /\ [Next]_vars => (IInv /\ CInv)'
  BY NextIInv, NextCInv
<1>3. IInv /\ CInv => CurrentIsCurrent
  BY SettledIsCurrent
<1> QED BY <1>1, <1>2, <1>3, PTL DEF Spec
=============================================================================
