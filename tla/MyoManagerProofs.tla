--------------------------- MODULE MyoManagerProofs ---------------------------
(***************************************************************************)
(* Proofs about the recording thread, for any number of tries, passes and  *)
(* batches. The invariant relates the rows kept to the pass the thread is  *)
(* in: `Taken' is the last pass the thread has finished with.              *)
(***************************************************************************)
EXTENDS MyoManager, SequenceTheorems, TLAPS

Taken == IF pc \in {"check", "lock"} THEN heard - 1 ELSE heard

Typed == TypeOK /\ (pc = "waiting" => tries < MaxTry)

LoopInv ==
  (mLoop /\ pc \in {"ending", "finish", "none"} /\ ui # "starting") => lateStart

ButtonInv ==
  IF events = <<>> THEN button <=> ~Announced ELSE events[Len(events)] = "up" <=> Announced

CallbackInv ==
  /\ CallbackDue
  /\ mSizeNext > 0 => mSizeData > 0

RowsInv ==
  /\ \A i \in 1..Len(mDatas) : mDatas[i] = mDatas[1] + i - 1
  /\ (mRecording # "NO_REC" \/ pc = "lock") /\ mDatas # <<>>
       => mDatas[Len(mDatas)] = Taken

RecordedInv ==
  mRecording = "LIST_REC" /\ mSizeNext = 0 =>
    IF mDatas = <<>> THEN startedAt \in {Taken, Taken + 1} /\ startedAt <= heard
    ELSE mDatas[1] \in {startedAt, startedAt + 1}

CopiedInv ==
  ui = "copying" /\ mSizeNext = 0 /\ ~raced =>
    IF mDatas = <<>> THEN endedAt <= startedAt + 1
    ELSE /\ mDatas[1] \in {startedAt, startedAt + 1}
         /\ mDatas[Len(mDatas)] \in {endedAt - 1, endedAt}

DialogInv == ui = "recording" => mRecording # "NO_REC"

Inv == /\ Typed /\ LoopInv /\ ButtonInv /\ CallbackInv
       /\ RowsInv /\ RecordedInv /\ CopiedInv /\ DialogInv

\* Appending a row keeps the type of the rows.
LEMMA AppendType ==
    ASSUME TypeOK
    PROVE  /\ Append(mDatas, heard) \in Seq(Nat)
           /\ Len(Append(mDatas, heard)) \in Nat
  BY AppendProperties, LenProperties DEF TypeOK


\* Types, with the count of tries below its bound while the thread waits.
LEMMA TypeStep ==
    ASSUME Typed, [Next]_vars
    PROVE  Typed'
<1>1. CASE OpenHub
  <2>1. tries' \in 0..MaxTry
    BY <1>1, ManagerConstants DEF OpenHub
  <2>2. mMyoHub' \in BOOLEAN
    BY <1>1, Zenon DEF OpenHub
  <2>3. QED
    BY <1>1, <2>1, <2>2 DEF OpenHub, Typed, TypeOK, Places, MoreTries, Goto, thread, link, rec, window, history
<1>2. CASE TryMyo
  BY <1>2, ManagerConstants DEF TryMyo, Typed, TypeOK, Places, MoreTries, Goto, thread, link, rec, window, history
<1>3. CASE MyoAnswers
  <2>1. tries' \in 0..MaxTry
    BY <1>3, ManagerConstants DEF MyoAnswers, Typed, TypeOK, Goto
  <2>2. mMyo' \in BOOLEAN
    BY <1>3, Zenon DEF MyoAnswers
  <2>3. QED
    BY <1>3, <2>1, <2>2 DEF MyoAnswers, Typed, TypeOK, Places, MoreTries, Goto, thread, link, rec, window, history
<1>4. CASE MyoFound
  BY <1>4 DEF MyoFound, Typed, TypeOK, Places, MoreTries, Goto, thread, link, rec, window, history
<1>5. CASE MyoMissing
  BY <1>5 DEF MyoMissing, Typed, TypeOK, Places, MoreTries, Goto, thread, link, rec, window, history
<1>6. CASE HubRun
  BY <1>6 DEF HubRun, Typed, TypeOK, Places, MoreTries, Goto, thread, link, rec, window, history
<1>7. CASE LoopEnds
  BY <1>7 DEF LoopEnds, Typed, TypeOK, Places, MoreTries, Goto, thread, link, rec, window, history
<1>8. CASE CheckRecording
  BY <1>8 DEF CheckRecording, Typed, TypeOK, Places, MoreTries, Goto, thread, link, rec, window, history
<1>9. CASE AppendRow
  <2>1. mDatas' = Append(mDatas, heard) \/ mDatas' = <<>>
    BY <1>9, Zenon DEF AppendRow
  <2>2. mDatas' \in Seq(Nat) /\ Len(mDatas') \in Nat
    BY <2>1, AppendType, EmptySeq DEF Typed
  <2>3. mSizeNext' = mSizeNext \/ mSizeNext' = mSizeData + Len(mDatas')
    BY <1>9, Zenon DEF AppendRow
  <2>4. mSizeNext' \in Nat
    BY <2>2, <2>3 DEF Typed, TypeOK
  <2>5. raced' \in BOOLEAN
    BY <1>9, Zenon DEF AppendRow
  <2>6. QED
    BY <1>9, <2>2, <2>4, <2>5 DEF AppendRow, Typed, TypeOK, Places, MoreTries, Goto, thread, link, rec, window, history
<1>10. CASE CloseLoop
  BY <1>10 DEF CloseLoop, Typed, TypeOK, Places, MoreTries, Goto, thread, link, rec, window, history
<1>11. CASE SayDisconnected
  <2>1. events' \in Seq({"up", "down"})
    BY <1>11, AppendProperties DEF SayDisconnected, Typed, TypeOK
  <2>2. QED
    BY <1>11, <2>1 DEF SayDisconnected, Typed, TypeOK, Places, MoreTries, Goto, thread, link, rec, window, history
<1>12. CASE Finish
  BY <1>12 DEF Finish, Typed, TypeOK, Places, MoreTries, Goto, thread, link, rec, window, history
<1>13. CASE ConnectionSlot
  BY <1>13 DEF ConnectionSlot, Typed, TypeOK, Places, MoreTries, Goto, thread, link, rec, window, history
<1>14. CASE TryToConnect
  BY <1>14 DEF TryToConnect, Typed, TypeOK, Places, MoreTries, Goto, thread, link, rec, window, history
<1>15. CASE StartThread
  BY <1>15 DEF StartThread, Typed, TypeOK, Places, MoreTries, Goto, thread, link, rec, window, history
<1>16. CASE StartRecording
  <2>1. mDatas' \in Seq(Nat)
    BY <1>16 DEF StartRecording, BeginRecording
  <2>2. raced' \in BOOLEAN
    BY <1>16, Zenon DEF StartRecording, BeginRecording
  <2>3. QED
    BY <1>16, <2>1, <2>2 DEF StartRecording, BeginRecording, Typed, TypeOK, Places, MoreTries, Goto, thread, link, rec, window, history
<1>17. ASSUME NEW n \in Batches, StartCallback(n) PROVE Typed'
  <2>1. mDatas' \in Seq(Nat) /\ n \in Nat
    BY <1>17, ManagerConstants DEF StartCallback, BeginRecording
  <2>2. raced' \in BOOLEAN
    BY <1>17, Zenon DEF StartCallback, BeginRecording
  <2>3. QED
    BY <1>17, <2>1, <2>2 DEF StartCallback, BeginRecording, Typed, TypeOK, Places, MoreTries, Goto, thread, link, rec, window, history
<1>18. CASE EndRecording
  BY <1>18 DEF EndRecording, Typed, TypeOK, Places, MoreTries, Goto, thread, link, rec, window, history
<1>19. CASE CopyRows
  <2>1. sample' = mDatas \/ sample' = <<>>
    BY <1>19, Zenon DEF CopyRows
  <2>2. sample' \in Seq(Nat)
    BY <2>1, EmptySeq DEF Typed, TypeOK
  <2>3. QED
    BY <1>19, <2>2 DEF CopyRows, Typed, TypeOK, Places, MoreTries, Goto, thread, link, rec, window, history
<1>20. CASE CancelRecording
  BY <1>20 DEF CancelRecording, Typed, TypeOK, Places, MoreTries, Goto, thread, link, rec, window, history
<1>21. CASE CloseWindow
  BY <1>21 DEF CloseWindow, Typed, TypeOK, Places, MoreTries, Goto, thread, link, rec, window, history
<1>22. CASE ThreadJoined
  BY <1>22 DEF ThreadJoined, Typed, TypeOK, Places, MoreTries, Goto, thread, link, rec, window, history
<1>23. CASE UNCHANGED vars
  BY <1>23 DEF vars, Typed, TypeOK, Places, MoreTries, Goto, thread, link, rec, window, history
<1>24. QED
  BY <1>1, <1>2, <1>3, <1>4, <1>5, <1>6, <1>7, <1>8, <1>9, <1>10, <1>11, <1>12, <1>13, <1>14, <1>15, <1>16, <1>17, <1>18, <1>19, <1>20, <1>21, <1>22, <1>23 DEF Next, Run, Window

\* mLoop is set with no thread only after a late QThread::start.
LEMMA LoopStep ==
    ASSUME TypeOK, LoopInv, [Next]_vars
    PROVE  LoopInv'
<1>1. CASE OpenHub
  BY <1>1 DEF OpenHub, TypeOK, LoopInv, isRunning, Goto, thread, link, rec, window, history
<1>2. CASE TryMyo
  BY <1>2 DEF TryMyo, TypeOK, LoopInv, isRunning, Goto, thread, link, rec, window, history
<1>3. CASE MyoAnswers
  BY <1>3 DEF MyoAnswers, TypeOK, LoopInv, isRunning, Goto, thread, link, rec, window, history
<1>4. CASE MyoFound
  BY <1>4 DEF MyoFound, TypeOK, LoopInv, isRunning, Goto, thread, link, rec, window, history
<1>5. CASE MyoMissing
  BY <1>5 DEF MyoMissing, TypeOK, LoopInv, isRunning, Goto, thread, link, rec, window, history
<1>6. CASE HubRun
  BY <1>6 DEF HubRun, TypeOK, LoopInv, isRunning, Goto, thread, link, rec, window, history
<1>7. CASE LoopEnds
  BY <1>7 DEF LoopEnds, TypeOK, LoopInv, isRunning, Goto, thread, link, rec, window, history
<1>8. CASE CheckRecording
  BY <1>8 DEF CheckRecording, TypeOK, LoopInv, isRunning, Goto, thread, link, rec, window, history
<1>9. CASE AppendRow
  BY <1>9 DEF AppendRow, TypeOK, LoopInv, isRunning, Goto, thread, link, rec, window, history
<1>10. CASE CloseLoop
  BY <1>10 DEF CloseLoop, TypeOK, LoopInv, isRunning, Goto, thread, link, rec, window, history
<1>11. CASE SayDisconnected
  BY <1>11 DEF SayDisconnected, TypeOK, LoopInv, isRunning, Goto, thread, link, rec, window, history
<1>12. CASE Finish
  BY <1>12 DEF Finish, TypeOK, LoopInv, isRunning, Goto, thread, link, rec, window, history
<1>13. CASE ConnectionSlot
  BY <1>13 DEF ConnectionSlot, TypeOK, LoopInv, isRunning, Goto, thread, link, rec, window, history
<1>14. CASE TryToConnect
  BY <1>14 DEF TryToConnect, TypeOK, LoopInv, isRunning, Goto, thread, link, rec, window, history
<1>15. CASE StartThread
  BY <1>15 DEF StartThread, TypeOK, LoopInv, isRunning, Goto, thread, link, rec, window, history
<1>16. CASE StartRecording
  BY <1>16 DEF StartRecording, BeginRecording, TypeOK, LoopInv, isRunning, Goto, thread, link, rec, window, history
<1>17. ASSUME NEW n \in Batches, StartCallback(n) PROVE LoopInv'
  BY <1>17, ManagerConstants DEF StartCallback, BeginRecording, TypeOK, LoopInv, isRunning, Goto, thread, link, rec, window, history
<1>18. CASE EndRecording
  BY <1>18 DEF EndRecording, TypeOK, LoopInv, isRunning, Goto, thread, link, rec, window, history
<1>19. CASE CopyRows
  BY <1>19 DEF CopyRows, TypeOK, LoopInv, isRunning, Goto, thread, link, rec, window, history
<1>20. CASE CancelRecording
  BY <1>20 DEF CancelRecording, TypeOK, LoopInv, isRunning, Goto, thread, link, rec, window, history
<1>21. CASE CloseWindow
  BY <1>21 DEF CloseWindow, TypeOK, LoopInv, isRunning, Goto, thread, link, rec, window, history
<1>22. CASE ThreadJoined
  BY <1>22 DEF ThreadJoined, TypeOK, LoopInv, isRunning, Goto, thread, link, rec, window, history
<1>23. CASE UNCHANGED vars
  BY <1>23 DEF vars, TypeOK, LoopInv, isRunning, Goto, thread, link, rec, window, history
<1>24. QED
  BY <1>1, <1>2, <1>3, <1>4, <1>5, <1>6, <1>7, <1>8, <1>9, <1>10, <1>11, <1>12, <1>13, <1>14, <1>15, <1>16, <1>17, <1>18, <1>19, <1>20, <1>21, <1>22, <1>23 DEF Next, Run, Window

\* The last queued signal, or else the button, tells whether a Myo is announced.
LEMMA ButtonStep ==
    ASSUME TypeOK, ButtonInv, [Next]_vars
    PROVE  ButtonInv'
<1>1. CASE OpenHub
  BY <1>1 DEF OpenHub, TypeOK, ButtonInv, Announced, Goto, thread, link, rec, window, history
<1>2. CASE TryMyo
  BY <1>2 DEF TryMyo, TypeOK, ButtonInv, Announced, Goto, thread, link, rec, window, history
<1>3. CASE MyoAnswers
  BY <1>3 DEF MyoAnswers, TypeOK, ButtonInv, Announced, Goto, thread, link, rec, window, history
<1>4. CASE MyoFound
  BY <1>4 DEF MyoFound, TypeOK, ButtonInv, Announced, Goto, thread, link, rec, window, history
<1>5. CASE MyoMissing
  BY <1>5 DEF MyoMissing, TypeOK, ButtonInv, Announced, Goto, thread, link, rec, window, history
<1>6. CASE HubRun
  BY <1>6 DEF HubRun, TypeOK, ButtonInv, Announced, Goto, thread, link, rec, window, history
<1>7. CASE LoopEnds
  BY <1>7 DEF LoopEnds, TypeOK, ButtonInv, Announced, Goto, thread, link, rec, window, history
<1>8. CASE CheckRecording
  BY <1>8 DEF CheckRecording, TypeOK, ButtonInv, Announced, Goto, thread, link, rec, window, history
<1>9. CASE AppendRow
  BY <1>9 DEF AppendRow, TypeOK, ButtonInv, Announced, Goto, thread, link, rec, window, history
<1>10. CASE CloseLoop
  BY <1>10 DEF CloseLoop, TypeOK, ButtonInv, Announced, Goto, thread, link, rec, window, history
<1>11. CASE SayDisconnected
  BY <1>11 DEF SayDisconnected, TypeOK, ButtonInv, Announced, Goto, thread, link, rec, window, history
<1>12. CASE Finish
  BY <1>12 DEF Finish, TypeOK, ButtonInv, Announced, Goto, thread, link, rec, window, history
<1>13. CASE ConnectionSlot
  <2>1. /\ events # <<>> /\ events' = Tail(events)
        /\ button' = (Head(events) = "down") /\ Announced' = Announced
    BY <1>13 DEF ConnectionSlot, Announced, thread, link
  <2>2. /\ Len(events) \in Nat \ {0} /\ Head(events) = events[1]
        /\ Head(events) \in {"up", "down"}
    BY <2>1, HeadTailProperties, EmptySeq DEF TypeOK
  <2>3. CASE Tail(events) = <<>>
    <3>1. Len(events) = 1
      <4>1. Len(Tail(events)) = 0
        BY <2>3, EmptySeq, Zenon
      <4>2. Len(Tail(events)) = Len(events) - 1
        BY <2>1, HeadTailProperties DEF TypeOK
      <4>3. QED
        BY <2>2, <4>1, <4>2
    <3>2. Head(events) = "up" <=> Announced
      BY <2>1, <2>2, <3>1 DEF ButtonInv
    <3>3. button' <=> ~Announced'
      BY <2>1, <2>2, <3>2, Zenon
    <3>4. QED
      BY <2>1, <2>3, <3>3 DEF ButtonInv
  <2>4. CASE Tail(events) # <<>>
    <3>1. /\ Len(Tail(events)) = Len(events) - 1 /\ Len(Tail(events)) \in Nat \ {0}
          /\ Tail(events)[Len(Tail(events))] = events[Len(events)]
      BY <2>1, <2>2, <2>4, HeadTailProperties, EmptySeq DEF TypeOK
    <3>2. QED
      BY <2>1, <2>4, <3>1 DEF ButtonInv
  <2>5. QED
    BY <2>3, <2>4
<1>14. CASE TryToConnect
  BY <1>14 DEF TryToConnect, TypeOK, ButtonInv, Announced, Goto, thread, link, rec, window, history
<1>15. CASE StartThread
  BY <1>15 DEF StartThread, TypeOK, ButtonInv, Announced, Goto, thread, link, rec, window, history
<1>16. CASE StartRecording
  BY <1>16 DEF StartRecording, BeginRecording, TypeOK, ButtonInv, Announced, Goto, thread, link, rec, window, history
<1>17. ASSUME NEW n \in Batches, StartCallback(n) PROVE ButtonInv'
  BY <1>17, ManagerConstants DEF StartCallback, BeginRecording, TypeOK, ButtonInv, Announced, Goto, thread, link, rec, window, history
<1>18. CASE EndRecording
  BY <1>18 DEF EndRecording, TypeOK, ButtonInv, Announced, Goto, thread, link, rec, window, history
<1>19. CASE CopyRows
  BY <1>19 DEF CopyRows, TypeOK, ButtonInv, Announced, Goto, thread, link, rec, window, history
<1>20. CASE CancelRecording
  BY <1>20 DEF CancelRecording, TypeOK, ButtonInv, Announced, Goto, thread, link, rec, window, history
<1>21. CASE CloseWindow
  BY <1>21 DEF CloseWindow, TypeOK, ButtonInv, Announced, Goto, thread, link, rec, window, history
<1>22. CASE ThreadJoined
  BY <1>22 DEF ThreadJoined, TypeOK, ButtonInv, Announced, Goto, thread, link, rec, window, history
<1>23. CASE UNCHANGED vars
  BY <1>23 DEF vars, TypeOK, ButtonInv, Announced, Goto, thread, link, rec, window, history
<1>24. QED
  BY <1>1, <1>2, <1>3, <1>4, <1>5, <1>6, <1>7, <1>8, <1>9, <1>10, <1>11, <1>12, <1>13, <1>14, <1>15, <1>16, <1>17, <1>18, <1>19, <1>20, <1>21, <1>22, <1>23 DEF Next, Run, Window

\* The next callback of a callback recording is ahead, and within reach.
LEMMA CallbackStep ==
    ASSUME TypeOK, CallbackInv, [Next]_vars
    PROVE  CallbackInv'
<1>1. CASE OpenHub
  BY <1>1 DEF OpenHub, TypeOK, CallbackInv, CallbackDue, Goto, thread, link, rec, window, history
<1>2. CASE TryMyo
  BY <1>2 DEF TryMyo, TypeOK, CallbackInv, CallbackDue, Goto, thread, link, rec, window, history
<1>3. CASE MyoAnswers
  BY <1>3 DEF MyoAnswers, TypeOK, CallbackInv, CallbackDue, Goto, thread, link, rec, window, history
<1>4. CASE MyoFound
  BY <1>4 DEF MyoFound, TypeOK, CallbackInv, CallbackDue, Goto, thread, link, rec, window, history
<1>5. CASE MyoMissing
  BY <1>5 DEF MyoMissing, TypeOK, CallbackInv, CallbackDue, Goto, thread, link, rec, window, history
<1>6. CASE HubRun
  BY <1>6 DEF HubRun, TypeOK, CallbackInv, CallbackDue, Goto, thread, link, rec, window, history
<1>7. CASE LoopEnds
  BY <1>7 DEF LoopEnds, TypeOK, CallbackInv, CallbackDue, Goto, thread, link, rec, window, history
<1>8. CASE CheckRecording
  BY <1>8 DEF CheckRecording, TypeOK, CallbackInv, CallbackDue, Goto, thread, link, rec, window, history
<1>9. CASE AppendRow
  BY <1>9 DEF AppendRow, TypeOK, CallbackInv, CallbackDue, Goto, thread, link, rec, window, history
<1>10. CASE CloseLoop
  BY <1>10 DEF CloseLoop, TypeOK, CallbackInv, CallbackDue, Goto, thread, link, rec, window, history
<1>11. CASE SayDisconnected
  BY <1>11 DEF SayDisconnected, TypeOK, CallbackInv, CallbackDue, Goto, thread, link, rec, window, history
<1>12. CASE Finish
  BY <1>12 DEF Finish, TypeOK, CallbackInv, CallbackDue, Goto, thread, link, rec, window, history
<1>13. CASE ConnectionSlot
  BY <1>13 DEF ConnectionSlot, TypeOK, CallbackInv, CallbackDue, Goto, thread, link, rec, window, history
<1>14. CASE TryToConnect
  BY <1>14 DEF TryToConnect, TypeOK, CallbackInv, CallbackDue, Goto, thread, link, rec, window, history
<1>15. CASE StartThread
  BY <1>15 DEF StartThread, TypeOK, CallbackInv, CallbackDue, Goto, thread, link, rec, window, history
<1>16. CASE StartRecording
  BY <1>16 DEF StartRecording, BeginRecording, TypeOK, CallbackInv, CallbackDue, Goto, thread, link, rec, window, history
<1>17. ASSUME NEW n \in Batches, StartCallback(n) PROVE CallbackInv'
  BY <1>17, ManagerConstants DEF StartCallback, BeginRecording, TypeOK, CallbackInv, CallbackDue, Goto, thread, link, rec, window, history
<1>18. CASE EndRecording
  BY <1>18 DEF EndRecording, TypeOK, CallbackInv, CallbackDue, Goto, thread, link, rec, window, history
<1>19. CASE CopyRows
  BY <1>19 DEF CopyRows, TypeOK, CallbackInv, CallbackDue, Goto, thread, link, rec, window, history
<1>20. CASE CancelRecording
  BY <1>20 DEF CancelRecording, TypeOK, CallbackInv, CallbackDue, Goto, thread, link, rec, window, history
<1>21. CASE CloseWindow
  BY <1>21 DEF CloseWindow, TypeOK, CallbackInv, CallbackDue, Goto, thread, link, rec, window, history
<1>22. CASE ThreadJoined
  BY <1>22 DEF ThreadJoined, TypeOK, CallbackInv, CallbackDue, Goto, thread, link, rec, window, history
<1>23. CASE UNCHANGED vars
  BY <1>23 DEF vars, TypeOK, CallbackInv, CallbackDue, Goto, thread, link, rec, window, history
<1>24. QED
  BY <1>1, <1>2, <1>3, <1>4, <1>5, <1>6, <1>7, <1>8, <1>9, <1>10, <1>11, <1>12, <1>13, <1>14, <1>15, <1>16, <1>17, <1>18, <1>19, <1>20, <1>21, <1>22, <1>23 DEF Next, Run, Window

\* The rows are consecutive and end with the last pass taken.
LEMMA RowsStep ==
    ASSUME TypeOK, RowsInv, [Next]_vars
    PROVE  RowsInv'
<1>1. CASE OpenHub
  BY <1>1 DEF OpenHub, TypeOK, RowsInv, Taken, Goto, thread, link, rec, window, history
<1>2. CASE TryMyo
  BY <1>2 DEF TryMyo, TypeOK, RowsInv, Taken, Goto, thread, link, rec, window, history
<1>3. CASE MyoAnswers
  BY <1>3 DEF MyoAnswers, TypeOK, RowsInv, Taken, Goto, thread, link, rec, window, history
<1>4. CASE MyoFound
  BY <1>4 DEF MyoFound, TypeOK, RowsInv, Taken, Goto, thread, link, rec, window, history
<1>5. CASE MyoMissing
  BY <1>5 DEF MyoMissing, TypeOK, RowsInv, Taken, Goto, thread, link, rec, window, history
<1>6. CASE HubRun
  BY <1>6 DEF HubRun, TypeOK, RowsInv, Taken, Goto, thread, link, rec, window, history
<1>7. CASE LoopEnds
  BY <1>7 DEF LoopEnds, TypeOK, RowsInv, Taken, Goto, thread, link, rec, window, history
<1>8. CASE CheckRecording
  BY <1>8 DEF CheckRecording, TypeOK, RowsInv, Taken, Goto, thread, link, rec, window, history
<1>9. CASE AppendRow
  <2>1. /\ mDatas' = Append(mDatas, heard) \/ mDatas' = <<>>
        /\ pc = "lock" /\ pc' = "loop" /\ heard' = heard
    BY <1>9, Zenon DEF AppendRow, Goto
  <2>2. CASE mDatas' = <<>>
    BY <2>1, <2>2 DEF RowsInv, Taken
  <2>3. CASE mDatas' = Append(mDatas, heard)
    <3>1. /\ Len(mDatas') = Len(mDatas) + 1 /\ Len(mDatas) \in Nat
          /\ \A i \in 1..Len(mDatas) : mDatas'[i] = mDatas[i]
          /\ mDatas'[Len(mDatas) + 1] = heard
      BY <2>3, AppendProperties, LenProperties DEF TypeOK
    <3>2. mDatas # <<>> => Len(mDatas) > 0 /\ mDatas[Len(mDatas)] = heard - 1
      BY <2>1, EmptySeq DEF RowsInv, Taken, TypeOK
    <3>3. mDatas = <<>> => Len(mDatas) = 0
      OBVIOUS
    <3>4. heard \in Nat
      BY DEF TypeOK
    <3>5. \A i \in 1..Len(mDatas) : mDatas[i] = mDatas[1] + i - 1
      BY DEF RowsInv
    <3>6. \A i \in 1..Len(mDatas') : mDatas'[i] = mDatas'[1] + i - 1
      <4>1. CASE mDatas = <<>>
        BY <3>1, <3>3, <3>4, <4>1
      <4>2. CASE mDatas # <<>>
        <5>1. mDatas[1] \in Nat /\ mDatas'[1] = mDatas[1]
          BY <3>1, <3>2, <4>2 DEF TypeOK
        <5>2. heard - 1 = mDatas[1] + Len(mDatas) - 1
          BY <3>1, <3>2, <3>5, <4>2
        <5>3. ASSUME NEW i \in 1..Len(mDatas') PROVE mDatas'[i] = mDatas'[1] + i - 1
          <6>1. CASE i \in 1..Len(mDatas)
            BY <3>1, <3>5, <5>1, <6>1
          <6>2. CASE i = Len(mDatas) + 1
            BY <3>1, <3>4, <5>1, <5>2, <6>2
          <6>3. QED
            BY <3>1, <6>1, <6>2
        <5>4. QED
          BY <5>3
      <4>3. QED
        BY <4>1, <4>2
    <3>7. QED
      BY <2>1, <3>1, <3>6 DEF RowsInv, Taken
  <2>4. QED
    BY <2>1, <2>2, <2>3
<1>10. CASE CloseLoop
  BY <1>10 DEF CloseLoop, TypeOK, RowsInv, Taken, Goto, thread, link, rec, window, history
<1>11. CASE SayDisconnected
  BY <1>11 DEF SayDisconnected, TypeOK, RowsInv, Taken, Goto, thread, link, rec, window, history
<1>12. CASE Finish
  BY <1>12 DEF Finish, TypeOK, RowsInv, Taken, Goto, thread, link, rec, window, history
<1>13. CASE ConnectionSlot
  BY <1>13 DEF ConnectionSlot, TypeOK, RowsInv, Taken, Goto, thread, link, rec, window, history
<1>14. CASE TryToConnect
  BY <1>14 DEF TryToConnect, TypeOK, RowsInv, Taken, Goto, thread, link, rec, window, history
<1>15. CASE StartThread
  BY <1>15 DEF StartThread, TypeOK, RowsInv, Taken, Goto, thread, link, rec, window, history
<1>16. CASE StartRecording
  BY <1>16 DEF StartRecording, BeginRecording, TypeOK, RowsInv, Taken, Goto, thread, link, rec, window, history
<1>17. ASSUME NEW n \in Batches, StartCallback(n) PROVE RowsInv'
  BY <1>17, ManagerConstants DEF StartCallback, BeginRecording, TypeOK, RowsInv, Taken, Goto, thread, link, rec, window, history
<1>18. CASE EndRecording
  BY <1>18 DEF EndRecording, TypeOK, RowsInv, Taken, Goto, thread, link, rec, window, history
<1>19. CASE CopyRows
  BY <1>19 DEF CopyRows, TypeOK, RowsInv, Taken, Goto, thread, link, rec, window, history
<1>20. CASE CancelRecording
  BY <1>20 DEF CancelRecording, TypeOK, RowsInv, Taken, Goto, thread, link, rec, window, history
<1>21. CASE CloseWindow
  BY <1>21 DEF CloseWindow, TypeOK, RowsInv, Taken, Goto, thread, link, rec, window, history
<1>22. CASE ThreadJoined
  BY <1>22 DEF ThreadJoined, TypeOK, RowsInv, Taken, Goto, thread, link, rec, window, history
<1>23. CASE UNCHANGED vars
  BY <1>23 DEF vars, TypeOK, RowsInv, Taken, Goto, thread, link, rec, window, history
<1>24. QED
  BY <1>1, <1>2, <1>3, <1>4, <1>5, <1>6, <1>7, <1>8, <1>9, <1>10, <1>11, <1>12, <1>13, <1>14, <1>15, <1>16, <1>17, <1>18, <1>19, <1>20, <1>21, <1>22, <1>23 DEF Next, Run, Window

\* A list recording begins with the pass of its start, or the one after it.
LEMMA RecordedStep ==
    ASSUME TypeOK, CallbackInv, RowsInv, RecordedInv, [Next]_vars
    PROVE  RecordedInv'
<1>1. CASE OpenHub
  BY <1>1 DEF OpenHub, TypeOK, RowsInv, RecordedInv, Taken, Goto, thread, link, rec, window, history
<1>2. CASE TryMyo
  BY <1>2 DEF TryMyo, TypeOK, RowsInv, RecordedInv, Taken, Goto, thread, link, rec, window, history
<1>3. CASE MyoAnswers
  BY <1>3 DEF MyoAnswers, TypeOK, RowsInv, RecordedInv, Taken, Goto, thread, link, rec, window, history
<1>4. CASE MyoFound
  BY <1>4 DEF MyoFound, TypeOK, RowsInv, RecordedInv, Taken, Goto, thread, link, rec, window, history
<1>5. CASE MyoMissing
  BY <1>5 DEF MyoMissing, TypeOK, RowsInv, RecordedInv, Taken, Goto, thread, link, rec, window, history
<1>6. CASE HubRun
  BY <1>6 DEF HubRun, TypeOK, RowsInv, RecordedInv, Taken, Goto, thread, link, rec, window, history
<1>7. CASE LoopEnds
  BY <1>7 DEF LoopEnds, TypeOK, RowsInv, RecordedInv, Taken, Goto, thread, link, rec, window, history
<1>8. CASE CheckRecording
  BY <1>8 DEF CheckRecording, TypeOK, RowsInv, RecordedInv, Taken, Goto, thread, link, rec, window, history
<1>9. CASE AppendRow
  <2>1. CASE mRecording # "LIST_REC" \/ mSizeNext # 0
    <3>1. mSizeNext' = 0 => mSizeNext = 0
      <4>1. CASE mSizeNext' = mSizeNext
        BY <4>1
      <4>2. CASE mSizeNext' = mSizeData + Len(mDatas')
        <5>1. mDatas' = Append(mDatas, heard) \/ mDatas' = <<>>
          BY <1>9, Zenon DEF AppendRow
        <5>2. Len(mDatas') \in Nat
          BY <5>1, AppendType, EmptySeq
        <5>3. QED
          BY <4>2, <5>2 DEF CallbackInv, TypeOK
      <4>3. QED
        BY <1>9, <4>1, <4>2 DEF AppendRow
    <3>2. QED
      BY <1>9, <2>1, <3>1 DEF AppendRow, RecordedInv
  <2>2. CASE mRecording = "LIST_REC" /\ mSizeNext = 0
    <3>1. /\ mDatas' = Append(mDatas, heard) /\ mSizeNext' = 0
          /\ startedAt' = startedAt
      BY <1>9, <2>2, AppendProperties DEF AppendRow, TypeOK
    <3>2. mDatas' # <<>> /\ mDatas'[1] = IF mDatas = <<>> THEN heard ELSE mDatas[1]
      BY <3>1, AppendProperties, EmptySeq DEF TypeOK
    <3>3. pc = "lock"
      BY <1>9 DEF AppendRow, Goto
    <3>4. QED
      BY <2>2, <3>1, <3>2, <3>3 DEF RecordedInv, Taken, TypeOK
  <2>3. QED
    BY <2>1, <2>2
<1>10. CASE CloseLoop
  BY <1>10 DEF CloseLoop, TypeOK, RowsInv, RecordedInv, Taken, Goto, thread, link, rec, window, history
<1>11. CASE SayDisconnected
  BY <1>11 DEF SayDisconnected, TypeOK, RowsInv, RecordedInv, Taken, Goto, thread, link, rec, window, history
<1>12. CASE Finish
  BY <1>12 DEF Finish, TypeOK, RowsInv, RecordedInv, Taken, Goto, thread, link, rec, window, history
<1>13. CASE ConnectionSlot
  BY <1>13 DEF ConnectionSlot, TypeOK, RowsInv, RecordedInv, Taken, Goto, thread, link, rec, window, history
<1>14. CASE TryToConnect
  BY <1>14 DEF TryToConnect, TypeOK, RowsInv, RecordedInv, Taken, Goto, thread, link, rec, window, history
<1>15. CASE StartThread
  BY <1>15 DEF StartThread, TypeOK, RowsInv, RecordedInv, Taken, Goto, thread, link, rec, window, history
<1>16. CASE StartRecording
  BY <1>16 DEF StartRecording, BeginRecording, TypeOK, RowsInv, RecordedInv, Taken, Goto, thread, link, rec, window, history
<1>17. ASSUME NEW n \in Batches, StartCallback(n) PROVE RecordedInv'
  BY <1>17, ManagerConstants DEF StartCallback, BeginRecording, TypeOK, RowsInv, RecordedInv, Taken, Goto, thread, link, rec, window, history
<1>18. CASE EndRecording
  BY <1>18 DEF EndRecording, TypeOK, RowsInv, RecordedInv, Taken, Goto, thread, link, rec, window, history
<1>19. CASE CopyRows
  BY <1>19 DEF CopyRows, TypeOK, RowsInv, RecordedInv, Taken, Goto, thread, link, rec, window, history
<1>20. CASE CancelRecording
  BY <1>20 DEF CancelRecording, TypeOK, RowsInv, RecordedInv, Taken, Goto, thread, link, rec, window, history
<1>21. CASE CloseWindow
  BY <1>21 DEF CloseWindow, TypeOK, RowsInv, RecordedInv, Taken, Goto, thread, link, rec, window, history
<1>22. CASE ThreadJoined
  BY <1>22 DEF ThreadJoined, TypeOK, RowsInv, RecordedInv, Taken, Goto, thread, link, rec, window, history
<1>23. CASE UNCHANGED vars
  BY <1>23 DEF vars, TypeOK, RowsInv, RecordedInv, Taken, Goto, thread, link, rec, window, history
<1>24. QED
  BY <1>1, <1>2, <1>3, <1>4, <1>5, <1>6, <1>7, <1>8, <1>9, <1>10, <1>11, <1>12, <1>13, <1>14, <1>15, <1>16, <1>17, <1>18, <1>19, <1>20, <1>21, <1>22, <1>23 DEF Next, Run, Window

\* What endRecording leaves to be copied is the whole recording.
LEMMA CopiedStep ==
    ASSUME TypeOK, CallbackInv, RowsInv, RecordedInv, DialogInv, CopiedInv, [Next]_vars
    PROVE  CopiedInv'
<1>1. CASE OpenHub
  BY <1>1 DEF OpenHub, TypeOK, CallbackInv, CallbackDue, DialogInv, RowsInv, RecordedInv, CopiedInv, Taken, Goto, thread, link, rec, window, history
<1>2. CASE TryMyo
  BY <1>2 DEF TryMyo, TypeOK, CallbackInv, CallbackDue, DialogInv, RowsInv, RecordedInv, CopiedInv, Taken, Goto, thread, link, rec, window, history
<1>3. CASE MyoAnswers
  BY <1>3 DEF MyoAnswers, TypeOK, CallbackInv, CallbackDue, DialogInv, RowsInv, RecordedInv, CopiedInv, Taken, Goto, thread, link, rec, window, history
<1>4. CASE MyoFound
  BY <1>4 DEF MyoFound, TypeOK, CallbackInv, CallbackDue, DialogInv, RowsInv, RecordedInv, CopiedInv, Taken, Goto, thread, link, rec, window, history
<1>5. CASE MyoMissing
  BY <1>5 DEF MyoMissing, TypeOK, CallbackInv, CallbackDue, DialogInv, RowsInv, RecordedInv, CopiedInv, Taken, Goto, thread, link, rec, window, history
<1>6. CASE HubRun
  BY <1>6 DEF HubRun, TypeOK, CallbackInv, CallbackDue, DialogInv, RowsInv, RecordedInv, CopiedInv, Taken, Goto, thread, link, rec, window, history
<1>7. CASE LoopEnds
  BY <1>7 DEF LoopEnds, TypeOK, CallbackInv, CallbackDue, DialogInv, RowsInv, RecordedInv, CopiedInv, Taken, Goto, thread, link, rec, window, history
<1>8. CASE CheckRecording
  BY <1>8 DEF CheckRecording, TypeOK, CallbackInv, CallbackDue, DialogInv, RowsInv, RecordedInv, CopiedInv, Taken, Goto, thread, link, rec, window, history
<1>9. CASE AppendRow
  BY <1>9 DEF AppendRow, TypeOK, CallbackInv, CallbackDue, DialogInv, RowsInv, RecordedInv, CopiedInv, Taken, Goto, thread, link, rec, window, history
<1>10. CASE CloseLoop
  BY <1>10 DEF CloseLoop, TypeOK, CallbackInv, CallbackDue, DialogInv, RowsInv, RecordedInv, CopiedInv, Taken, Goto, thread, link, rec, window, history
<1>11. CASE SayDisconnected
  BY <1>11 DEF SayDisconnected, TypeOK, CallbackInv, CallbackDue, DialogInv, RowsInv, RecordedInv, CopiedInv, Taken, Goto, thread, link, rec, window, history
<1>12. CASE Finish
  BY <1>12 DEF Finish, TypeOK, CallbackInv, CallbackDue, DialogInv, RowsInv, RecordedInv, CopiedInv, Taken, Goto, thread, link, rec, window, history
<1>13. CASE ConnectionSlot
  BY <1>13 DEF ConnectionSlot, TypeOK, CallbackInv, CallbackDue, DialogInv, RowsInv, RecordedInv, CopiedInv, Taken, Goto, thread, link, rec, window, history
<1>14. CASE TryToConnect
  BY <1>14 DEF TryToConnect, TypeOK, CallbackInv, CallbackDue, DialogInv, RowsInv, RecordedInv, CopiedInv, Taken, Goto, thread, link, rec, window, history
<1>15. CASE StartThread
  BY <1>15 DEF StartThread, TypeOK, CallbackInv, CallbackDue, DialogInv, RowsInv, RecordedInv, CopiedInv, Taken, Goto, thread, link, rec, window, history
<1>16. CASE StartRecording
  BY <1>16 DEF StartRecording, BeginRecording, TypeOK, CallbackInv, CallbackDue, DialogInv, RowsInv, RecordedInv, CopiedInv, Taken, Goto, thread, link, rec, window, history
<1>17. ASSUME NEW n \in Batches, StartCallback(n) PROVE CopiedInv'
  BY <1>17, ManagerConstants DEF StartCallback, BeginRecording, TypeOK, CallbackInv, CallbackDue, DialogInv, RowsInv, RecordedInv, CopiedInv, Taken, Goto, thread, link, rec, window, history
<1>18. CASE EndRecording
  BY <1>18 DEF EndRecording, TypeOK, CallbackInv, CallbackDue, DialogInv, RowsInv, RecordedInv, CopiedInv, Taken, Goto, thread, link, rec, window, history
<1>19. CASE CopyRows
  BY <1>19 DEF CopyRows, TypeOK, CallbackInv, CallbackDue, DialogInv, RowsInv, RecordedInv, CopiedInv, Taken, Goto, thread, link, rec, window, history
<1>20. CASE CancelRecording
  BY <1>20 DEF CancelRecording, TypeOK, CallbackInv, CallbackDue, DialogInv, RowsInv, RecordedInv, CopiedInv, Taken, Goto, thread, link, rec, window, history
<1>21. CASE CloseWindow
  BY <1>21 DEF CloseWindow, TypeOK, CallbackInv, CallbackDue, DialogInv, RowsInv, RecordedInv, CopiedInv, Taken, Goto, thread, link, rec, window, history
<1>22. CASE ThreadJoined
  BY <1>22 DEF ThreadJoined, TypeOK, CallbackInv, CallbackDue, DialogInv, RowsInv, RecordedInv, CopiedInv, Taken, Goto, thread, link, rec, window, history
<1>23. CASE UNCHANGED vars
  BY <1>23 DEF vars, TypeOK, CallbackInv, CallbackDue, DialogInv, RowsInv, RecordedInv, CopiedInv, Taken, Goto, thread, link, rec, window, history
<1>24. QED
  BY <1>1, <1>2, <1>3, <1>4, <1>5, <1>6, <1>7, <1>8, <1>9, <1>10, <1>11, <1>12, <1>13, <1>14, <1>15, <1>16, <1>17, <1>18, <1>19, <1>20, <1>21, <1>22, <1>23 DEF Next, Run, Window

\* While the recording dialog is shown a recording runs.
LEMMA DialogStep ==
    ASSUME TypeOK, DialogInv, [Next]_vars
    PROVE  DialogInv'
<1>1. CASE OpenHub
  BY <1>1 DEF OpenHub, TypeOK, DialogInv, Goto, thread, link, rec, window, history
<1>2. CASE TryMyo
  BY <1>2 DEF TryMyo, TypeOK, DialogInv, Goto, thread, link, rec, window, history
<1>3. CASE MyoAnswers
  BY <1>3 DEF MyoAnswers, TypeOK, DialogInv, Goto, thread, link, rec, window, history
<1>4. CASE MyoFound
  BY <1>4 DEF MyoFound, TypeOK, DialogInv, Goto, thread, link, rec, window, history
<1>5. CASE MyoMissing
  BY <1>5 DEF MyoMissing, TypeOK, DialogInv, Goto, thread, link, rec, window, history
<1>6. CASE HubRun
  BY <1>6 DEF HubRun, TypeOK, DialogInv, Goto, thread, link, rec, window, history
<1>7. CASE LoopEnds
  BY <1>7 DEF LoopEnds, TypeOK, DialogInv, Goto, thread, link, rec, window, history
<1>8. CASE CheckRecording
  BY <1>8 DEF CheckRecording, TypeOK, DialogInv, Goto, thread, link, rec, window, history
<1>9. CASE AppendRow
  BY <1>9 DEF AppendRow, TypeOK, DialogInv, Goto, thread, link, rec, window, history
<1>10. CASE CloseLoop
  BY <1>10 DEF CloseLoop, TypeOK, DialogInv, Goto, thread, link, rec, window, history
<1>11. CASE SayDisconnected
  BY <1>11 DEF SayDisconnected, TypeOK, DialogInv, Goto, thread, link, rec, window, history
<1>12. CASE Finish
  BY <1>12 DEF Finish, TypeOK, DialogInv, Goto, thread, link, rec, window, history
<1>13. CASE ConnectionSlot
  BY <1>13 DEF ConnectionSlot, TypeOK, DialogInv, Goto, thread, link, rec, window, history
<1>14. CASE TryToConnect
  BY <1>14 DEF TryToConnect, TypeOK, DialogInv, Goto, thread, link, rec, window, history
<1>15. CASE StartThread
  BY <1>15 DEF StartThread, TypeOK, DialogInv, Goto, thread, link, rec, window, history
<1>16. CASE StartRecording
  BY <1>16 DEF StartRecording, BeginRecording, TypeOK, DialogInv, Goto, thread, link, rec, window, history
<1>17. ASSUME NEW n \in Batches, StartCallback(n) PROVE DialogInv'
  BY <1>17, ManagerConstants DEF StartCallback, BeginRecording, TypeOK, DialogInv, Goto, thread, link, rec, window, history
<1>18. CASE EndRecording
  BY <1>18 DEF EndRecording, TypeOK, DialogInv, Goto, thread, link, rec, window, history
<1>19. CASE CopyRows
  BY <1>19 DEF CopyRows, TypeOK, DialogInv, Goto, thread, link, rec, window, history
<1>20. CASE CancelRecording
  BY <1>20 DEF CancelRecording, TypeOK, DialogInv, Goto, thread, link, rec, window, history
<1>21. CASE CloseWindow
  BY <1>21 DEF CloseWindow, TypeOK, DialogInv, Goto, thread, link, rec, window, history
<1>22. CASE ThreadJoined
  BY <1>22 DEF ThreadJoined, TypeOK, DialogInv, Goto, thread, link, rec, window, history
<1>23. CASE UNCHANGED vars
  BY <1>23 DEF vars, TypeOK, DialogInv, Goto, thread, link, rec, window, history
<1>24. QED
  BY <1>1, <1>2, <1>3, <1>4, <1>5, <1>6, <1>7, <1>8, <1>9, <1>10, <1>11, <1>12, <1>13, <1>14, <1>15, <1>16, <1>17, <1>18, <1>19, <1>20, <1>21, <1>22, <1>23 DEF Next, Run, Window

-----------------------------------------------------------------------------
LEMMA InitInv == Init => Inv
<1> SUFFICES ASSUME Init PROVE Inv
  OBVIOUS
<1>1. mLoop \in BOOLEAN /\ mMyoHub \in BOOLEAN /\ mMyo \in BOOLEAN
      /\ mConnected \in BOOLEAN /\ button \in BOOLEAN /\ raced \in BOOLEAN
      /\ lateStart \in BOOLEAN
  BY Zenon DEF Init
<1>2. Typed
  BY <1>1, ManagerConstants DEF Init, Typed, TypeOK, Places
<1>3. ButtonInv
  BY Zenon DEF Init, ButtonInv, Announced
<1>4. QED
  BY <1>2, <1>3 DEF Init, Inv, LoopInv, CallbackInv, CallbackDue, RowsInv,
     RecordedInv, CopiedInv, DialogInv

LEMMA InvStep == Inv /\ [Next]_vars => Inv'
  BY TypeStep, LoopStep, ButtonStep, CallbackStep, RowsStep, RecordedStep,
     CopiedStep, DialogStep DEF Inv, Typed

LEMMA Invariance == Spec => []Inv
  BY InitInv, InvStep, PTL DEF Spec

\* Every variable of the recording thread, the window and the signals between
\* them keeps its type.
THEOREM TypeCorrect == Spec => []TypeOK
<1>1. Inv => TypeOK
  BY DEF Inv, Typed
<1>2. QED
  BY <1>1, Invariance, PTL

\* The rows kept are those of consecutive passes, for any number of passes.
THEOREM NoRowSkipped == Spec => []RowsConsecutive
<1>1. Inv => RowsConsecutive
  <2> SUFFICES ASSUME Inv, NEW i \in 1..Len(mDatas), NEW j \in 1..Len(mDatas)
               PROVE  mDatas[i] - mDatas[j] = i - j
    BY DEF RowsConsecutive
  <2>1. mDatas[i] = mDatas[1] + i - 1 /\ mDatas[j] = mDatas[1] + j - 1
    BY DEF Inv, RowsInv
  <2>2. Len(mDatas) \in Nat
    BY LenProperties DEF Inv, Typed, TypeOK
  <2>3. mDatas[1] \in Nat
    BY <2>2 DEF Inv, Typed, TypeOK
  <2>4. QED
    BY <2>1, <2>2, <2>3
<1>2. QED
  BY <1>1, Invariance, PTL

\* The callback of a recording is never jumped over (MyoManager.cpp:118-123).
THEOREM CallbackNeverLost == Spec => []CallbackDue
<1>1. Inv => CallbackDue
  BY DEF Inv, CallbackInv
<1>2. QED
  BY <1>1, Invariance, PTL

\* isRunning() is stuck only after a connect pressed while the thread ended.
THEOREM RunningIsTrue == Spec => []LoopMeansThread
<1>1. Inv => LoopMeansThread
  BY DEF Inv, LoopInv, LoopMeansThread, isRunning
<1>2. QED
  BY <1>1, Invariance, PTL

\* The connect button agrees with the thread once the signals are handled.
THEOREM ButtonTellsTruth == Spec => []ButtonAgrees
<1>1. Inv => ButtonAgrees
  BY DEF Inv, ButtonInv, ButtonAgrees
<1>2. QED
  BY <1>1, Invariance, PTL

\* A list recording is whole but for one row at each end.
THEOREM RecordingIsWhole == Spec => WholeRecording
<1> DEFINE Whole ==
      (ui = "copying" /\ ui' = "idle" /\ ~raced /\ mSizeNext = 0)
       => IF sample' = <<>> THEN endedAt <= startedAt + 1
          ELSE /\ sample'[1] \in {startedAt, startedAt + 1}
               /\ sample'[Len(sample')] \in {endedAt - 1, endedAt}
<1>1. Inv /\ [Next]_vars => [Whole]_vars
  <2> SUFFICES ASSUME Inv, Next, ui = "copying", ui' = "idle", ~raced, mSizeNext = 0
               PROVE  Whole
    OBVIOUS
  <2>1. CopyRows
    <3>1. ~Run
      BY DEF Run, OpenHub, TryMyo, MyoAnswers, MyoFound, MyoMissing, HubRun, LoopEnds,
         CheckRecording, AppendRow, CloseLoop, SayDisconnected, Finish, window
    <3>2. Window
      BY <3>1 DEF Next
    <3>3. QED
      BY <3>2 DEF Window, ConnectionSlot, TryToConnect, StartThread, StartRecording,
         StartCallback, BeginRecording, EndRecording, CancelRecording, CloseWindow,
         ThreadJoined
  <2>2. sample' = mDatas
    BY <2>1 DEF CopyRows
  <2>3. QED
    BY <2>2 DEF Inv, CopiedInv
<1>2. QED
  BY <1>1, Invariance, PTL DEF Spec, WholeRecording
=============================================================================
