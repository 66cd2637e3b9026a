------------------------------ MODULE MyoManager ------------------------------
(***************************************************************************)
(* The recording thread of the desktop UI (MyoManager.cpp/.h) with the     *)
(* window that starts and closes it (GenMyoWindow), the dialog that ends a *)
(* recording (RecordingDialog) and the connect button (MyoDialog).         *)
(*                                                                         *)
(* Two threads: run() of the manager, whose program counter is `pc', and   *)
(* the UI thread, whose place is `ui'. A row is the number of the pass of  *)
(* the hub loop that read it, so `heard' is the row in mListener.mRaw.     *)
(***************************************************************************)
EXTENDS Integers, Sequences

CONSTANTS MaxTry,    \* mac_count_try
          MaxHeard,  \* bound of the run: passes of the hub loop
          Batches,   \* rows per callback a caller may ask for
          MaxQueued  \* bound of the run: queued signals when the user connects again

ASSUME ManagerConstants ==
  MaxTry \in Nat /\ MaxHeard \in Nat /\ Batches \subseteq Nat \ {0} /\ MaxQueued \in Nat

VARIABLES
  pc,         \* where run() is; "none": the QThread does not run
  tries,      \* count_try
  mLoop, mMyoHub, mMyo, mConnected,      \* flags and pointers (TRUE: not null)
  mRecording, mDatas, mSizeData, mSizeNext,
  ui,         \* where the UI thread is
  events,     \* queued connectionStatusChange signals, TRUE "up" and FALSE "down"
  button,     \* mPBTTConnect is enabled ("Try to connect")
  sample,     \* rows the last ended recording put in the document
  heard,      \* row in mListener.mRaw
  startedAt, endedAt,  \* history: heard at the last start and end of a recording
  raced,      \* history: a row was appended while endRecording was copying
  lateStart   \* history: QThread::start was called while run() was ending

thread == <<pc, tries>>
link == <<mLoop, mMyoHub, mMyo, mConnected>>
rec == <<mRecording, mDatas, mSizeData, mSizeNext>>
window == <<ui, button, sample>>
history == <<startedAt, endedAt, raced, lateStart>>
vars == <<thread, link, rec, window, events, heard, history>>

Places == {"none", "hub", "wait", "waiting", "loop", "check", "lock",
           "tail", "ending", "finish"}
\* the connection was announced and its end was not
Announced == pc \in {"loop", "check", "lock", "tail", "ending"} /\ mMyo

isConnected == mMyoHub /\ mMyo /\ mConnected
isRunning == mLoop

\* GenMyoWindow's constructor has called mMyoManager.start()
Init ==
  /\ pc = "hub" /\ tries = 0
  /\ mLoop = TRUE /\ mMyoHub = FALSE /\ mMyo = FALSE /\ mConnected = FALSE
  /\ mRecording = "NO_REC" /\ mDatas = <<>> /\ mSizeData = 0 /\ mSizeNext = 0
  /\ ui = "idle" /\ events = <<>> /\ button = TRUE /\ sample = <<>>
  /\ heard = 0 /\ startedAt = 0 /\ endedAt = 0 /\ raced = FALSE /\ lateStart = FALSE

-----------------------------------------------------------------------------
(* The thread: run(), one action per access to state the UI thread shares. *)

Goto(from, to) == pc = from /\ pc' = to

\* new myo::Hub, which throws when Myo Connect is not there
OpenHub ==
  /\ Goto("hub", "wait") /\ tries' = 0
  /\ mMyoHub' \in BOOLEAN
  /\ UNCHANGED <<mLoop, mMyo, mConnected, rec, window, events, heard, history>>

MoreTries == tries # MaxTry /\ mLoop /\ mMyoHub /\ ~mMyo

TryMyo ==
  /\ MoreTries /\ Goto("wait", "waiting")
  /\ UNCHANGED <<tries, link, rec, window, events, heard, history>>

\* waitForMyo(1000) returns a Myo or times out
MyoAnswers ==
  /\ Goto("waiting", "wait") /\ tries' = tries + 1
  /\ mMyo' \in BOOLEAN
  /\ UNCHANGED <<mLoop, mMyoHub, mConnected, rec, window, events, heard, history>>

\* the for loop is over: listen to the Myo, or give up
MyoFound ==
  /\ mMyo /\ ~MoreTries /\ Goto("wait", "loop")
  /\ events' = Append(events, "up")
  /\ UNCHANGED <<tries, link, rec, window, heard, history>>

MyoMissing ==
  /\ ~mMyo /\ ~MoreTries /\ Goto("wait", "tail")
  /\ UNCHANGED <<tries, link, rec, window, events, heard, history>>

\* hub->run: the listener may hear the connection come or go
HubRun ==
  /\ mLoop /\ heard < MaxHeard /\ Goto("loop", "check")
  /\ heard' = heard + 1
  /\ mConnected' \in BOOLEAN
  /\ mLoop' = (mLoop /\ mConnected')
  /\ UNCHANGED <<tries, mMyoHub, mMyo, rec, window, events, history>>

LoopEnds ==
  /\ ~mLoop /\ Goto("loop", "tail")
  /\ UNCHANGED <<tries, link, rec, window, events, heard, history>>

\* Mutant: only callback recordings are kept.
CheckCallbackOnly ==
  /\ Goto("check", IF mRecording = "CALLBACK_REC" THEN "lock" ELSE "loop")
  /\ UNCHANGED <<tries, link, rec, window, events, heard, history>>

\* if(mRecording), read without the lock
CheckRecording ==
  /\ Goto("check", IF mRecording # "NO_REC" THEN "lock" ELSE "loop")
  /\ UNCHANGED <<tries, link, rec, window, events, heard, history>>

\* Mutant: the next callback is not counted from the rows there are.
AppendForgetsSize ==
  /\ Goto("lock", "loop")
  /\ mDatas' = Append(mDatas, heard)
  /\ mSizeNext' = IF Len(mDatas') = mSizeNext THEN mSizeData ELSE mSizeNext
  /\ UNCHANGED <<tries, link, mRecording, mSizeData, window, events, heard, history>>

\* under mMutex; the callback may clear the rows it is given, and is assumed not to
\* unlock the mutex it is given with them
AppendRow ==
  /\ Goto("lock", "loop")
  /\ LET rows == Append(mDatas, heard)
     IN \/ /\ Len(rows) # mSizeNext
           /\ mDatas' = rows /\ UNCHANGED mSizeNext
        \/ /\ Len(rows) = mSizeNext
           /\ mDatas' \in {rows, <<>>}
           /\ mSizeNext' = mSizeData + Len(mDatas')
  /\ raced' = (raced \/ ui = "copying")
  /\ UNCHANGED <<tries, link, mRecording, mSizeData, window, events, heard,
                 startedAt, endedAt, lateStart>>

\* Mutant: mLoop is not cleared after the loop.
CloseKeepsLoop ==
  /\ Goto("tail", "ending") /\ mConnected' = FALSE
  /\ UNCHANGED <<tries, mLoop, mMyoHub, mMyo, rec, window, events, heard, history>>

CloseLoop ==
  /\ Goto("tail", "ending")
  /\ mLoop' = FALSE /\ mConnected' = FALSE
  /\ UNCHANGED <<tries, mMyoHub, mMyo, rec, window, events, heard, history>>

\* Mutant: the end of the connection is not announced.
SayNothing ==
  /\ Goto("ending", "finish") /\ mMyo' = FALSE
  /\ UNCHANGED <<tries, mLoop, mMyoHub, mConnected, rec, window, events, heard, history>>

\* mMyo = nullptr, delete mMyoHub (the pointer keeps its value), emit
SayDisconnected ==
  /\ Goto("ending", "finish")
  /\ mMyo' = FALSE
  /\ events' = Append(events, "down")
  /\ UNCHANGED <<tries, mLoop, mMyoHub, mConnected, rec, window, heard, history>>

Finish ==
  /\ Goto("finish", "none")
  /\ UNCHANGED <<tries, link, rec, window, events, heard, history>>

Run == \/ OpenHub \/ TryMyo \/ MyoAnswers \/ MyoFound \/ MyoMissing \/ HubRun
       \/ LoopEnds \/ CheckRecording \/ AppendRow \/ CloseLoop
       \/ SayDisconnected \/ Finish

-----------------------------------------------------------------------------
(* The UI thread. A recording dialog is modal: only its own buttons, and   *)
(* queued signals, are handled while it is shown.                          *)

\* MyoDialog::setIsConnected, for each queued signal
ConnectionSlot ==
  /\ ui \in {"idle", "recording"} /\ events # <<>>
  /\ button' = (Head(events) = "down") /\ events' = Tail(events)
  /\ UNCHANGED <<thread, link, rec, ui, sample, heard, history>>

\* onTryToConnect and the first line of MyoManager::start
TryToConnect ==
  /\ ui = "idle" /\ button /\ ~isConnected /\ ~isRunning /\ Len(events) <= MaxQueued
  /\ ui' = "starting" /\ mLoop' = TRUE
  /\ UNCHANGED <<thread, mMyoHub, mMyo, mConnected, rec, button, sample,
                 events, heard, history>>

\* QThread::start, which does nothing while the thread still runs
StartThread ==
  /\ ui = "starting" /\ ui' = "idle"
  /\ pc' = IF pc = "none" THEN "hub" ELSE pc
  /\ lateStart' = (lateStart \/ pc # "none")
  /\ UNCHANGED <<tries, link, rec, button, sample, events, heard,
                 startedAt, endedAt, raced>>

\* Mutant: the rows of the last recording are kept.
BeginKeepsRows ==
  /\ ui = "idle" /\ ui' = "recording"
  /\ startedAt' = heard /\ raced' = FALSE
  /\ UNCHANGED <<thread, link, mDatas, button, sample, events, heard, endedAt, lateStart>>

BeginRecording ==
  /\ ui = "idle" /\ ui' = "recording"
  /\ mDatas' = <<>> /\ startedAt' = heard /\ raced' = FALSE
  /\ UNCHANGED <<thread, link, button, sample, events, heard, endedAt, lateStart>>

\* startRecording(): mSizeNext keeps the value of an earlier callback recording
StartRecording ==
  /\ BeginRecording
  /\ mRecording' = "LIST_REC" /\ UNCHANGED <<mSizeData, mSizeNext>>

\* startRecording(n, fun)
StartCallback(n) ==
  /\ BeginRecording
  /\ mRecording' = "CALLBACK_REC" /\ mSizeData' = n /\ mSizeNext' = n

\* RecordingDialog::onEnd calls endRecording, whose copy follows the unlock
EndRecording ==
  /\ ui = "recording" /\ ui' = "copying"
  /\ mRecording' = "NO_REC" /\ endedAt' = heard
  /\ UNCHANGED <<thread, link, mDatas, mSizeData, mSizeNext, button, sample,
                 events, heard, startedAt, raced, lateStart>>

\* a copy that raced with an append may hold anything: the vector is read
\* while it is moved
CopyRows ==
  /\ ui = "copying" /\ ui' = "idle"
  /\ \/ sample' = mDatas
     \/ raced /\ sample' = <<>>
  /\ UNCHANGED <<thread, link, rec, button, events, heard, history>>

\* the dialog is closed by its frame: mOnEnd is not called
CancelRecording ==
  /\ ui = "recording" /\ ui' = "idle"
  /\ UNCHANGED <<thread, link, rec, button, sample, events, heard, history>>

\* Mutant: close() waits without clearing mLoop.
CloseWithoutStop ==
  /\ ui = "idle" /\ ui' = "closing"
  /\ UNCHANGED <<thread, link, rec, button, sample, events, heard, history>>

\* ~GenMyoWindow: close() clears mLoop, then waits for the thread
CloseWindow ==
  /\ ui = "idle" /\ ui' = "closing" /\ mLoop' = FALSE
  /\ UNCHANGED <<thread, mMyoHub, mMyo, mConnected, rec, button, sample,
                 events, heard, history>>

ThreadJoined ==
  /\ ui = "closing" /\ pc = "none" /\ ui' = "closed"
  /\ UNCHANGED <<thread, link, rec, button, sample, events, heard, history>>

Window ==
  \/ ConnectionSlot \/ TryToConnect \/ StartThread
  \/ StartRecording \/ (\E n \in Batches : StartCallback(n))
  \/ EndRecording \/ CopyRows \/ CancelRecording
  \/ CloseWindow \/ ThreadJoined

Next == Run \/ Window

\* the hub calls have timeouts and the wait ends with the thread; a user owes nothing
Spec == Init /\ [][Next]_vars /\ WF_vars(Run) /\ WF_vars(ThreadJoined)

-----------------------------------------------------------------------------
TypeOK ==
  /\ pc \in Places /\ tries \in 0..MaxTry
  /\ mLoop \in BOOLEAN /\ mMyoHub \in BOOLEAN /\ mMyo \in BOOLEAN /\ mConnected \in BOOLEAN
  /\ mRecording \in {"NO_REC", "LIST_REC", "CALLBACK_REC"}
  /\ mDatas \in Seq(Nat) /\ mSizeData \in Nat /\ mSizeNext \in Nat
  /\ ui \in {"idle", "starting", "recording", "copying", "closing", "closed"}
  /\ events \in Seq({"up", "down"}) /\ button \in BOOLEAN /\ sample \in Seq(Nat)
  /\ heard \in Nat /\ startedAt \in Nat /\ endedAt \in Nat
  /\ raced \in BOOLEAN /\ lateStart \in BOOLEAN

\* The rows kept are those of consecutive passes of the hub loop: whatever the
\* moment the dialog starts and ends recordings at, none is skipped or doubled.
RowsConsecutive ==
  \A i, j \in 1..Len(mDatas) : mDatas[i] - mDatas[j] = i - j

\* What a list recording puts in the document is what was heard between its
\* start and its end: at most one row too many at the front (a pass that had
\* read mRecording before the start) and one missing at the back (a pass that
\* had not taken the lock at the end), unless the unlocked copy raced. Said of
\* runs without callback recordings, whose callback may clear the rows.
WholeRecording ==
  [][(ui = "copying" /\ ui' = "idle" /\ ~raced /\ mSizeNext = 0)
       => IF sample' = <<>> THEN endedAt <= startedAt + 1
          ELSE /\ sample'[1] \in {startedAt, startedAt + 1}
               /\ sample'[Len(sample')] \in {endedAt - 1, endedAt}]_vars

\* While a callback recording runs, the next callback is due within mSizeData
\* rows: no row count at which it is called is ever jumped over.
CallbackDue ==
  mRecording = "CALLBACK_REC" =>
    Len(mDatas) < mSizeNext /\ mSizeNext <= Len(mDatas) + mSizeData

\* isRunning() tells the truth when no thread runs, unless the user pressed
\* connect while the last thread was ending: then mLoop stays set with no thread
\* to clear it, and the connect button never starts another.
LoopMeansThread ==
  (isRunning /\ pc = "none" /\ ui # "starting") => lateStart

\* Once the queued signals are handled, the connect button is disabled exactly
\* while a thread that found a Myo has not announced its end.
ButtonAgrees ==
  events = <<>> => (button <=> ~Announced)

\* Closing the window always ends: the thread sees mLoop and is joined.
CloseReturns == (ui = "closing") ~> (ui = "closed")
=============================================================================
