----------------------- MODULE ClassifierSessionProofs -----------------------
(***************************************************************************)
(* Theorems about the native classifier, for any model files, types and    *)
(* number of sessions.                                                     *)
(***************************************************************************)
EXTENDS ClassifierSession, TLAPS

-----------------------------------------------------------------------------
(* Type correctness.                                                       *)

\* While a file is being loaded there is a manager and a number for the
\* session it will start.
Prepared == ui # "idle" => session < MaxSessions /\ mClassifier # NoType

Typed == TypeOK /\ Prepared

LEMMA FlagsOfFile ==
    ASSUME NEW f \in File, NEW m \in Modes
    PROVE  /\ [reps |-> RepsOf[f], mode |-> m] \in Flags
           /\ ModeOf[f] \in Modes
           /\ TypeOf[f] \in Type
           /\ ClassesOf[f] \in SUBSET Class
  BY FileAssumption DEF Flags

LEMMA NextSession ==
    ASSUME session \in Sessions \cup {0}, session < MaxSessions
    PROVE  session + 1 \in Sessions
  BY BoundAssumption DEF Sessions

LEMMA InitTyped == Init => Typed
<1> SUFFICES ASSUME Init PROVE Typed
  OBVIOUS
<1>1. NoFlags \in Flags
  BY DEF NoFlags, Flags, Modes
<1>2. mModel \in [flags : Flags, classes : SUBSET Class] /\ mFlags \in Flags
  BY <1>1 DEF Init
<1>3. worker \in [Sessions -> Steps]
  BY DEF Init, Steps
<1>4. mLoop \in BOOLEAN
  BY Zenon DEF Init
<1>5. shown \in [by : Sessions \cup {0}, class : Class \cup {NoClass}, turn : {0, 1}]
  BY DEF Init, Heard
<1>6. QED
  BY <1>2, <1>3, <1>4, <1>5 DEF Init, Typed, TypeOK, Prepared

LEMMA UiTyped ==
    ASSUME Typed, Ui \/ \E f \in File : FirstFile(f) \/ NextFile(f)
    PROVE  Typed'
<1>1. ASSUME NEW f \in File, FirstFile(f) PROVE Typed'
  <2>1. TypeOf[f] \in Type /\ TypeOf[f] # NoType
    BY FileAssumption, NoneAssumption
  <2>2. QED
    BY <1>1, <2>1 DEF FirstFile, NewInterface, Typed, TypeOK, Prepared, threadVars
<1>2. ASSUME NEW f \in File, NextFile(f) PROVE Typed'
  <2>1. mLoop' \in BOOLEAN
    BY <1>2, Zenon DEF NextFile
  <2>2. QED
    BY <1>2, <2>1 DEF NextFile, Typed, TypeOK, Prepared
<1>3. CASE ChangeClassifierType
  BY <1>3 DEF ChangeClassifierType, NewInterface, Typed, TypeOK, Prepared
<1>4. CASE LoadModel
  <2>1. mModel' \in [flags : Flags, classes : SUBSET Class]
    <3>1. CASE mInterface.type = TypeOf[picked]
      <4>1. picked \in File
        BY DEF Typed, TypeOK
      <4>2. ModeOf[picked] \in Modes /\ ClassesOf[picked] \in SUBSET Class
        BY <4>1, FileAssumption
      <4>3. [reps |-> RepsOf[picked], mode |-> ModeOf[picked]] \in Flags
        BY <4>1, <4>2, FlagsOfFile
      <4>4. QED
        BY <1>4, <3>1, <4>2, <4>3 DEF LoadModel
    <3>2. CASE mInterface.type # TypeOf[picked]
      <4>1. PICK f \in File, m \in Modes :
               mModel' = [flags |-> [reps |-> RepsOf[f], mode |-> m],
                          classes |-> Class]
        BY <1>4, <3>2 DEF LoadModel
      <4>2. QED
        BY <4>1, FlagsOfFile
    <3>3. QED
      BY <3>1, <3>2
  <2>2. QED
    BY <1>4, <2>1 DEF LoadModel, Typed, TypeOK, Prepared, threadVars
<1>5. CASE Start
  <2>1. session + 1 \in Sessions
    BY <1>5, NextSession DEF Start, Typed, TypeOK, Prepared
  <2>2. worker' \in [Sessions -> Steps]
    BY <1>5, <2>1 DEF Start, Typed, TypeOK, Steps
  <2>3. mLoop' \in BOOLEAN
    BY <1>5, Zenon DEF Start
  <2>4. mFlags' \in Flags /\ mCallback' \in Nat
    BY <1>5 DEF Start, Typed, TypeOK
  <2>5. QED
    BY <1>5, <2>1, <2>2, <2>3, <2>4 DEF Start, Typed, TypeOK, Prepared
<1>6. QED
  BY <1>1, <1>2, <1>3, <1>4, <1>5 DEF Ui

LEMMA RunTyped ==
    ASSUME Typed, NEW s \in Sessions, Run(s)
    PROVE  Typed'
<1>1. ASSUME NEW step \in Steps, Goto(s, step) PROVE worker' \in [Sessions -> Steps]
  BY <1>1 DEF Goto, Typed, TypeOK
<1>2. CASE TestLoop(s)
  <2>1. worker' \in [Sessions -> Steps]
    BY <1>1, <1>2 DEF TestLoop, Steps
  <2>2. QED
    BY <1>2, <2>1 DEF TestLoop, Typed, TypeOK, Prepared, uiVars, threadVars
<1>3. CASE WakeUp(s)
  <2>1. worker' \in [Sessions -> Steps]
    BY <1>1, <1>3 DEF WakeUp, Collect, Steps
  <2>2. mInputs' \in Seq(Sessions)
    <3>1. mInputs' = mInputs \/ mInputs' = Append(mInputs, s)
      BY <1>3, Zenon DEF WakeUp, Collect
    <3>2. mInputs \in Seq(Sessions)
      BY DEF Typed, TypeOK
    <3>3. QED
      BY <3>1, <3>2
  <2>3. QED
    BY <1>3, <2>1, <2>2 DEF WakeUp, Typed, TypeOK, Prepared, uiVars, threadVars
<1>4. CASE Ignore(s)
  <2>1. worker' \in [Sessions -> Steps]
    BY <1>1, <1>4 DEF Ignore, Steps
  <2>2. QED
    BY <1>4, <2>1 DEF Ignore, Typed, TypeOK, Prepared, uiVars, threadVars
<1>5. CASE Recognize(s)
  <2>1. worker' \in [Sessions -> Steps]
    BY <1>1, <1>5 DEF Recognize, Steps
  <2>2. found' \in Class
    BY <1>5 DEF Recognize, Typed, TypeOK
  <2>3. QED
    BY <1>5, <2>1, <2>2 DEF Recognize, Typed, TypeOK, Prepared, uiVars, threadVars
<1>6. CASE Report(s)
  <2>1. worker' \in [Sessions -> Steps]
    BY <1>1, <1>6 DEF Report, Steps
  <2>2. shown' \in [by : Sessions \cup {0}, class : Class \cup {NoClass}, turn : {0, 1}]
    BY <1>6 DEF Report, Heard, Typed, TypeOK
  <2>3. QED
    BY <1>6, <2>1, <2>2 DEF Report, Typed, TypeOK, Prepared, uiVars, threadVars
<1>7. QED
  BY <1>2, <1>3, <1>4, <1>5, <1>6 DEF Run

LEMMA StepTyped == Typed /\ [Next]_vars => Typed'
<1> SUFFICES ASSUME Typed, [Next]_vars PROVE Typed'
  OBVIOUS
<1>1. CASE Next
  BY <1>1, UiTyped, RunTyped DEF Next
<1>2. CASE UNCHANGED vars
  BY <1>2 DEF vars, uiVars, threadVars, Typed, TypeOK, Prepared
<1>3. QED
  BY <1>1, <1>2

\* Every variable keeps its type, whatever files are picked and however the
\* worker and the user interface interleave.
THEOREM TypeCorrect == Spec => []TypeOK
<1>1. Typed => TypeOK
  BY DEF Typed
<1>2. QED
  BY <1>1, InitTyped, StepTyped, PTL DEF Spec

-----------------------------------------------------------------------------
(* Who runs, and what it remembers.                                        *)

\* No worker runs while the classifier object is being replaced, nor before
\* the first file.
Quiet == ui \in {"load", "listen"} \/ mClassifier = NoType =>
            \A s \in Sessions : ~Running(s)

\* The listener has heard no session that has not started.
HeardInPast == shown.by <= session

\* The object in use remembers what the session reported last: it is new when
\* the session starts.
Remembered == \A s \in Sessions :
                 Running(s) /\ shown.by = session => mLastClass = shown.class

Owned == Typed /\ OwnedWorkerOnly /\ Quiet
SessionInv == /\ Owned
              /\ HeardInPast
              /\ Remembered
              /\ PureAfterReport
              /\ ReportIsNew

LEMMA InitSession == Init => SessionInv
<1> SUFFICES ASSUME Init PROVE SessionInv
  OBVIOUS
<1>1. \A s \in Sessions : ~Running(s) /\ worker[s] = "none"
  BY DEF Init, Running
<1>2. OwnedWorkerOnly /\ Quiet /\ Remembered /\ ReportIsNew
  BY <1>1 DEF OwnedWorkerOnly, Quiet, Remembered, ReportIsNew
<1>3. HeardInPast /\ PureAfterReport
  BY DEF Init, Heard, HeardInPast, PureAfterReport
<1>4. QED
  BY <1>2, <1>3, InitTyped DEF SessionInv, Owned

\* A step of a worker leaves it and the others where they may be.
LEMMA RunOwned ==
    ASSUME Owned, NEW s \in Sessions, Run(s)
    PROVE  /\ Running(s) /\ s = session
           /\ \A t \in Sessions : Running(t)' => Running(t)
           /\ UNCHANGED <<uiVars, threadVars>>
<1>1. Running(s)
  BY DEF Run, TestLoop, WakeUp, Ignore, Recognize, Report, Running
<1>2. s = session
  BY <1>1 DEF Owned, OwnedWorkerOnly
<1>3. PICK step \in Steps : Goto(s, step)
  BY DEF Run, TestLoop, WakeUp, Collect, Ignore, Recognize, Report, Steps
<1>4. \A t \in Sessions : Running(t)' => Running(t)
  BY <1>1, <1>3 DEF Goto, Running, Owned, Typed, TypeOK
<1>5. UNCHANGED <<uiVars, threadVars>>
  BY Zenon DEF Run, TestLoop, WakeUp, Ignore, Recognize, Report
<1>6. QED
  BY <1>1, <1>2, <1>4, <1>5

\* joint() returns only when the worker has ended.
LEMMA JoinedQuiet ==
    ASSUME Owned, Joinable
    PROVE  \A s \in Sessions : ~Running(s)
<1> SUFFICES ASSUME NEW s \in Sessions, Running(s) PROVE FALSE
  OBVIOUS
<1>1. mThread = s
  BY DEF Owned, OwnedWorkerOnly
<1>2. mThread # 0
  BY <1>1 DEF Sessions
<1>3. worker[s] = "ended"
  BY <1>1, <1>2 DEF Joinable
<1>4. QED
  BY <1>3 DEF Running

LEMMA StepOwned == Owned /\ [Next]_vars => Owned'
<1> SUFFICES ASSUME Owned, [Next]_vars PROVE (OwnedWorkerOnly /\ Quiet)'
  BY StepTyped DEF Owned
<1>1. ASSUME NEW f \in File, FirstFile(f) PROVE (OwnedWorkerOnly /\ Quiet)'
  <2>1. \A s \in Sessions : ~Running(s)
    BY <1>1 DEF FirstFile, Owned, Quiet
  <2>2. \A s \in Sessions : ~Running(s)'
    BY <1>1, <2>1 DEF FirstFile, Running
  <2>3. QED
    BY <2>2 DEF OwnedWorkerOnly, Quiet
<1>2. ASSUME NEW f \in File, NextFile(f) PROVE (OwnedWorkerOnly /\ Quiet)'
  BY <1>2 DEF NextFile, Owned, OwnedWorkerOnly, Quiet, Running
<1>3. CASE ChangeClassifierType
  <2>1. \A s \in Sessions : ~Running(s)
    BY <1>3, JoinedQuiet DEF ChangeClassifierType
  <2>2. \A s \in Sessions : ~Running(s)'
    BY <1>3, <2>1 DEF ChangeClassifierType, Running
  <2>3. QED
    BY <2>2 DEF OwnedWorkerOnly, Quiet
<1>4. CASE LoadModel
  BY <1>4 DEF LoadModel, threadVars, Owned, OwnedWorkerOnly, Quiet, Running
<1>5. CASE Start
  <2>1. \A s \in Sessions : ~Running(s)
    BY <1>5 DEF Start, Owned, Quiet
  <2>2. \A s \in Sessions : Running(s)' => s = session + 1
    BY <1>5, <2>1 DEF Start, Running, Owned, Typed, TypeOK
  <2>3. OwnedWorkerOnly'
    BY <1>5, <2>2 DEF Start, OwnedWorkerOnly
  <2>4. ui' = "idle" /\ mClassifier' # NoType
    BY <1>5 DEF Start, Owned, Typed, Prepared
  <2>5. QED
    BY <2>3, <2>4 DEF Quiet
<1>6. ASSUME NEW s \in Sessions, Run(s) PROVE (OwnedWorkerOnly /\ Quiet)'
  BY <1>6, RunOwned DEF Owned, OwnedWorkerOnly, Quiet, uiVars, threadVars
<1>7. CASE UNCHANGED vars
  BY <1>7 DEF vars, uiVars, threadVars, Owned, OwnedWorkerOnly, Quiet, Running
<1>8. QED
  BY <1>1, <1>2, <1>3, <1>4, <1>5, <1>6, <1>7 DEF Next, Ui

-----------------------------------------------------------------------------
(* What a step does to what was heard.                                     *)

\* The user interface starts a session nobody has heard, or changes nothing
\* that a running worker uses.
LEMMA UiStep ==
    ASSUME SessionInv, Ui \/ \E f \in File : FirstFile(f) \/ NextFile(f)
    PROVE  (HeardInPast /\ Remembered /\ PureAfterReport /\ ReportIsNew)'
<1> USE DEF SessionInv
<1>1. UNCHANGED <<mInputs, shown>>
  BY DEF Ui, FirstFile, NextFile, ChangeClassifierType, LoadModel, Start
<1>2. shown.by \in Nat /\ session \in Nat
  BY DEF Owned, Typed, TypeOK, Sessions
<1>3. CASE Start
  <2>1. session' = session + 1 /\ shown.by' # session'
    BY <1>1, <1>2, <1>3 DEF Start, HeardInPast
  <2>2. \A s \in Sessions : worker'[s] # "report"
    BY <1>3 DEF Start, Owned, Typed, TypeOK, Quiet, Running
  <2>3. HeardInPast'
    BY <1>1, <1>2, <2>1 DEF HeardInPast
  <2>4. QED
    BY <2>1, <2>2, <2>3 DEF Remembered, PureAfterReport, ReportIsNew
<1>4. CASE ~Start
  <2>1. UNCHANGED <<worker, session, found>>
    BY <1>4 DEF Ui, FirstFile, NextFile, ChangeClassifierType, LoadModel, threadVars
  <2>2. HeardInPast' /\ PureAfterReport'
    BY <1>1, <2>1 DEF HeardInPast, PureAfterReport
  <2>3. CASE \E f \in File : NextFile(f)
    BY <1>1, <2>1, <2>2, <2>3 DEF NextFile, Remembered, ReportIsNew, Running
  <2>4. CASE ChangeClassifierType \/ LoadModel \/ \E f \in File : FirstFile(f)
    <3>1. \A s \in Sessions : ~Running(s)
      BY <2>4, JoinedQuiet DEF ChangeClassifierType, LoadModel, FirstFile, Owned, Quiet
    <3>2. \A s \in Sessions : ~Running(s)' /\ worker'[s] # "report"
      BY <2>1, <3>1 DEF Running
    <3>3. QED
      BY <2>2, <3>2 DEF Remembered, ReportIsNew
  <2>5. QED
    BY <1>4, <2>3, <2>4 DEF Ui
<1>5. QED
  BY <1>3, <1>4

\* A worker reports a class of its model that it did not report last, and
\* clears the window it reported.
LEMMA RunStep ==
    ASSUME SessionInv, NEW s \in Sessions, Run(s)
    PROVE  (HeardInPast /\ Remembered /\ PureAfterReport /\ ReportIsNew)'
<1> USE DEF SessionInv
<1>1. /\ Running(s) /\ s = session
      /\ \A t \in Sessions : Running(t)' => Running(t)
      /\ UNCHANGED <<uiVars, threadVars>>
  BY RunOwned
<1>2. /\ session' = session /\ mModel' = mModel
      /\ \A t \in Sessions : Running(t) => t = s
  BY <1>1 DEF uiVars, threadVars, Owned, OwnedWorkerOnly
<1>3. \A t \in Sessions : worker'[t] = "report" => t = s
  BY <1>1, <1>2 DEF Running
<1>4. worker \in [Sessions -> Steps] /\ mInputs \in Seq(Sessions)
  BY DEF Owned, Typed, TypeOK
<1>5. CASE Report(s)
  <2>1. shown' = Heard(s, found, 1 - shown.turn) /\ mLastClass' = found /\ mInputs' = <<>>
    BY <1>5 DEF Report
  <2>2. worker'[s] # "report"
    BY <1>4, <1>5 DEF Report, Goto
  <2>3. HeardInPast' /\ Remembered' /\ PureAfterReport'
    BY <1>1, <1>2, <1>4, <2>1 DEF HeardInPast, Remembered, PureAfterReport, Heard, Sessions
  <2>4. QED
    BY <1>3, <2>2, <2>3 DEF ReportIsNew
<1>6. CASE Recognize(s)
  <2>1. UNCHANGED <<shown, mLastClass, mInputs>>
    BY <1>6 DEF Recognize
  <2>2. found' \in mModel.classes /\ found' # mLastClass
    BY <1>6 DEF Recognize
  <2>3. shown.by = session => shown.class # found'
    BY <1>1, <2>2 DEF Remembered
  <2>4. ReportIsNew'
    BY <1>2, <2>1, <2>2, <2>3 DEF ReportIsNew
  <2>5. QED
    BY <1>1, <1>2, <2>1, <2>4 DEF HeardInPast, Remembered, PureAfterReport
<1>7. CASE TestLoop(s) \/ WakeUp(s) \/ Ignore(s)
  <2>1. UNCHANGED <<shown, mLastClass, found>>
    BY <1>7 DEF TestLoop, WakeUp, Ignore
  <2>2. worker'[s] # "report"
    BY <1>4, <1>7 DEF TestLoop, WakeUp, Collect, Ignore, Goto
  <2>3. \/ mInputs' = mInputs
        \/ mInputs' = <<>>
        \/ mInputs' = Append(mInputs, s)
    BY <1>7 DEF TestLoop, WakeUp, Collect, Ignore
  <2>4. PureAfterReport'
    BY <1>1, <1>2, <1>4, <2>1, <2>3 DEF PureAfterReport
  <2>5. QED
    BY <1>1, <1>2, <1>3, <2>1, <2>2, <2>4 DEF HeardInPast, Remembered, ReportIsNew
<1>8. QED
  BY <1>5, <1>6, <1>7 DEF Run

LEMMA StepSession == SessionInv /\ [Next]_vars => SessionInv'
<1> SUFFICES ASSUME SessionInv, [Next]_vars PROVE SessionInv'
  OBVIOUS
<1>1. Owned'
  BY StepOwned DEF SessionInv
<1>2. CASE Next
  BY <1>1, <1>2, UiStep, RunStep DEF Next, SessionInv
<1>3. CASE UNCHANGED vars
  BY <1>1, <1>3 DEF vars, uiVars, threadVars, SessionInv, HeardInPast, Remembered,
     PureAfterReport, ReportIsNew, Running
<1>4. QED
  BY <1>2, <1>3

LEMMA Invariance == Spec => []SessionInv
  BY InitSession, StepSession, PTL DEF Spec

\* joint() before every replacement: only the owned worker runs, and the object
\* its callback belongs to is the one in use, never null and never deleted.
THEOREM OneWorker == Spec => []OwnedWorkerOnly
<1>1. SessionInv => OwnedWorkerOnly
  BY DEF SessionInv, Owned
<1>2. QED
  BY <1>1, Invariance, PTL

\* Rows a session left in mInputs reach at most the first window of the next
\* one: after its first report a session classifies its own rows only.
THEOREM PureWindows == Spec => []PureAfterReport
<1>1. SessionInv => PureAfterReport
  BY DEF SessionInv
<1>2. QED
  BY <1>1, Invariance, PTL

\* A gesture about to be reported is of the loaded file and is new.
THEOREM NewReports == Spec => []ReportIsNew
<1>1. SessionInv => ReportIsNew
  BY DEF SessionInv
<1>2. QED
  BY <1>1, Invariance, PTL

-----------------------------------------------------------------------------
(* The classifier implements GestureStream.                                *)

LEMMA InitStream == Init => Stream!Init
  BY DEF Init, Stream!Init, Heard, Stream!Heard

LEMMA StepStream ==
    SessionInv /\ [Next]_vars => [Stream!Next]_<<session, shown>>
<1> SUFFICES ASSUME SessionInv, [Next]_vars PROVE [Stream!Next]_<<session, shown>>
  OBVIOUS
<1>1. CASE Start
  BY <1>1 DEF Start, Stream!Next, Stream!Replace
<1>2. CASE LoadModel \/ ChangeClassifierType \/ \E f \in File : FirstFile(f) \/ NextFile(f)
  BY <1>2 DEF LoadModel, ChangeClassifierType, FirstFile, NextFile, threadVars
<1>3. ASSUME NEW s \in Sessions, Run(s) PROVE [Stream!Next]_<<session, shown>>
  <2>1. CASE Report(s)
    <3>1. s = session /\ session' = session
      BY <1>3, RunOwned DEF SessionInv, threadVars
    <3>2. shown.by = session => shown.class # found
      BY <2>1 DEF Report, SessionInv, ReportIsNew
    <3>3. found \in Class
      BY DEF SessionInv, Owned, Typed, TypeOK
    <3>4. Stream!Hear(found)
      BY <2>1, <3>1, <3>2 DEF Report, Stream!Hear, Heard, Stream!Heard, Sessions
    <3>5. QED
      BY <3>3, <3>4 DEF Stream!Next
  <2>2. CASE ~Report(s)
    BY <1>3, <2>2 DEF Run, TestLoop, WakeUp, Ignore, Recognize, threadVars
  <2>3. QED
    BY <2>1, <2>2
<1>4. CASE UNCHANGED vars
  BY <1>4 DEF vars, threadVars
<1>5. QED
  BY <1>1, <1>2, <1>3, <1>4 DEF Next, Ui

\* The listener hears one session at a time, and never the same gesture twice
\* in a row from it.
THEOREM ImplementsStream == Spec => StreamSpec
<1>1. QED
  BY InitStream, StepStream, Invariance, PTL DEF Spec, StreamSpec, Stream!StreamSpec
=============================================================================
