-------------------------- MODULE ClassifierSession --------------------------
(***************************************************************************)
(* The native classifier of the Parrot application.  The user interface    *)
(* thread replaces the classifier whenever the user picks a model file     *)
(* (MainMyoClassifierParrot.onActivityResult, MyoClassifierManager); a     *)
(* worker thread (MyoThread.run) collects rows of samples into a window    *)
(* and gives each full window to the k-NN callback (MyoClassifierkNN),     *)
(* which reports a gesture when it is probable enough and new.             *)
(* A row is known by the session that sampled it.                          *)
(***************************************************************************)
EXTENDS Integers, Sequences

CONSTANTS File,        \* model files the user can pick
          Type,        \* enum Classifier
          TypeOf,      \* type of a file, from its extension
          RepsOf,      \* mReps of its flags: rows per window
          ModeOf,      \* mMode of its flags
          Class,       \* classes
          ClassesOf,   \* classes of the rows of a file
          NoType,      \* no MyoNativeClassifierManager yet
          NoClass,     \* mLastClass = -1
          MaxSessions  \* bound on the files picked

Modes == {"GESTURE_MODE", "SAMPLE_MODE"}
Sessions == 1..MaxSessions

ASSUME FileAssumption ==
    /\ TypeOf \in [File -> Type]
    /\ RepsOf \in [File -> Nat \ {0}]
    /\ ModeOf \in [File -> Modes]
    /\ ClassesOf \in [File -> SUBSET Class]
ASSUME NoneAssumption == NoType \notin Type /\ NoClass \notin Class
ASSUME BoundAssumption == MaxSessions \in Nat

VARIABLES
    ui,          \* where onActivityResult is: "idle", "join", "load", "listen"
    picked,      \* the file it works on
    mClassifier, \* type kept by the MyoClassifierManager
    mInterface,  \* the classifier object: its number and its type
    mLastClass,  \* class it reported last
    mModel,      \* what it knows: the flags and classes of the loaded rows
    mLoop,       \* the worker is asked to go on
    mThread,     \* the worker that is owned, 0 for null
    mCallback,   \* number of the classifier object called, 0 for null
    mFlags,      \* flags the worker uses
    mInputs,     \* rows collected
    worker,      \* step each worker is at
    found,       \* class a worker is about to report
    session,     \* number of workers started
    shown        \* last call of ClassifierListener.classified; its turn
                 \* tells it from the call before it

uiVars == <<ui, picked, mClassifier, mInterface, mModel>>
threadVars == <<mLoop, mThread, mCallback, mFlags, session>>
vars == <<uiVars, mLastClass, threadVars, mInputs, worker, found, shown>>

Heard(s, c, turn) == [by |-> s, class |-> c, turn |-> turn]
Flags == [reps : Nat \ {0}, mode : Modes]
NoFlags == [reps |-> 1, mode |-> "SAMPLE_MODE"]
Steps == {"none", "loop", "usleep", "callback", "report", "ended"}
Running(s) == worker[s] \in {"loop", "usleep", "callback", "report"}

Init ==
    /\ ui = "idle"
    /\ picked \in File
    /\ mClassifier = NoType
    /\ mInterface = [id |-> 0, type |-> NoType]
    /\ mLastClass = NoClass
    /\ mModel = [flags |-> NoFlags, classes |-> {}]
    /\ mLoop \in BOOLEAN  \* the constructor leaves it unset
    /\ mThread = 0
    /\ mCallback = 0
    /\ mFlags = NoFlags
    /\ mInputs = <<>>
    /\ worker = [s \in Sessions |-> "none"]
    /\ found \in Class
    /\ session = 0
    /\ shown = Heard(0, NoClass, 0)

-----------------------------------------------------------------------------
(* The user interface thread.                                              *)

\* new MyoClassifierkNN, MyoClassifierSVM or MyoClassifierRBFNetwork.
NewInterface(type) ==
    /\ mInterface' = [id |-> mInterface.id + 1, type |-> type]
    /\ mLastClass' = NoClass

\* The first file: new MyoNativeClassifierManager(type).
FirstFile(f) ==
    /\ ui = "idle" /\ session < MaxSessions
    /\ mClassifier = NoType
    /\ ui' = "load"
    /\ picked' = f
    /\ mClassifier' = TypeOf[f]
    /\ NewInterface(TypeOf[f])
    /\ UNCHANGED <<mModel, threadVars, mInputs, worker, found, shown>>

\* Mutant: joint() does not clear mLoop before it waits.
NextFileLoops(f) ==
    /\ ui = "idle" /\ session < MaxSessions
    /\ mClassifier # NoType
    /\ ui' = "join"
    /\ picked' = f
    /\ UNCHANGED <<mClassifier, mInterface, mModel, mLastClass, threadVars,
                   mInputs, worker, found, shown>>

\* A later file: changeClassifierType(type) calls joint(), which asks the
\* worker to stop and then waits for it.
NextFile(f) ==
    /\ ui = "idle" /\ session < MaxSessions
    /\ mClassifier # NoType
    /\ ui' = "join"
    /\ picked' = f
    /\ mLoop' = (mLoop /\ mThread = 0)
    /\ UNCHANGED <<mClassifier, mInterface, mModel, mLastClass, mThread,
                   mCallback, mFlags, session, mInputs, worker, found, shown>>

\* Mutant: joint() does not wait for the worker.
NotWaited == TRUE

\* mThread->join() can return.
Joinable == mThread # 0 => worker[mThread] = "ended"

\* joint() returns and the classifier object is replaced by one of the type
\* the manager was built with.
ChangeClassifierType ==
    /\ ui = "join"
    /\ Joinable
    /\ ui' = "load"
    /\ mThread' = 0
    /\ mCallback' = IF mThread # 0 THEN 0 ELSE mCallback
    /\ NewInterface(mClassifier)
    /\ UNCHANGED <<picked, mClassifier, mModel, mLoop, mFlags, session,
                   mInputs, worker, found, shown>>

\* Mutant: the number of repetitions is read one too low.
LoadModelShort ==
    /\ ui = "load"
    /\ ui' = "listen"
    /\ mModel' = [flags |-> [reps |-> RepsOf[picked] - 1,
                             mode |-> ModeOf[picked]],
                  classes |-> ClassesOf[picked]]
    /\ UNCHANGED <<picked, mClassifier, mInterface, mLastClass, threadVars,
                   mInputs, worker, found, shown>>

\* loadModel(path): a file of another type is misread, and its flags and
\* classes are whatever the parser made of it.
LoadModel ==
    /\ ui = "load"
    /\ ui' = "listen"
    /\ \/ /\ mInterface.type = TypeOf[picked]
          /\ mModel' = [flags |-> [reps |-> RepsOf[picked],
                                   mode |-> ModeOf[picked]],
                        classes |-> ClassesOf[picked]]
       \/ /\ mInterface.type # TypeOf[picked]
          /\ \E f \in File, m \in Modes :
                mModel' = [flags |-> [reps |-> RepsOf[f], mode |-> m],
                           classes |-> Class]
    /\ UNCHANGED <<picked, mClassifier, mInterface, mLastClass, threadVars,
                   mInputs, worker, found, shown>>

\* setListener: classification() starts a worker, after another joint().
Start ==
    /\ ui = "listen"
    /\ Joinable
    /\ ui' = "idle"
    /\ session' = session + 1
    /\ mLoop' = TRUE
    /\ mFlags' = mModel.flags
    /\ mCallback' = mInterface.id
    /\ mThread' = session + 1
    /\ worker' = [worker EXCEPT ![session + 1] = "loop"]
    /\ UNCHANGED <<picked, mClassifier, mInterface, mModel, mLastClass,
                   mInputs, found, shown>>

-----------------------------------------------------------------------------
(* The worker thread: MyoThread::run.                                      *)

Goto(s, step) == worker' = [worker EXCEPT ![s] = step]

\* while(mLoop)
TestLoop(s) ==
    /\ worker[s] = "loop"
    /\ Goto(s, IF mLoop THEN "usleep" ELSE "ended")
    /\ UNCHANGED <<uiVars, mLastClass, threadVars, mInputs, found, shown>>

\* A full window is given to the callback, a partial one waits for more.
Collect(s, inputs) ==
    /\ mInputs' = inputs
    /\ Goto(s, IF Len(inputs) >= mFlags.reps THEN "callback" ELSE "loop")

\* usleep() ends: stop, or take a row.  GESTURE_MODE takes one only when
\* mDeltaTime has passed since the last, and tests the window all the same.
WakeUp(s) ==
    /\ worker[s] = "usleep"
    /\ \/ /\ ~mLoop
          /\ Goto(s, "ended")
          /\ UNCHANGED mInputs
       \/ /\ mLoop
          /\ Collect(s, Append(mInputs, s))
       \/ /\ mLoop
          /\ mFlags.mode = "GESTURE_MODE"
          /\ Collect(s, mInputs)
    /\ UNCHANGED <<uiVars, mLastClass, threadVars, found, shown>>

\* The callback classifies the window: a class that is improbable, or that
\* was the last reported, is not reported.
Ignore(s) ==
    /\ worker[s] = "callback"
    /\ mInputs' = <<>>
    /\ Goto(s, "loop")
    /\ UNCHANGED <<uiVars, mLastClass, threadVars, found, shown>>

\* Mutant: the last class reported is not looked at.
RecognizeAgain(s) ==
    /\ worker[s] = "callback"
    /\ \E c \in mModel.classes : found' = c
    /\ Goto(s, "report")
    /\ UNCHANGED <<uiVars, mLastClass, threadVars, mInputs, shown>>

Recognize(s) ==
    /\ worker[s] = "callback"
    /\ \E c \in mModel.classes \ {mLastClass} : found' = c
    /\ Goto(s, "report")
    /\ UNCHANGED <<uiVars, mLastClass, threadVars, mInputs, shown>>

\* Mutant: the window is not cleared.
ReportKeepsWindow(s) ==
    /\ worker[s] = "report"
    /\ shown' = Heard(s, found, 1 - shown.turn)
    /\ mLastClass' = found
    /\ Goto(s, "loop")
    /\ UNCHANGED <<uiVars, threadVars, mInputs, found>>

\* Mutant: the class reported is not remembered.
ReportForgets(s) ==
    /\ worker[s] = "report"
    /\ shown' = Heard(s, found, 1 - shown.turn)
    /\ mInputs' = <<>>
    /\ Goto(s, "loop")
    /\ UNCHANGED <<uiVars, mLastClass, threadVars, found>>

\* ClassifierListener.classified runs on the worker thread.
Report(s) ==
    /\ worker[s] = "report"
    /\ shown' = Heard(s, found, 1 - shown.turn)
    /\ mLastClass' = found
    /\ mInputs' = <<>>
    /\ Goto(s, "loop")
    /\ UNCHANGED <<uiVars, threadVars, found>>

-----------------------------------------------------------------------------
Ui == ChangeClassifierType \/ LoadModel \/ Start
Run(s) == TestLoop(s) \/ WakeUp(s) \/ Ignore(s) \/ Recognize(s) \/ Report(s)

Next ==
    \/ \E f \in File : FirstFile(f) \/ NextFile(f)
    \/ Ui
    \/ \E s \in Sessions : Run(s)

Spec == Init /\ [][Next]_vars

\* Both threads are scheduled; the user need not pick anything.
Fairness == WF_vars(Ui) /\ \A s \in Sessions : WF_vars(Run(s))
FairSpec == Spec /\ Fairness

-----------------------------------------------------------------------------
(* Properties.                                                             *)

TypeOK ==
    /\ ui \in {"idle", "join", "load", "listen"}
    /\ picked \in File
    /\ mClassifier \in Type \cup {NoType}
    /\ mInterface \in [id : Nat, type : Type \cup {NoType}]
    /\ mLastClass \in Class \cup {NoClass}
    /\ mModel \in [flags : Flags, classes : SUBSET Class]
    /\ mLoop \in BOOLEAN
    /\ mThread \in Sessions \cup {0}
    /\ mCallback \in Nat
    /\ mFlags \in Flags
    /\ mInputs \in Seq(Sessions)
    /\ worker \in [Sessions -> Steps]
    /\ found \in Class
    /\ session \in Sessions \cup {0}
    /\ shown \in [by : Sessions \cup {0}, class : Class \cup {NoClass},
                  turn : {0, 1}]

(* joint() comes before the classifier object is deleted and before a new  *)
(* worker starts: no worker but the owned one runs, and while it runs its  *)
(* callback is the object in use, neither null nor deleted.                *)
OwnedWorkerOnly ==
    \A s \in Sessions :
        Running(s) => /\ s = session
                      /\ mThread = s
                      /\ mCallback = mInterface.id

(* clear() follows every window: once a session has reported a gesture,    *)
(* the window it fills holds rows of that session only.                    *)
PureAfterReport ==
    shown.by = session => \A i \in 1..Len(mInputs) : mInputs[i] = session

(* A worker that is about to report says a class of the file that is       *)
(* loaded, other than the one this session reported before.                *)
ReportIsNew ==
    \A s \in Sessions :
        worker[s] = "report" => /\ found \in mModel.classes
                                /\ shown.by = session => shown.class # found

(* The listener hears one session at a time and never twice the same       *)
(* gesture: the session implements GestureStream.                          *)
Stream == INSTANCE GestureStream WITH current <- session
StreamSpec == Stream!StreamSpec

(* joint() returns: the user interface thread that waits for the worker    *)
(* goes on to start the new one.                                           *)
FileServed == ui = "join" ~> ui = "idle"

(* changeClassifierType selects the type of classifier it is given.        *)
TypeSelected == ui = "listen" => mInterface.type = TypeOf[picked]
=============================================================================
