-------------------------------- MODULE MyoList --------------------------------
(***************************************************************************)
(* How the Parrot application finds a Myo and lets the user choose one     *)
(* (MyoList, with the MyoConnector it scans with), up to the connection    *)
(* MainMyoClassifierParrot makes with the one chosen.                      *)
(*                                                                         *)
(* Four parties: the main thread, which runs clicks, scan results and the  *)
(* queue `posts' of posted runnables; the scan thread of each MyoConnector, *)
(* which sleeps and then ends the scan; the Bluetooth callback thread,     *)
(* which brings the name of a Myo; the animation threads. Each             *)
(* startScanning() makes a new connector, the n-th is the number n, and a  *)
(* connector makes a Myo object of its own for each device it finds.       *)
(***************************************************************************)
EXTENDS Integers, Sequences

CONSTANTS Devices,    \* the Myos in reach
          NoMyo,      \* null
          MaxScans,   \* bound of the run: times startScanning is called
          MaxPosts    \* bound of the run: runnables waiting when a Myo is found

Scans == 1..MaxScans
Myos == Scans \X Devices

ASSUME ListConstants == MaxScans \in Nat \ {0} /\ MaxPosts \in Nat /\ NoMyo \notin Myos

VARIABLES
  mConnector,     \* the last connector made
  scan,           \* of each: "none"; "on", mScanRunnable is set; "over", it is not
  scanThread,     \* where the scan thread of each is
  scanner,        \* the connectors the Bluetooth adapter scans for
  mScanMap,       \* the devices each has found
  main,           \* where the main thread is in a handler
  retrying,       \* and whether a scan starts once stopScan() has returned
  list,           \* the activity: "open", "finishing", "left", "destroyed"
  posts,          \* runnables of the main looper, as <<kind, Myo>>
  buttons, retry, \* children of mUIListMyo: those of Myos, the retry button
  named,          \* Myos whose button shows their name
  loading,        \* mUIListMyoAnimationThreadLoop
  animations,     \* animation threads that run
  name,           \* of each Myo: "none", "asked", "told" (onDeviceNameRead runs), "read"
  mRunning,       \* the Myos whose dispatcher runs (BaseMyo)
  mMyoSelected, mMyo,
  knew            \* history: the Myo selected showed its name when it was clicked

scanVars == <<scan, scanThread, scanner>>
screen == <<buttons, retry, named>>
show == <<loading, animations>>
myoVars == <<name, mRunning>>
choice == <<list, mMyoSelected, mMyo, knew>>
vars == <<mConnector, scanVars, mScanMap, main, retrying, posts, screen, show, myoVars, choice>>

Posts == ({"result", "button", "name"} \X Myos) \union {<<"retry", NoMyo>>}

\* onCreate: mMyoSelected is null and the first scan starts
Init ==
  /\ mConnector = 1
  /\ scan = [k \in Scans |-> IF k = 1 THEN "on" ELSE "none"]
  /\ scanThread = [k \in Scans |-> IF k = 1 THEN "sleeping" ELSE "none"]
  /\ scanner = {1} /\ mScanMap = [k \in Scans |-> {}]
  /\ main = "idle" /\ retrying = FALSE /\ list = "open" /\ posts = <<>>
  /\ buttons = {} /\ retry = FALSE /\ named = {}
  /\ loading = TRUE /\ animations = 1
  /\ name = [m \in Myos |-> "none"] /\ mRunning = {}
  /\ mMyoSelected = NoMyo /\ mMyo = NoMyo /\ knew = FALSE

-----------------------------------------------------------------------------
(* MyoConnector.stopScan, by the main thread or the scan thread: the test  *)
(* of mScanRunnable, and then the rest; both may pass the test.            *)

\* Mutant: only the first scan that finds nothing offers another one.
ScanFinishedOnce(k) ==
  /\ scan' = [scan EXCEPT ![k] = "over"]
  /\ loading' = FALSE
  /\ posts' = IF buttons = {} /\ ~retry /\ k = 1 THEN Append(posts, <<"retry", NoMyo>>) ELSE posts

\* and onScanFinished: the animation ends, an empty list gets a retry button
ScanFinished(k) ==
  /\ scan' = [scan EXCEPT ![k] = "over"]
  /\ loading' = FALSE
  /\ posts' = IF buttons = {} /\ ~retry THEN Append(posts, <<"retry", NoMyo>>) ELSE posts

\* Mutant: a scan that was stopped needs nothing of its thread.
ScanTimeoutIfOn(k) ==
  /\ scanThread[k] = "sleeping"
  /\ scanThread' = [scanThread EXCEPT ![k] = IF scan[k] = "on" THEN "stopping" ELSE "ended"]
  /\ scanner' = IF scan[k] = "on" THEN scanner \ {k} ELSE scanner
  /\ UNCHANGED <<mConnector, scan, mScanMap, main, retrying, posts, screen, show, myoVars, choice>>

\* the scan thread has slept: stopScan() leaves the adapter to it. That the adapter
\* delivers batches, which would clear mBluetoothLeScannerRun, is not modelled: the
\* scan settings ask for none.
ScanTimeout(k) ==
  /\ scanThread[k] = "sleeping"
  /\ scanThread' = [scanThread EXCEPT ![k] = "stopping"]
  /\ scanner' = scanner \ {k}
  /\ UNCHANGED <<mConnector, scan, mScanMap, main, retrying, posts, screen, show, myoVars, choice>>

ThreadTests(k) ==
  /\ scanThread[k] = "stopping"
  /\ scanThread' = [scanThread EXCEPT ![k] = IF scan[k] = "on" THEN "passed" ELSE "ended"]
  /\ UNCHANGED <<mConnector, scan, scanner, mScanMap, main, retrying, posts, screen, show, myoVars, choice>>

ThreadStops(k) ==
  /\ scanThread[k] = "passed"
  /\ scanThread' = [scanThread EXCEPT ![k] = "ended"]
  /\ ScanFinished(k)
  /\ UNCHANGED <<mConnector, scanner, mScanMap, main, retrying, screen, animations, myoVars, choice>>

\* what follows stopScan() in the handler of the main thread
Stopped == main' = (IF retrying THEN "scanning" ELSE "idle")

MainTests ==
  /\ main = "stopping"
  /\ IF scan[mConnector] = "on" THEN main' = "passed" ELSE Stopped
  /\ UNCHANGED <<mConnector, scanVars, mScanMap, retrying, posts, screen, show, myoVars, choice>>

MainStops ==
  /\ main = "passed" /\ Stopped
  /\ ScanFinished(mConnector)
  /\ UNCHANGED <<mConnector, scanThread, scanner, mScanMap, retrying, screen, animations, myoVars, choice>>

\* an animation thread that finds the loop flag cleared; one that finds it set
\* again goes on, next to the new one
AnimationEnds ==
  /\ ~loading /\ animations > 0 /\ animations' = animations - 1
  /\ UNCHANGED <<mConnector, scanVars, mScanMap, main, retrying, posts, screen, loading, myoVars, choice>>

-----------------------------------------------------------------------------
(* The user.                                                               *)

\* the retry button calls startScanning, which stops the last scan first
RetryClick ==
  /\ main = "idle" /\ list = "open" /\ retry /\ mConnector < MaxScans
  /\ main' = "stopping" /\ retrying' = TRUE
  /\ UNCHANGED <<mConnector, scanVars, mScanMap, posts, screen, show, myoVars, choice>>

\* the rest of startScanning, and removeAllViews: the handler that makes a scan
\* thread is over before that thread has slept its ten seconds
StartScanning ==
  /\ main = "scanning" /\ main' = "idle" /\ retrying' = FALSE
  /\ mConnector' = mConnector + 1
  /\ scan' = [scan EXCEPT ![mConnector + 1] = "on"]
  /\ scanThread' = [scanThread EXCEPT ![mConnector + 1] = "sleeping"]
  /\ scanner' = scanner \union {mConnector + 1}
  /\ loading' = TRUE /\ animations' = animations + 1
  /\ buttons' = {} /\ retry' = FALSE
  /\ UNCHANGED <<mScanMap, posts, named, myoVars, choice>>

\* a second click may come before the activity is left
Click(m) ==
  /\ main = "idle" /\ list \in {"open", "finishing"} /\ m \in buttons
  /\ mMyoSelected' = m /\ knew' = (m \in named)
  /\ list' = "finishing" /\ main' = "stopping"
  /\ UNCHANGED <<mConnector, scanVars, mScanMap, retrying, posts, screen, show, myoVars, mMyo>>

Back ==
  /\ main = "idle" /\ list = "open" /\ list' = "finishing"
  /\ UNCHANGED <<mConnector, scanVars, mScanMap, main, retrying, posts, screen, show, myoVars,
                 mMyoSelected, mMyo, knew>>

\* onActivityResult and onConnectedToMyo: connect() does nothing if it runs
ActivityResult ==
  /\ main = "idle" /\ list = "finishing" /\ list' = "left"
  /\ mMyo' = mMyoSelected
  /\ mRunning' = mRunning \union ({mMyoSelected} \ {NoMyo})
  /\ UNCHANGED <<mConnector, scanVars, mScanMap, main, retrying, posts, screen, show, name,
                 mMyoSelected, knew>>

Destroy ==
  /\ main = "idle" /\ list = "left" /\ list' = "destroyed" /\ main' = "stopping"
  /\ UNCHANGED <<mConnector, scanVars, mScanMap, retrying, posts, screen, show, myoVars,
                 mMyoSelected, mMyo, knew>>

-----------------------------------------------------------------------------
(* The Myos.                                                               *)

\* the adapter posts what it finds to the main looper, again and again
Result(k, d) ==
  /\ k \in scanner /\ Len(posts) < MaxPosts
  /\ posts' = Append(posts, <<"result", <<k, d>>>>)
  /\ UNCHANGED <<mConnector, scanVars, mScanMap, main, retrying, screen, show, myoVars, choice>>

\* onLeScan and onScanFind of a device this scan has not found yet: a button is
\* posted, and readDeviceName() connects
onLeScan(m) ==
  \/ /\ m[2] \notin mScanMap[m[1]]
     /\ mScanMap' = [mScanMap EXCEPT ![m[1]] = @ \union {m[2]}]
     /\ posts' = Append(Tail(posts), <<"button", m>>)
     /\ name' = [name EXCEPT ![m] = "asked"] /\ mRunning' = mRunning \union {m}
  \/ /\ m[2] \in mScanMap[m[1]]
     /\ posts' = Tail(posts) /\ UNCHANGED <<mScanMap, myoVars>>

Post(kind, m) ==
  \/ kind = "result" /\ onLeScan(m) /\ UNCHANGED screen
  \/ /\ kind = "button" /\ buttons' = buttons \union {m}
     /\ posts' = Tail(posts) /\ UNCHANGED <<retry, named, mScanMap, myoVars>>
  \/ /\ kind = "retry" /\ retry' = TRUE
     /\ posts' = Tail(posts) /\ UNCHANGED <<buttons, named, mScanMap, myoVars>>
  \/ /\ kind = "name" /\ named' = named \union {m}
     /\ posts' = Tail(posts) /\ UNCHANGED <<buttons, retry, mScanMap, myoVars>>

RunPost ==
  /\ main = "idle" /\ posts # <<>> /\ Post(Head(posts)[1], Head(posts)[2])
  /\ UNCHANGED <<mConnector, scanVars, main, retrying, show, choice>>

\* Mutant: the name is shown before the Myo is disconnected.
TellThenDisconnect(m) ==
  \/ /\ name[m] = "asked" /\ name' = [name EXCEPT ![m] = "told"]
     /\ posts' = Append(posts, <<"name", m>>) /\ UNCHANGED mRunning
  \/ /\ name[m] = "told" /\ name' = [name EXCEPT ![m] = "read"]
     /\ mRunning' = mRunning \ {m} /\ UNCHANGED posts

\* Mutant: the Myo is only disconnected while the list is open.
DisconnectWhileOpen(m) ==
  \/ /\ name[m] = "asked" /\ name' = [name EXCEPT ![m] = "told"]
     /\ mRunning' = IF list = "open" THEN mRunning \ {m} ELSE mRunning
     /\ UNCHANGED posts
  \/ /\ name[m] = "told" /\ name' = [name EXCEPT ![m] = "read"]
     /\ posts' = Append(posts, <<"name", m>>) /\ UNCHANGED mRunning

\* onDeviceNameRead: the link is up, or the name could not have come
DisconnectThenTell(m) ==
  \/ /\ name[m] = "asked" /\ name' = [name EXCEPT ![m] = "told"]
     /\ mRunning' = mRunning \ {m} /\ UNCHANGED posts
  \/ /\ name[m] = "told" /\ name' = [name EXCEPT ![m] = "read"]
     /\ posts' = Append(posts, <<"name", m>>) /\ UNCHANGED mRunning

onDeviceNameRead(m) ==
  /\ DisconnectThenTell(m)
  /\ UNCHANGED <<mConnector, scanVars, mScanMap, main, retrying, screen, show, choice>>

-----------------------------------------------------------------------------
ScanThread(k) == ScanTimeout(k) \/ ThreadTests(k) \/ ThreadStops(k)
MainThread == MainTests \/ MainStops \/ StartScanning \/ RunPost
User == RetryClick \/ Back \/ \E m \in Myos : Click(m)
Android == ActivityResult \/ Destroy \/ \E k \in Scans, d \in Devices : Result(k, d)

Next ==
  \/ MainThread \/ User \/ Android \/ AnimationEnds
  \/ \E k \in Scans : ScanThread(k)
  \/ \E m \in Myos : onDeviceNameRead(m)

\* threads are scheduled and sleeps end; the user, the adapter and the Myos owe
\* nothing
Spec ==
  /\ Init /\ [][Next]_vars
  /\ WF_vars(MainThread) /\ WF_vars(AnimationEnds)
  /\ \A k \in Scans : WF_vars(ScanThread(k))

-----------------------------------------------------------------------------
TypeOK ==
  /\ mConnector \in Scans
  /\ scan \in [Scans -> {"none", "on", "over"}]
  /\ scanThread \in [Scans -> {"none", "sleeping", "stopping", "passed", "ended"}]
  /\ scanner \subseteq Scans /\ mScanMap \in [Scans -> SUBSET Devices]
  /\ main \in {"idle", "stopping", "passed", "scanning"} /\ retrying \in BOOLEAN
  /\ list \in {"open", "finishing", "left", "destroyed"}
  /\ posts \in Seq(Posts)
  /\ buttons \subseteq Myos /\ retry \in BOOLEAN /\ named \subseteq Myos
  /\ loading \in BOOLEAN /\ animations \in 0..MaxScans
  /\ name \in [Myos -> {"none", "asked", "told", "read"}] /\ mRunning \subseteq Myos
  /\ mMyoSelected \in Myos \union {NoMyo} /\ mMyo \in Myos \union {NoMyo}
  /\ knew \in BOOLEAN

\* A Myo chosen by its name stays connected: the list, which connected to it to read
\* that name, has disconnected it before and does not do so again, whatever scans,
\* retries and other Myos do. (One clicked while it still says "acquired name.."
\* is disconnected when its name comes.)
ChosenStays == mMyo # NoMyo /\ knew => mMyo \in mRunning

\* Once its name is read no Myo is left running but the one chosen, also those found
\* after the choice, by the scan that goes on, or by an earlier scan.
OthersReleased == \A m \in mRunning : m = mMyo \/ name[m] = "asked"

\* The open list is never empty for good: when no scan and no runnable is left,
\* there is a Myo to choose or the retry button, whichever thread ended the scan.
NeverStuck ==
  (/\ list = "open" /\ main = "idle" /\ posts = <<>>
   /\ \A k \in Scans : scanThread[k] \in {"none", "ended"})
    => buttons # {} \/ retry

\* A list that was left leaves nothing behind: the adapter stops scanning, although
\* stopScan() does not tell it to, and every animation thread ends, also one that
\* missed its end because the next scan began too soon.
NothingLeftOn == list = "destroyed" ~> (scanner = {} /\ animations = 0)
=============================================================================
