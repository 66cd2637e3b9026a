------------------------------- MODULE DroneLink -------------------------------
(***************************************************************************)
(* How the Parrot application finds, connects and disconnects a drone      *)
(* (FindJumpingSumo and the connect button of MainMyoClassifierParrot, the *)
(* connection part of JumpingSumo).                                        *)
(*                                                                         *)
(* Three parties: the main thread, which runs clicks, list updates and the *)
(* queue `posts' of posted runnables; one thread per drone controller,     *)
(* which calls onStateChanged; the discovery service. The n-th JumpingSumo *)
(* object made is the number n, and mJumpingSumo is the last one made.     *)
(***************************************************************************)
EXTENDS Integers, Sequences

CONSTANTS MaxFound,   \* bound of the run: JumpingSumo objects made
          MaxPosts    \* bound of the run: posted runnables when the user clicks or leaves

ASSUME LinkConstants == MaxFound \in Nat /\ MaxPosts \in Nat

VARIABLES
  mState,         \* mState of each JumpingSumo
  mJumpingSumo,   \* the last one made, 0: null
  request,        \* what each drone controller was last told and has not done
  due,            \* controllers that have set mState and not yet posted
  posts,          \* runnables of the main looper: SayOn and SayOff set the label,
                  \* d \in Drones is a notifyConnectionChanged of d
  left,           \* drones of the list the main thread is going through
  checking,       \* it is between connect() and isJumpingSumoConnected()
  bound,          \* mArdiscoveryService is not null
  mStartDiscoveryAfterConnection,
  discovering,    \* the discovery service was started
  destroyed,      \* onDestroy was called: the screen and its button are gone
  scanning,       \* mUIRLMainMyoAnimationThreadLoop
  label,          \* text of btConnect: "on" (JumpingSumo Connected) or "off"
  refused         \* history: drones whose stop() returned an error

drone == <<mState, request, due>>
search == <<bound, mStartDiscoveryAfterConnection, discovering, destroyed>>
screen == <<posts, scanning, label>>
linkVars == <<drone, mJumpingSumo, left, checking, search, screen, refused>>

Drones == 1..MaxFound
SayOn == 0
SayOff == -1
States == {"STOPPED", "STARTING", "RUNNING", "STOPPING"}

isJumpingSumoConnected == mJumpingSumo # 0 /\ mState[mJumpingSumo] = "RUNNING"
MainIdle == left = 0

LinkInit ==
  /\ mState = [d \in Drones |-> "STOPPED"] /\ mJumpingSumo = 0
  /\ request = [d \in Drones |-> "none"] /\ due = {} /\ posts = <<>>
  /\ left = 0 /\ checking = FALSE
  /\ bound = FALSE /\ mStartDiscoveryAfterConnection = FALSE /\ discovering = FALSE
  /\ destroyed = FALSE /\ scanning = FALSE /\ label = "off" /\ refused = {}

-----------------------------------------------------------------------------
(* The drone controller and its callback.                                  *)

\* start() leads to STARTING and then RUNNING or, on an error, STOPPED; a stop()
\* or a lost link to STOPPING and STOPPED
StateFollows(old, new, asked) ==
  \/ old = "STOPPED"  /\ asked = "start" /\ new = "STARTING"
  \/ old = "STARTING" /\ new \in {"RUNNING", "STOPPED"}
  \/ old = "RUNNING"  /\ new = "STOPPING"
  \/ old = "STOPPING" /\ new = "STOPPED"

onStateChanged(d) ==
  /\ d \notin due
  /\ \E new \in States :
       /\ StateFollows(mState[d], new, request[d])
       /\ mState' = [mState EXCEPT ![d] = new]
       /\ request' = [request EXCEPT ![d] = IF new = "RUNNING" THEN @ ELSE "none"]
  /\ due' = due \union {d}
  /\ UNCHANGED <<mJumpingSumo, left, checking, search, screen, refused>>

\* mHandler.post of the end of onStateChanged
PostNotify(d) ==
  /\ d \in due /\ due' = due \ {d}
  /\ posts' = Append(posts, d)
  /\ UNCHANGED <<mState, request, mJumpingSumo, left, checking, search,
                 scanning, label, refused>>

-----------------------------------------------------------------------------
(* The main thread.                                                        *)

\* onJumpingSumoConnected, after the runnables `rest'
ShowConnected(rest) ==
  /\ scanning' = FALSE /\ posts' = Append(rest, SayOn)
  /\ UNCHANGED <<drone, refused>>

\* Mutant: the drone is stopped and the label is left alone.
DisconnectSilently(rest) ==
  /\ scanning' = FALSE /\ posts' = rest
  /\ IF isJumpingSumoConnected
     THEN request' = [request EXCEPT ![mJumpingSumo] = "stop"]
     ELSE UNCHANGED request
  /\ UNCHANGED <<mState, due, refused>>

\* Mutant: disconnect() does not look at mState.
DisconnectInAnyState(rest) ==
  /\ scanning' = FALSE
  /\ posts' = IF mJumpingSumo = 0 THEN rest ELSE Append(rest, SayOff)
  /\ request' = IF mJumpingSumo = 0 THEN request
                ELSE [request EXCEPT ![mJumpingSumo] = "stop"]
  /\ UNCHANGED <<mState, due, refused>>

\* disconnectJumpingSumo: the last drone is told to stop, and a refusal ignored
disconnectJumpingSumo(rest) ==
  /\ scanning' = FALSE
  /\ posts' = IF mJumpingSumo = 0 THEN rest ELSE Append(rest, SayOff)
  /\ \/ /\ isJumpingSumoConnected
        /\ \/ /\ request' = [request EXCEPT ![mJumpingSumo] = "stop"]
              /\ UNCHANGED refused
           \/ /\ refused' = refused \union {mJumpingSumo}
              /\ UNCHANGED request
     \/ /\ ~isJumpingSumoConnected /\ UNCHANGED <<request, refused>>
  /\ UNCHANGED <<mState, due>>

\* Mutant: a drone that runs is only announced while no scan is shown.
NotifyUnlessScanning ==
  /\ MainIdle /\ posts # <<>> /\ Head(posts) \in Drones
  /\ LET state == mState[Head(posts)] rest == Tail(posts)
     IN \/ state = "RUNNING" /\ ~scanning /\ ShowConnected(rest)
        \/ state = "STOPPED" /\ disconnectJumpingSumo(rest)
        \/ /\ state \in {"STARTING", "STOPPING"} \/ (state = "RUNNING" /\ scanning)
           /\ posts' = rest /\ UNCHANGED <<drone, scanning, refused>>
  /\ UNCHANGED <<mJumpingSumo, left, checking, search, label>>

\* notifyConnectionChanged reads mState when it runs, not when it was posted;
\* any drone that stopped disconnects the last one made
NotifyConnectionChanged ==
  /\ MainIdle /\ posts # <<>> /\ Head(posts) \in Drones
  /\ LET state == mState[Head(posts)] rest == Tail(posts)
     IN \/ state = "RUNNING" /\ ShowConnected(rest)
        \/ state = "STOPPED" /\ disconnectJumpingSumo(rest)
        \/ /\ state \in {"STARTING", "STOPPING"}
           /\ posts' = rest /\ UNCHANGED <<drone, scanning, refused>>
  /\ UNCHANGED <<mJumpingSumo, left, checking, search, label>>

SetLabel ==
  /\ MainIdle /\ posts # <<>> /\ Head(posts) \in {SayOn, SayOff}
  /\ label' = (IF Head(posts) = SayOn THEN "on" ELSE "off") /\ posts' = Tail(posts)
  /\ UNCHANGED <<drone, mJumpingSumo, left, checking, search, scanning, refused>>

\* onServicesDevicesListUpdated: the list holds any number of drones
ReadList == left' \in 0..(MaxFound - mJumpingSumo) /\ UNCHANGED checking

\* FindJumpingSumo.startDiscovering, now or once the service is bound
StartDiscovering ==
  \/ /\ bound /\ ReadList
     /\ discovering' = TRUE /\ mStartDiscoveryAfterConnection' = FALSE
     /\ UNCHANGED bound
  \/ /\ ~bound /\ mStartDiscoveryAfterConnection' = TRUE
     /\ UNCHANGED <<left, checking, bound, discovering>>

\* the connect button
onClick ==
  /\ MainIdle /\ ~destroyed /\ Len(posts) <= MaxPosts
  /\ \/ /\ isJumpingSumoConnected /\ disconnectJumpingSumo(posts)
        /\ UNCHANGED <<left, checking, search>>
     \/ /\ ~isJumpingSumoConnected /\ scanning /\ scanning' = FALSE
        /\ UNCHANGED <<drone, posts, refused, left, checking, search>>
     \/ /\ ~isJumpingSumoConnected /\ ~scanning /\ scanning' = TRUE
        /\ StartDiscovering
        /\ UNCHANGED <<drone, posts, refused, destroyed>>
  /\ UNCHANGED <<mJumpingSumo, label>>

ServiceConnected ==
  /\ MainIdle /\ ~destroyed /\ ~bound /\ bound' = TRUE
  /\ \/ /\ mStartDiscoveryAfterConnection
        /\ mStartDiscoveryAfterConnection' = FALSE /\ discovering' = TRUE /\ ReadList
     \/ /\ ~mStartDiscoveryAfterConnection
        /\ UNCHANGED <<mStartDiscoveryAfterConnection, discovering, left, checking>>
  /\ UNCHANGED <<drone, mJumpingSumo, screen, refused, destroyed>>

ServiceDisconnected ==
  /\ MainIdle /\ bound /\ bound' = FALSE
  /\ UNCHANGED <<drone, mJumpingSumo, left, checking, mStartDiscoveryAfterConnection,
                 discovering, destroyed, screen, refused>>

\* onDestroy also unbinds the service; the controllers and their notices go on
onDestroy ==
  /\ MainIdle /\ ~destroyed /\ Len(posts) <= MaxPosts /\ destroyed' = TRUE
  /\ disconnectJumpingSumo(posts)
  /\ bound' = FALSE
  /\ UNCHANGED <<mJumpingSumo, left, checking, mStartDiscoveryAfterConnection,
                 discovering, label>>

\* discovery is never stopped: a cancelled scan still hears of drones
ListUpdated ==
  /\ MainIdle /\ bound /\ discovering /\ ReadList
  /\ UNCHANGED <<drone, mJumpingSumo, search, screen, refused>>

\* onFindJumpingSumo: a new JumpingSumo for every drone of every list; connect()
\* fails without a controller or when start() does
FindDrone ==
  /\ left > 0 /\ ~checking
  /\ mJumpingSumo' = mJumpingSumo + 1
  /\ \/ /\ request' = [request EXCEPT ![mJumpingSumo'] = "start"]
        /\ checking' = TRUE /\ UNCHANGED <<left, posts, scanning>>
     \/ /\ posts' = Append(posts, SayOff) /\ scanning' = FALSE
        /\ left' = left - 1 /\ UNCHANGED <<request, checking>>
  /\ UNCHANGED <<mState, due, search, label, refused>>

\* the drone controller may already run
CheckConnected ==
  /\ checking /\ checking' = FALSE /\ left' = left - 1
  /\ \/ isJumpingSumoConnected /\ ShowConnected(posts)
     \/ ~isJumpingSumoConnected /\ UNCHANGED <<drone, posts, scanning, refused>>
  /\ UNCHANGED <<mJumpingSumo, search, label>>

\* onNotFindJumpingSumo: the product is not a known one
UnknownProduct ==
  /\ left > 0 /\ ~checking
  /\ left' = left - 1 /\ scanning' = FALSE
  /\ UNCHANGED <<drone, mJumpingSumo, checking, search, posts, label, refused>>

MainThread ==
  \/ NotifyConnectionChanged \/ SetLabel \/ onClick
  \/ ServiceConnected \/ ServiceDisconnected \/ ListUpdated \/ onDestroy
  \/ FindDrone \/ CheckConnected \/ UnknownProduct

LinkNext == MainThread \/ (\E d \in Drones : onStateChanged(d) \/ PostNotify(d))

LinkSpec == LinkInit /\ [][LinkNext]_linkVars

-----------------------------------------------------------------------------
LinkTypeOK ==
  /\ mState \in [Drones -> States] /\ mJumpingSumo \in 0..MaxFound
  /\ request \in [Drones -> {"none", "start", "stop"}] /\ due \subseteq Drones
  /\ posts \in Seq(SayOff..MaxFound)
  /\ left \in 0..MaxFound /\ checking \in BOOLEAN
  /\ bound \in BOOLEAN /\ mStartDiscoveryAfterConnection \in BOOLEAN
  /\ discovering \in BOOLEAN /\ destroyed \in BOOLEAN /\ scanning \in BOOLEAN
  /\ label \in {"on", "off"} /\ refused \subseteq Drones

Settled == ~destroyed /\ MainIdle /\ posts = <<>> /\ due = {}

\* Once the posted runnables have run, the label, while there is one, says connected only while a
\* drone really is: every drone that stops, the last one made or an older one
\* nobody points to any more, brings a runnable that sets the label again.
LabelNotStale ==
  (Settled /\ label = "on") => \E d \in Drones : mState[d] \in {"RUNNING", "STOPPING"}

\* Conversely the drone the gestures go to never runs unannounced: unless it was
\* told to stop, or refused to, the label says connected and no scan is shown,
\* however the notices of older drones are ordered with its own.
RunningShown ==
  (Settled /\ isJumpingSumoConnected
     /\ request[mJumpingSumo] # "stop" /\ mJumpingSumo \notin refused)
    => label = "on" /\ ~scanning

\* The life of each drone as the steering code sees it.
life ==
  [d \in Drones |-> IF d > mJumpingSumo THEN "NONE"
                    ELSE IF request[d] = "start" /\ mState[d] = "STOPPED" THEN "READY"
                    ELSE mState[d]]

Life == INSTANCE DroneLife

\* Whatever clicks, lists and notices do, drones are made one after the other and
\* each runs at most once: none is started again, and none is told to stop before
\* it runs.
ImplementsLife == Life!LifeSpec
=============================================================================
