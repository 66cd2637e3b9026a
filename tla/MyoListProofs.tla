---------------------------- MODULE MyoListProofs ----------------------------
(***************************************************************************)
(* Proofs about MyoList, for any devices and any number of scans.          *)
(*                                                                         *)
(* Three chains of facts. A name is shown only of a Myo whose name was     *)
(* read (Shown), and its dispatcher was stopped before that. The main      *)
(* activity has the Myo selected only once the list is left (Chosen). And  *)
(* an open list has something to press, or a runnable that will add it, or *)
(* a scan that will end (Offered).                                         *)
(***************************************************************************)
EXTENDS MyoList, SequenceTheorems, TLAPS

Elem(s) == {s[i] : i \in 1..Len(s)}

\* A scan that starts has a connector left, and an animation of its own.
Counted ==
  /\ main = "scanning" => retrying
  /\ retrying => mConnector < MaxScans
  /\ animations <= mConnector

\* A name is asked for when the device enters the map, and shown when it was read.
Shown ==
  /\ \A m \in Myos : m[2] \notin mScanMap[m[1]] => name[m] = "none"
  /\ \A m \in named : name[m] = "read"
  /\ \A m \in Myos : <<"name", m>> \in Elem(posts) => name[m] = "read"

Chosen ==
  /\ list \in {"open", "finishing"} => mMyo = NoMyo
  /\ list \in {"left", "destroyed"} => mMyo = mMyoSelected
  /\ knew => mMyoSelected \in named

Offered ==
  list = "open" =>
    \/ buttons # {} \/ retry
    \/ \E p \in Elem(posts) : p[1] \in {"button", "retry"}
    \/ scan[mConnector] = "on" /\ scanThread[mConnector] \in {"sleeping", "stopping", "passed"}

IInv == TypeOK /\ Counted /\ Shown /\ Chosen /\ ChosenStays /\ OthersReleased /\ Offered

-----------------------------------------------------------------------------
LEMMA Appended ==
  ASSUME NEW s \in Seq(Posts), NEW p \in Posts
  PROVE  Append(s, p) \in Seq(Posts) /\ Elem(Append(s, p)) = Elem(s) \union {p}
<1>1. /\ Append(s, p) \in Seq(Posts) /\ Len(Append(s, p)) = Len(s) + 1 /\ Len(s) \in Nat
      /\ \A i \in 1..Len(s) : Append(s, p)[i] = s[i]
      /\ Append(s, p)[Len(s) + 1] = p
  BY AppendProperties, LenProperties
<1> QED BY <1>1 DEF Elem

LEMMA Tailed ==
  ASSUME NEW s \in Seq(Posts), s # <<>>
  PROVE  /\ Tail(s) \in Seq(Posts) /\ Head(s) \in Posts /\ Head(s) \in Elem(s)
         /\ Elem(Tail(s)) \subseteq Elem(s)
         /\ Elem(s) \subseteq Elem(Tail(s)) \union {Head(s)}
<1>1. /\ Tail(s) \in Seq(Posts) /\ Head(s) = s[1] /\ Head(s) \in Posts
      /\ Len(s) \in Nat \ {0} /\ Len(Tail(s)) = Len(s) - 1
      /\ \A i \in 1..Len(Tail(s)) : Tail(s)[i] = s[i + 1]
  BY HeadTailProperties, EmptySeq, LenProperties, ElementOfSeq
<1>2. Head(s) \in Elem(s)
  BY <1>1 DEF Elem
<1>3. Elem(Tail(s)) \subseteq Elem(s)
  <2>1. \A i \in 1..Len(Tail(s)) : i + 1 \in 1..Len(s)
    BY <1>1
  <2> QED BY <1>1, <2>1 DEF Elem
<1>4. Elem(s) \subseteq Elem(Tail(s)) \union {Head(s)}
  <2>1. \A i \in 1..Len(s) : i = 1 \/ (i - 1 \in 1..Len(Tail(s)) /\ s[i] = Tail(s)[i - 1])
    BY <1>1
  <2> QED BY <1>1, <2>1 DEF Elem
<1> QED BY <1>1, <1>2, <1>3, <1>4

\* The first runnable, by its kind.
LEMMA FirstPost ==
  ASSUME posts \in Seq(Posts), posts # <<>>
  PROVE  /\ Head(posts) = <<Head(posts)[1], Head(posts)[2]>>
         /\ Head(posts)[1] \in {"result", "button", "name"} => Head(posts)[2] \in Myos
         /\ Head(posts)[1] \in {"result", "button", "name", "retry"}
<1>1. Head(posts) \in Posts
  BY Tailed
<1> QED BY <1>1 DEF Posts

\* How the looper's queue changes.
LEMMA PostsMove ==
  ASSUME TypeOK, [Next]_vars
  PROVE  /\ posts' \in Seq(Posts)
         /\ \/ UNCHANGED posts
            \/ \E p \in Posts : Elem(posts') = Elem(posts) \union {p} /\ p[1] \in {"result", "retry"}
            \/ \E m \in Myos : Elem(posts') = Elem(posts) \union {<<"name", m>>} /\ name'[m] = "read"
            \/ RunPost
<1>0. posts \in Seq(Posts) /\ name \in [Myos -> {"none", "asked", "told", "read"}]
  BY DEF TypeOK
<1>1. ASSUME NEW k, ScanFinished(k)
      PROVE  /\ posts' \in Seq(Posts)
             /\ \/ UNCHANGED posts
                \/ \E p \in Posts : Elem(posts') = Elem(posts) \union {p} /\ p[1] \in {"result", "retry"}
  <2>1. <<"retry", NoMyo>> \in Posts
    BY DEF Posts
  <2>2. posts' = posts \/ posts' = Append(posts, <<"retry", NoMyo>>)
    BY <1>1 DEF ScanFinished
  <2> QED BY <1>0, <2>1, <2>2, Appended
<1>2. ASSUME NEW k \in Scans, NEW d \in Devices, Result(k, d)
      PROVE  /\ posts' \in Seq(Posts)
             /\ \E p \in Posts : Elem(posts') = Elem(posts) \union {p} /\ p[1] \in {"result", "retry"}
  <2>1. <<"result", <<k, d>>>> \in Posts
    BY DEF Posts, Myos
  <2> QED BY <1>0, <1>2, <2>1, Appended DEF Result
<1>3. ASSUME NEW m \in Myos, onDeviceNameRead(m)
      PROVE  /\ posts' \in Seq(Posts)
             /\ \/ UNCHANGED posts
                \/ Elem(posts') = Elem(posts) \union {<<"name", m>>} /\ name'[m] = "read"
  <2>1. <<"name", m>> \in Posts
    BY DEF Posts
  <2> QED BY <1>0, <1>3, <2>1, Appended DEF onDeviceNameRead, DisconnectThenTell
<1>4. ASSUME RunPost
      PROVE  posts' \in Seq(Posts)
  <2>1. posts # <<>> /\ Post(Head(posts)[1], Head(posts)[2])
    BY <1>4 DEF RunPost
  <2>2. Tail(posts) \in Seq(Posts)
    BY <1>0, <2>1, Tailed
  <2>3. CASE Head(posts)[1] = "result" /\ onLeScan(Head(posts)[2])
    <3>1. <<"button", Head(posts)[2]>> \in Posts
      BY <1>0, <2>1, <2>3, FirstPost DEF Posts
    <3> QED BY <2>2, <2>3, <3>1, Appended DEF onLeScan
  <2> QED BY <2>1, <2>2, <2>3 DEF Post
<1>5. ASSUME UNCHANGED posts
      PROVE  posts' \in Seq(Posts)
  BY <1>0, <1>5
<1>6. \/ UNCHANGED posts
      \/ \E k : ScanFinished(k)
      \/ \E k \in Scans, d \in Devices : Result(k, d)
      \/ \E m \in Myos : onDeviceNameRead(m)
      \/ RunPost
  BY DEF Next, MainThread, User, Android, ScanThread, MainTests, MainStops, StartScanning,
         RetryClick, Back, Click, ActivityResult, Destroy, AnimationEnds, ScanTimeout,
         ThreadTests, ThreadStops, vars
<1> QED BY <1>1, <1>2, <1>3, <1>4, <1>5, <1>6

-----------------------------------------------------------------------------
(* Types.                                                                  *)

LEMMA TypeStep ==
  ASSUME TypeOK, Counted, [Next]_vars
  PROVE  TypeOK' /\ Counted'
<1> DEFINE ScanStates == {"none", "on", "over"}
           Threads == {"none", "sleeping", "stopping", "passed", "ended"}
<1>0. /\ mConnector \in Scans /\ MaxScans \in Nat \ {0}
      /\ scan \in [Scans -> ScanStates] /\ scanThread \in [Scans -> Threads]
      /\ scanner \subseteq Scans /\ mScanMap \in [Scans -> SUBSET Devices]
      /\ main \in {"idle", "stopping", "passed", "scanning"} /\ retrying \in BOOLEAN
      /\ list \in {"open", "finishing", "left", "destroyed"}
      /\ buttons \subseteq Myos /\ retry \in BOOLEAN /\ named \subseteq Myos
      /\ loading \in BOOLEAN /\ animations \in 0..MaxScans
      /\ name \in [Myos -> {"none", "asked", "told", "read"}] /\ mRunning \subseteq Myos
      /\ mMyoSelected \in Myos \union {NoMyo} /\ mMyo \in Myos \union {NoMyo}
      /\ knew \in BOOLEAN /\ NoMyo \notin Myos
  BY ListConstants DEF TypeOK
<1>1. posts' \in Seq(Posts)
  BY PostsMove
<1>2. ASSUME NEW k \in Scans, ScanThread(k)
      PROVE  TypeOK' /\ Counted'
  <2>1. scan' \in [Scans -> ScanStates] /\ scanThread' \in [Scans -> Threads]
        /\ scanner' \subseteq Scans
    BY <1>0, <1>2 DEF ScanThread, ScanTimeout, ThreadTests, ThreadStops, ScanFinished, scanVars
  <2>2. loading' \in BOOLEAN
    BY <1>0, <1>2, Zenon DEF ScanThread, ScanTimeout, ThreadTests, ThreadStops, ScanFinished, show
  <2>3. UNCHANGED <<mConnector, mScanMap, main, retrying, screen, animations, myoVars, choice>>
    BY <1>2 DEF ScanThread, ScanTimeout, ThreadTests, ThreadStops, show
  <2> QED BY <1>0, <1>1, <2>1, <2>2, <2>3 DEF TypeOK, Counted, screen, myoVars, choice
<1>3. ASSUME MainTests \/ MainStops
      PROVE  TypeOK' /\ Counted'
  <2>1. scan' \in [Scans -> ScanStates]
    BY <1>0, <1>3 DEF MainTests, MainStops, ScanFinished, scanVars
  <2>2. loading' \in BOOLEAN
    BY <1>0, <1>3, Zenon DEF MainTests, MainStops, ScanFinished, show
  <2>3. main' \in {"idle", "stopping", "passed", "scanning"} /\ (main' = "scanning" => retrying)
    BY <1>3 DEF MainTests, MainStops, Stopped
  <2>4. UNCHANGED <<mConnector, scanThread, scanner, mScanMap, retrying, screen, animations, myoVars, choice>>
    BY <1>3 DEF MainTests, MainStops, scanVars, show
  <2> QED BY <1>0, <1>1, <2>1, <2>2, <2>3, <2>4 DEF TypeOK, Counted, screen, myoVars, choice
<1>4. ASSUME StartScanning
      PROVE  TypeOK' /\ Counted'
  <2>1. mConnector + 1 \in Scans /\ mConnector \in Nat /\ animations + 1 <= mConnector + 1
    BY <1>0, <1>4 DEF StartScanning, Counted, Scans
  <2>2. /\ mConnector' = mConnector + 1 /\ animations' = animations + 1 /\ main' = "idle"
        /\ scan' = [scan EXCEPT ![mConnector + 1] = "on"]
        /\ scanThread' = [scanThread EXCEPT ![mConnector + 1] = "sleeping"]
        /\ scanner' = scanner \union {mConnector + 1} /\ buttons' = {}
        /\ UNCHANGED <<mScanMap, named, name, mRunning, list, mMyoSelected, mMyo, knew>>
    BY <1>4 DEF StartScanning, myoVars, choice
  <2>3. loading' \in BOOLEAN /\ retry' \in BOOLEAN /\ retrying' \in BOOLEAN /\ ~retrying'
    BY <1>4, Zenon DEF StartScanning
  <2>4. animations' \in 0..MaxScans
    BY <1>0, <2>1, <2>2 DEF Scans
  <2>5. /\ mConnector' \in Scans /\ scan' \in [Scans -> ScanStates]
        /\ scanThread' \in [Scans -> Threads] /\ scanner' \subseteq Scans
    BY <1>0, <2>1, <2>2
  <2> QED BY <1>0, <1>1, <2>1, <2>2, <2>3, <2>4, <2>5 DEF TypeOK, Counted
<1>5. ASSUME AnimationEnds
      PROVE  TypeOK' /\ Counted'
  <2>1. animations' \in 0..MaxScans /\ animations' <= mConnector
    BY <1>0, <1>5 DEF AnimationEnds, Counted, Scans
  <2>2. UNCHANGED <<mConnector, scanVars, mScanMap, main, retrying, screen, loading, myoVars, choice>>
    BY <1>5 DEF AnimationEnds
  <2> QED BY <1>0, <1>1, <2>1, <2>2 DEF TypeOK, Counted, scanVars, screen, myoVars, choice
<1>6. ASSUME RetryClick
      PROVE  TypeOK' /\ Counted'
  <2>1. retrying' \in BOOLEAN /\ main' = "stopping"
    BY <1>6, Zenon DEF RetryClick
  <2> QED BY <1>0, <1>1, <1>6, <2>1 DEF RetryClick, TypeOK, Counted, scanVars, screen, show, myoVars, choice
<1>7. ASSUME NEW m \in Myos, Click(m)
      PROVE  TypeOK' /\ Counted'
  <2>1. knew' \in BOOLEAN
    <3>1. knew' = (m \in named)
      BY <1>7 DEF Click
    <3>2. CASE m \in named
      BY <3>1, <3>2
    <3>3. CASE m \notin named
      BY <3>1, <3>3
    <3> QED BY <3>2, <3>3
  <2>2. main' = "stopping" /\ list' = "finishing" /\ mMyoSelected' = m
        /\ UNCHANGED <<mConnector, scanVars, mScanMap, retrying, posts, screen, show, myoVars, mMyo>>
    BY <1>7 DEF Click
  <2> QED BY <1>0, <1>1, <2>1, <2>2 DEF TypeOK, Counted, scanVars, screen, show, myoVars
<1>8. ASSUME Back \/ Destroy
      PROVE  TypeOK' /\ Counted'
  BY <1>0, <1>1, <1>8 DEF Back, Destroy, TypeOK, Counted, scanVars, screen, show, myoVars
<1>9. ASSUME ActivityResult
      PROVE  TypeOK' /\ Counted'
  <2>1. mRunning' \subseteq Myos /\ mMyo' \in Myos \union {NoMyo}
    BY <1>0, <1>9 DEF ActivityResult
  <2> QED BY <1>0, <1>1, <1>9, <2>1 DEF ActivityResult, TypeOK, Counted, scanVars, screen, show
<1>10. ASSUME NEW k \in Scans, NEW d \in Devices, Result(k, d)
       PROVE  TypeOK' /\ Counted'
  <2>1. UNCHANGED <<mConnector, scanVars, mScanMap, main, retrying, screen, show, myoVars, choice>>
    BY <1>10 DEF Result
  <2> QED BY <1>0, <1>1, <2>1 DEF TypeOK, Counted, scanVars, screen, show, myoVars, choice
<1>11. ASSUME RunPost
       PROVE  TypeOK' /\ Counted'
  <2> DEFINE kind == Head(posts)[1]
             m == Head(posts)[2]
  <2>1. /\ posts # <<>> /\ Post(kind, m) /\ posts \in Seq(Posts)
        /\ UNCHANGED <<mConnector, scanVars, main, retrying, show, choice>>
    BY <1>11 DEF RunPost, TypeOK
  <2>2. kind \in {"result", "button", "name"} => m \in Myos
    BY <2>1, FirstPost
  <2>3. retry' \in BOOLEAN
    BY <1>0, <2>1, Zenon DEF Post, screen
  <2>4. buttons' \subseteq Myos /\ named' \subseteq Myos
    BY <1>0, <2>1, <2>2 DEF Post, screen
  <2>5. CASE kind = "result" /\ onLeScan(m)
    <3>1. m \in Myos /\ m[1] \in Scans /\ m[2] \in Devices
      BY <2>2, <2>5 DEF Myos
    <3>2. /\ mScanMap' \in [Scans -> SUBSET Devices] /\ mRunning' \subseteq Myos
          /\ name' \in [Myos -> {"none", "asked", "told", "read"}]
      BY <1>0, <2>5, <3>1 DEF onLeScan, myoVars
    <3> QED BY <1>0, <1>1, <2>1, <2>3, <2>4, <3>2 DEF TypeOK, Counted, scanVars, show, choice
  <2>6. CASE UNCHANGED <<mScanMap, myoVars>>
    BY <1>0, <1>1, <2>1, <2>3, <2>4, <2>6 DEF TypeOK, Counted, scanVars, show, choice, myoVars
  <2> QED BY <2>1, <2>5, <2>6 DEF Post
<1>12. ASSUME NEW m \in Myos, onDeviceNameRead(m)
       PROVE  TypeOK' /\ Counted'
  <2>1. name' \in [Myos -> {"none", "asked", "told", "read"}] /\ mRunning' \subseteq Myos
    BY <1>0, <1>12 DEF onDeviceNameRead, DisconnectThenTell
  <2>2. UNCHANGED <<mConnector, scanVars, mScanMap, main, retrying, screen, show, choice>>
    BY <1>12 DEF onDeviceNameRead
  <2> QED BY <1>0, <1>1, <2>1, <2>2 DEF TypeOK, Counted, scanVars, screen, show, choice
<1>13. ASSUME UNCHANGED vars
       PROVE  TypeOK' /\ Counted'
  BY <1>0, <1>1, <1>13 DEF vars, scanVars, screen, show, myoVars, choice, TypeOK, Counted
<1> QED BY <1>2, <1>3, <1>4, <1>5, <1>6, <1>7, <1>8, <1>9, <1>10, <1>11, <1>12, <1>13
        DEF Next, MainThread, User, Android

-----------------------------------------------------------------------------
(* Names, and who is connected.                                            *)

\* What a step may do to the name of a Myo and to its dispatcher.
LEMMA NameMoves ==
  ASSUME TypeOK, Shown, [Next]_vars
  PROVE  \/ UNCHANGED <<mScanMap, name, mRunning>>
         \/ ActivityResult
         \/ \E m \in Myos :
              /\ name[m] = "none" /\ name' = [name EXCEPT ![m] = "asked"]
              /\ mScanMap' = [mScanMap EXCEPT ![m[1]] = @ \union {m[2]}]
              /\ mRunning' = mRunning \union {m} /\ UNCHANGED <<named, choice>>
         \/ \E m \in Myos :
              /\ name[m] = "asked" /\ name' = [name EXCEPT ![m] = "told"]
              /\ mRunning' = mRunning \ {m} /\ UNCHANGED <<mScanMap, named, choice>>
         \/ \E m \in Myos :
              /\ name[m] = "told" /\ name' = [name EXCEPT ![m] = "read"]
              /\ UNCHANGED <<mScanMap, mRunning, named, choice>>
<1>1. ASSUME RunPost
      PROVE  \/ UNCHANGED <<mScanMap, name, mRunning>>
             \/ \E m \in Myos :
                  /\ name[m] = "none" /\ name' = [name EXCEPT ![m] = "asked"]
                  /\ mScanMap' = [mScanMap EXCEPT ![m[1]] = @ \union {m[2]}]
                  /\ mRunning' = mRunning \union {m} /\ UNCHANGED <<named, choice>>
  <2> DEFINE kind == Head(posts)[1]
             m == Head(posts)[2]
  <2>1. posts # <<>> /\ Post(kind, m) /\ posts \in Seq(Posts) /\ UNCHANGED choice
    BY <1>1 DEF RunPost, TypeOK
  <2>2. CASE kind = "result" /\ onLeScan(m) /\ UNCHANGED screen
    <3>1. m \in Myos
      BY <2>1, <2>2, FirstPost
    <3>2. m[2] \notin mScanMap[m[1]] => name[m] = "none"
      BY <3>1 DEF Shown
    <3> QED BY <2>1, <2>2, <3>1, <3>2 DEF onLeScan, screen, myoVars
  <2>3. CASE UNCHANGED <<mScanMap, myoVars>>
    BY <2>3 DEF myoVars
  <2> QED BY <2>1, <2>2, <2>3 DEF Post
<1>2. ASSUME NEW m \in Myos, onDeviceNameRead(m)
      PROVE  \/ /\ name[m] = "asked" /\ name' = [name EXCEPT ![m] = "told"]
                /\ mRunning' = mRunning \ {m} /\ UNCHANGED <<mScanMap, named, choice>>
             \/ /\ name[m] = "told" /\ name' = [name EXCEPT ![m] = "read"]
                /\ UNCHANGED <<mScanMap, mRunning, named, choice>>
  BY <1>2 DEF onDeviceNameRead, DisconnectThenTell, screen
<1>3. \/ UNCHANGED <<mScanMap, name, mRunning>>
      \/ ActivityResult \/ RunPost \/ \E m \in Myos : onDeviceNameRead(m)
  BY DEF Next, MainThread, User, Android, ScanThread, MainTests, MainStops, StartScanning,
         RetryClick, Back, Click, Destroy, AnimationEnds, ScanTimeout, Result,
         ThreadTests, ThreadStops, vars, myoVars
<1> QED BY <1>1, <1>2, <1>3

LEMMA ShownStep ==
  ASSUME TypeOK, Shown, [Next]_vars
  PROVE  Shown'
<1>0. /\ name \in [Myos -> {"none", "asked", "told", "read"}] /\ posts \in Seq(Posts)
      /\ mScanMap \in [Scans -> SUBSET Devices]
  BY DEF TypeOK
<1>1. \A m \in Myos : name[m] = "read" => name'[m] = "read"
  <2>1. UNCHANGED name \/ \E m \in Myos : name[m] # "read" /\ \E v : name' = [name EXCEPT ![m] = v]
    BY NameMoves DEF ActivityResult
  <2> QED BY <1>0, <2>1
<1>2. \A m \in Myos : m[2] \notin mScanMap'[m[1]] => name'[m] = "none"
  <2>1. CASE UNCHANGED <<mScanMap, name>>
    BY <2>1 DEF Shown
  <2>2. ASSUME NEW n \in Myos, name' = [name EXCEPT ![n] = "asked"],
               mScanMap' = [mScanMap EXCEPT ![n[1]] = @ \union {n[2]}]
        PROVE  \A m \in Myos : m[2] \notin mScanMap'[m[1]] => name'[m] = "none"
    <3>1. n[1] \in Scans /\ n[2] \in mScanMap'[n[1]]
      BY <1>0, <2>2 DEF Myos
    <3>2. \A m \in Myos : m[1] \in Scans /\ mScanMap[m[1]] \subseteq mScanMap'[m[1]]
      BY <1>0, <2>2, <3>1 DEF Myos
    <3> QED BY <1>0, <2>2, <3>1, <3>2 DEF Shown
  <2>3. ASSUME NEW n \in Myos, NEW v, name[n] # "none", name' = [name EXCEPT ![n] = v],
               UNCHANGED mScanMap
        PROVE  \A m \in Myos : m[2] \notin mScanMap'[m[1]] => name'[m] = "none"
    BY <1>0, <2>3 DEF Shown
  <2> QED BY <2>1, <2>2, <2>3, NameMoves DEF ActivityResult
<1>3. \A m \in Myos : <<"name", m>> \in Elem(posts') => name'[m] = "read"
  <2>1. CASE UNCHANGED posts
    BY <1>1, <2>1 DEF Shown
  <2>2. CASE \E p \in Posts : Elem(posts') = Elem(posts) \union {p} /\ p[1] \in {"result", "retry"}
    BY <1>1, <2>2 DEF Shown
  <2>3. CASE \E m \in Myos : Elem(posts') = Elem(posts) \union {<<"name", m>>} /\ name'[m] = "read"
    BY <1>1, <2>3 DEF Shown
  <2>4. CASE RunPost
    <3>1. posts # <<>> /\ Post(Head(posts)[1], Head(posts)[2])
      BY <2>4 DEF RunPost
    <3>2. Elem(Tail(posts)) \subseteq Elem(posts) /\ Tail(posts) \in Seq(Posts)
      BY <1>0, <3>1, Tailed
    <3>3. CASE posts' = Tail(posts)
      BY <1>1, <3>2, <3>3 DEF Shown
    <3>4. CASE Head(posts)[1] = "result" /\ posts' = Append(Tail(posts), <<"button", Head(posts)[2]>>)
      <4>1. <<"button", Head(posts)[2]>> \in Posts
        BY <1>0, <3>1, <3>4, FirstPost DEF Posts
      <4>2. Elem(posts') = Elem(Tail(posts)) \union {<<"button", Head(posts)[2]>>}
        BY <3>2, <3>4, <4>1, Appended
      <4> QED BY <1>1, <3>2, <4>2 DEF Shown
    <3> QED BY <3>1, <3>3, <3>4 DEF Post, onLeScan
  <2> QED BY <2>1, <2>2, <2>3, <2>4, PostsMove
<1>4. \A m \in named' : name'[m] = "read"
  <2>1. CASE named' \subseteq named
    BY <1>1, <2>1 DEF Shown, TypeOK
  <2>2. CASE RunPost /\ Head(posts)[1] = "name" /\ named' = named \union {Head(posts)[2]}
    <3>1. posts # <<>> /\ Head(posts)[2] \in Myos /\ <<"name", Head(posts)[2]>> \in Elem(posts)
      BY <1>0, <2>2, FirstPost, Tailed DEF RunPost
    <3> QED BY <1>1, <2>2, <3>1 DEF Shown, TypeOK
  <2> QED BY <2>1, <2>2
          DEF Next, MainThread, User, Android, ScanThread, MainTests, MainStops, StartScanning,
              RetryClick, Back, Click, ActivityResult, Destroy, AnimationEnds, ScanTimeout, Result,
              ThreadTests, ThreadStops, RunPost, Post, onDeviceNameRead, vars, screen
<1> QED BY <1>2, <1>3, <1>4 DEF Shown

LEMMA ChosenStep ==
  ASSUME TypeOK, Shown, Chosen, ChosenStays, OthersReleased, [Next]_vars
  PROVE  Chosen' /\ ChosenStays' /\ OthersReleased'
<1>0. /\ name \in [Myos -> {"none", "asked", "told", "read"}]
      /\ mMyo \in Myos \union {NoMyo} /\ named \subseteq Myos /\ mRunning \subseteq Myos
      /\ list \in {"open", "finishing", "left", "destroyed"} /\ NoMyo \notin Myos
  BY ListConstants DEF TypeOK
<1>1. named \subseteq named'
  BY DEF Next, MainThread, User, Android, ScanThread, MainTests, MainStops, StartScanning,
         RetryClick, Back, Click, ActivityResult, Destroy, AnimationEnds, ScanTimeout, Result,
         ThreadTests, ThreadStops, RunPost, Post, onDeviceNameRead, vars, screen
<1>2. Chosen'
  <2>1. CASE UNCHANGED choice
    BY <1>1, <2>1 DEF Chosen, choice
  <2>2. CASE \E m \in Myos : Click(m)
    BY <1>1, <2>2 DEF Click, Chosen
  <2>3. CASE Back \/ Destroy \/ ActivityResult
    BY <1>0, <1>1, <2>3 DEF Back, Destroy, ActivityResult, Chosen
  <2> QED BY <2>1, <2>2, <2>3
          DEF Next, MainThread, User, Android, ScanThread, MainTests, MainStops, StartScanning,
              RetryClick, AnimationEnds, ScanTimeout, Result, ThreadTests, ThreadStops,
              RunPost, onDeviceNameRead, vars
<1>3. UNCHANGED mMyo \/ ActivityResult
  BY DEF Next, MainThread, User, Android, ScanThread, MainTests, MainStops, StartScanning,
         RetryClick, Back, Click, Destroy, AnimationEnds, ScanTimeout, Result,
         ThreadTests, ThreadStops, RunPost, onDeviceNameRead, vars, choice
\* a Myo is only clicked before the main activity has one
<1>4. mMyo # NoMyo => (UNCHANGED knew \/ ActivityResult)
  BY <1>0 DEF Chosen, Next, MainThread, User, Android, ScanThread, MainTests, MainStops,
         StartScanning, RetryClick, Back, Click, Destroy, AnimationEnds, ScanTimeout, Result,
         ThreadTests, ThreadStops, RunPost, onDeviceNameRead, vars, choice
<1>5. mMyo # NoMyo /\ knew => name[mMyo] = "read"
  BY <1>0 DEF Chosen, Shown
<1>6. CASE ActivityResult
  <2>1. mMyo = NoMyo /\ mMyo' = mMyoSelected /\ UNCHANGED name
        /\ mRunning' = mRunning \union ({mMyoSelected} \ {NoMyo})
    BY <1>6 DEF ActivityResult, Chosen
  <2>2. ChosenStays'
    BY <2>1 DEF ChosenStays
  <2>3. OthersReleased'
    BY <1>0, <2>1 DEF OthersReleased
  <2> QED BY <1>2, <2>2, <2>3
<1>7. CASE ~ActivityResult
  <2>0. UNCHANGED mMyo
    BY <1>3, <1>7
  <2>1. CASE UNCHANGED <<name, mRunning>>
    BY <1>2, <1>4, <1>7, <2>0, <2>1 DEF ChosenStays, OthersReleased
  <2>2. ASSUME NEW m \in Myos, name[m] = "none", name' = [name EXCEPT ![m] = "asked"],
               mRunning' = mRunning \union {m}
        PROVE  ChosenStays' /\ OthersReleased'
    BY <1>0, <1>4, <1>7, <2>0, <2>2 DEF ChosenStays, OthersReleased
  <2>3. ASSUME NEW m \in Myos, name[m] = "asked", name' = [name EXCEPT ![m] = "told"],
               mRunning' = mRunning \ {m}
        PROVE  ChosenStays' /\ OthersReleased'
    BY <1>0, <1>4, <1>5, <1>7, <2>0, <2>3 DEF ChosenStays, OthersReleased
  <2>4. ASSUME NEW m \in Myos, name[m] = "told", name' = [name EXCEPT ![m] = "read"],
               mRunning' = mRunning
        PROVE  ChosenStays' /\ OthersReleased'
    BY <1>0, <1>4, <1>7, <2>0, <2>4 DEF ChosenStays, OthersReleased
  <2> QED BY <1>2, <1>7, <2>1, <2>2, <2>3, <2>4, NameMoves
<1> QED BY <1>6, <1>7

-----------------------------------------------------------------------------
(* Something to press.                                                     *)

LEMMA OfferedStep ==
  ASSUME TypeOK, Counted, Offered, [Next]_vars
  PROVE  Offered'
<1> DEFINE Waking == {"sleeping", "stopping", "passed"}
           Adds(s) == \E p \in Elem(s) : p[1] \in {"button", "retry"}
           Ends == scan[mConnector] = "on" /\ scanThread[mConnector] \in Waking
<1>0. /\ mConnector \in Scans /\ posts \in Seq(Posts)
      /\ scan \in [Scans -> {"none", "on", "over"}]
      /\ scanThread \in [Scans -> {"none", "sleeping", "stopping", "passed", "ended"}]
  BY DEF TypeOK
<1>1. list' = "open" => list = "open"
  BY DEF Next, MainThread, User, Android, ScanThread, MainTests, MainStops, StartScanning,
         RetryClick, Back, Click, ActivityResult, Destroy, AnimationEnds, ScanTimeout, Result,
         ThreadTests, ThreadStops, RunPost, onDeviceNameRead, vars, choice
<1>2. SUFFICES ASSUME list = "open"
               PROVE  buttons' # {} \/ retry' \/ Adds(posts)' \/ Ends'
  BY <1>1 DEF Offered
<1>3. buttons # {} \/ retry \/ Adds(posts) \/ Ends
  BY <1>2 DEF Offered
<1>4. CASE StartScanning
  <2>1. mConnector + 1 \in Scans
    BY <1>0, <1>4, ListConstants DEF StartScanning, Counted, Scans
  <2>2. Ends'
    BY <1>0, <1>4, <2>1 DEF StartScanning
  <2> QED BY <2>2
<1>5. ASSUME NEW k \in Scans, ScanFinished(k), UNCHANGED <<buttons, retry, mConnector>>,
             UNCHANGED scanThread \/ scanThread' = [scanThread EXCEPT ![k] = "ended"]
      PROVE  buttons' # {} \/ retry' \/ Adds(posts)'
  <2>1. CASE buttons # {} \/ retry
    BY <1>5, <2>1
  <2>2. CASE ~(buttons # {} \/ retry)
    <3>1. posts' = Append(posts, <<"retry", NoMyo>>) /\ <<"retry", NoMyo>> \in Posts
      BY <1>5, <2>2 DEF ScanFinished, Posts
    <3>2. Elem(posts') = Elem(posts) \union {<<"retry", NoMyo>>}
      BY <1>0, <3>1, Appended
    <3>3. <<"retry", NoMyo>> \in Elem(posts') /\ <<"retry", NoMyo>>[1] = "retry"
      BY <3>2
    <3> QED BY <3>3
  <2> QED BY <2>1, <2>2
<1>6. ASSUME NEW k \in Scans, ThreadStops(k)
      PROVE  buttons' # {} \/ retry' \/ Adds(posts)'
  BY <1>5, <1>6 DEF ThreadStops, screen
<1>7. CASE MainStops
  BY <1>0, <1>5, <1>7 DEF MainStops, screen
<1>8. CASE RunPost
  <2>1. posts # <<>> /\ Post(Head(posts)[1], Head(posts)[2]) /\ UNCHANGED <<mConnector, scanVars>>
    BY <1>8 DEF RunPost
  <2>2. /\ Elem(posts) \subseteq Elem(Tail(posts)) \union {Head(posts)}
        /\ Tail(posts) \in Seq(Posts)
    BY <1>0, <2>1, Tailed
  <2>3. Ends => Ends'
    BY <2>1 DEF scanVars
  <2>4. buttons # {} \/ retry => buttons' # {} \/ retry'
    BY <2>1 DEF Post, screen
  <2>5. Adds(posts) => buttons' # {} \/ retry' \/ Adds(posts)'
    <3>1. CASE Head(posts)[1] \in {"button", "retry"}
      BY <2>1, <3>1 DEF Post
    <3>2. CASE Head(posts)[1] \notin {"button", "retry"}
      <4>1. Adds(posts) => Adds(Tail(posts))
        BY <2>2, <3>2
      <4>2. CASE posts' = Tail(posts)
        BY <4>1, <4>2
      <4>3. CASE Head(posts)[1] = "result" /\ posts' = Append(Tail(posts), <<"button", Head(posts)[2]>>)
        <5>1. <<"button", Head(posts)[2]>> \in Posts
          BY <1>0, <2>1, <4>3, FirstPost DEF Posts
        <5>2. Elem(posts') = Elem(Tail(posts)) \union {<<"button", Head(posts)[2]>>}
          BY <2>2, <4>3, <5>1, Appended
        <5>3. <<"button", Head(posts)[2]>> \in Elem(posts') /\ <<"button", Head(posts)[2]>>[1] = "button"
          BY <5>2
        <5> QED BY <5>3
      <4> QED BY <2>1, <4>2, <4>3 DEF Post, onLeScan
    <3> QED BY <3>1, <3>2
  <2> QED BY <1>3, <2>3, <2>4, <2>5
<1>9. ASSUME UNCHANGED <<mConnector, scan, buttons, retry>>, Adds(posts) => Adds(posts)',
             \/ UNCHANGED scanThread
             \/ \E k \in Scans : ScanTimeout(k) \/ ThreadTests(k)
      PROVE  buttons' # {} \/ retry' \/ Adds(posts)' \/ Ends'
  <2>1. Ends => Ends'
    BY <1>0, <1>9 DEF ScanTimeout, ThreadTests
  <2> QED BY <1>3, <1>9, <2>1
<1>10. ~RunPost => (Adds(posts) => Adds(posts)')
  BY PostsMove
<1>11. \/ StartScanning \/ MainStops \/ RunPost
       \/ \E k \in Scans : ThreadStops(k)
       \/ /\ UNCHANGED <<mConnector, scan, buttons, retry>>
          /\ UNCHANGED scanThread \/ \E k \in Scans : ScanTimeout(k) \/ ThreadTests(k)
  BY DEF Next, MainThread, User, Android, ScanThread, MainTests, RetryClick, Back, Click,
         ActivityResult, Destroy, AnimationEnds, ScanTimeout, Result, ThreadTests,
         onDeviceNameRead, vars, scanVars, screen
<1> QED BY <1>4, <1>6, <1>7, <1>8, <1>9, <1>10, <1>11

-----------------------------------------------------------------------------
LEMMA InitInv == Init => IInv
<1> SUFFICES ASSUME Init PROVE IInv
  OBVIOUS
<1>0. MaxScans \in Nat \ {0} /\ 1 \in Scans /\ NoMyo \notin Myos
  BY ListConstants DEF Scans
<1>1. <<>> \in Seq(Posts) /\ Elem(<<>>) = {}
  BY DEF Elem
<1>2. TypeOK
  <2>1. /\ mConnector \in Scans /\ animations \in 0..MaxScans /\ scanner \subseteq Scans
        /\ scan \in [Scans -> {"none", "on", "over"}]
        /\ scanThread \in [Scans -> {"none", "sleeping", "stopping", "passed", "ended"}]
    BY <1>0 DEF Init
  <2>2. retrying \in BOOLEAN /\ retry \in BOOLEAN /\ loading \in BOOLEAN /\ knew \in BOOLEAN
    BY Zenon DEF Init
  <2> QED BY <1>1, <2>1, <2>2 DEF Init, TypeOK
<1>3. Counted /\ Shown /\ Chosen /\ ChosenStays /\ OthersReleased
  BY <1>1 DEF Init, Counted, Shown, Chosen, ChosenStays, OthersReleased
<1>4. Offered
  BY <1>0 DEF Init, Offered
<1> QED BY <1>2, <1>3, <1>4 DEF IInv

LEMMA Inductive == IInv /\ [Next]_vars => IInv'
BY TypeStep, ShownStep, ChosenStep, OfferedStep DEF IInv

LEMMA Invariant == Spec => []IInv
BY InitInv, Inductive, PTL DEF Spec

-----------------------------------------------------------------------------
\* The list, its connectors and the queue of the main looper are well formed, for
\* any devices and any number of scans of MyoList.
THEOREM TypeCorrect == Spec => []TypeOK
<1>1. IInv => TypeOK
  BY DEF IInv
<1> QED BY <1>1, Invariant, PTL

\* A Myo clicked when it showed its name is never disconnected by the callback of
\* readDeviceName, whatever scans and retries come before and after.
THEOREM ChosenIsKept == Spec => []ChosenStays
<1>1. IInv => ChosenStays
  BY DEF IInv
<1> QED BY <1>1, Invariant, PTL

\* Only the Myo chosen, and those still asked for their name, have a dispatcher.
THEOREM OthersAreReleased == Spec => []OthersReleased
<1>1. IInv => OthersReleased
  BY DEF IInv
<1> QED BY <1>1, Invariant, PTL

\* When the scans of the open list are over and the looper is empty, a button of a
\* Myo or the retry button is there.
THEOREM SomethingToPress == Spec => []NeverStuck
<1>1. IInv => NeverStuck
  <2> SUFFICES ASSUME IInv, list = "open", posts = <<>>,
                      \A k \in Scans : scanThread[k] \in {"none", "ended"}
               PROVE  buttons # {} \/ retry
    BY DEF NeverStuck
  <2>1. mConnector \in Scans /\ Elem(posts) = {}
    BY DEF IInv, TypeOK, Elem
  <2> QED BY <2>1 DEF IInv, Offered
<1> QED BY <1>1, Invariant, PTL
=============================================================================
