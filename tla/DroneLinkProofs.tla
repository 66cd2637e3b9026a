---------------------------- MODULE DroneLinkProofs ----------------------------
(***************************************************************************)
(* Proofs about DroneLink, for any number of drones and of clicks.         *)
(*                                                                         *)
(* What the label will say once the queue has run is EndsOn(posts, label). *)
(* It is on only while a drone runs or the notice that one stopped is on   *)
(* its way (Stale), and it is on for the drone in use, or the notice that  *)
(* it runs is on its way (Shown).                                          *)
(***************************************************************************)
EXTENDS DroneLink, SequenceTheorems, TLAPS

Post == SayOff..MaxFound

Holds(q, d) == \E i \in 1..Len(q) : q[i] = d
EndsOn(q, l) ==
  \/ \E i \in 1..Len(q) : q[i] = SayOn /\ \A j \in 1..Len(q) : j > i => q[j] # SayOff
  \/ l = "on" /\ ~Holds(q, SayOff)

Noticed(d) == d \in due \/ Holds(posts, d)

\* Drones that were not made or not started have never been heard of.
Fresh ==
  \A d \in Drones :
    /\ d > mJumpingSumo => mState[d] = "STOPPED" /\ request[d] = "none" /\ ~Noticed(d)
    /\ request[d] = "start" => mState[d] = "STOPPED" /\ ~Noticed(d)

Stale ==
  EndsOn(posts, label) =>
    \E d \in Drones : \/ mState[d] \in {"RUNNING", "STOPPING"}
                      \/ mState[d] = "STOPPED" /\ Noticed(d)

Shown ==
  (isJumpingSumoConnected /\ request[mJumpingSumo] # "stop" /\ mJumpingSumo \notin refused)
    => \/ Noticed(mJumpingSumo)
       \/ EndsOn(posts, label) /\ ~scanning

\* What is left of the list fits the objects still to be made.
Place == IF checking THEN left \in 1..(MaxFound - mJumpingSumo + 1) /\ mJumpingSumo > 0
         ELSE left \in 0..(MaxFound - mJumpingSumo)

LinkIInv ==
  /\ LinkTypeOK
  /\ Place
  /\ Fresh /\ Stale /\ Shown

-----------------------------------------------------------------------------
(* The queue.                                                              *)

LEMMA AppendHolds ==
  ASSUME NEW q \in Seq(Post), NEW x \in Post, NEW d
  PROVE  Holds(Append(q, x), d) <=> (Holds(q, d) \/ d = x)
<1>1. /\ Append(q, x) \in Seq(Post) /\ Len(Append(q, x)) = Len(q) + 1
      /\ \A i \in 1..Len(q) : Append(q, x)[i] = q[i]
      /\ Append(q, x)[Len(q) + 1] = x /\ Len(q) \in Nat
  BY AppendProperties
<1> QED BY <1>1 DEF Holds

LEMMA TailHolds ==
  ASSUME NEW q \in Seq(Post), q # <<>>, NEW d
  PROVE  Holds(q, d) <=> (Head(q) = d \/ Holds(Tail(q), d))
<1>1. /\ Tail(q) \in Seq(Post) /\ Len(Tail(q)) = Len(q) - 1 /\ Head(q) = q[1]
      /\ \A i \in 1..Len(Tail(q)) : Tail(q)[i] = q[i + 1]
      /\ Len(q) \in Nat \ {0}
  BY HeadTailProperties, EmptySeq, LenProperties
<1>2. Holds(q, d) => (Head(q) = d \/ Holds(Tail(q), d))
  <2> SUFFICES ASSUME NEW i \in 1..Len(q), q[i] = d, i # 1
               PROVE  Holds(Tail(q), d)
    BY <1>1 DEF Holds
  <2>1. i - 1 \in 1..Len(Tail(q)) /\ Tail(q)[i - 1] = q[(i - 1) + 1]
    BY <1>1
  <2> QED BY <2>1 DEF Holds
<1>3. Holds(Tail(q), d) => Holds(q, d)
  <2> SUFFICES ASSUME NEW i \in 1..Len(Tail(q)), Tail(q)[i] = d
               PROVE  Holds(q, d)
    BY DEF Holds
  <2>1. i + 1 \in 1..Len(q) /\ q[i + 1] = d
    BY <1>1
  <2> QED BY <2>1 DEF Holds
<1> QED BY <1>1, <1>2, <1>3 DEF Holds

LEMMA TypeOfPosts ==
  ASSUME NEW q \in Seq(Post)
  PROVE  /\ \A x \in Post : Append(q, x) \in Seq(Post)
         /\ q # <<>> => Tail(q) \in Seq(Post) /\ Head(q) \in Post
BY AppendProperties, HeadTailProperties

\* A label runnable decides what the queue ends with.
LEMMA AppendLabel ==
  ASSUME NEW q \in Seq(Post), NEW l, MaxFound \in Nat
  PROVE  EndsOn(Append(q, SayOn), l) /\ ~EndsOn(Append(q, SayOff), l)
<1> DEFINE n == Len(q) + 1
<1>1. \A x \in Post :
        /\ Len(Append(q, x)) = n /\ Append(q, x)[n] = x /\ n \in Nat \ {0}
  BY AppendProperties, LenProperties
<1>2. SayOn \in Post /\ SayOff \in Post
  BY DEF Post, SayOn, SayOff
<1>3. EndsOn(Append(q, SayOn), l)
  <2>1. n \in 1..Len(Append(q, SayOn)) /\ Append(q, SayOn)[n] = SayOn
        /\ \A j \in 1..Len(Append(q, SayOn)) : ~(j > n)
    BY <1>1, <1>2
  <2> HIDE DEF n
  <2> QED BY <2>1 DEF EndsOn
<1>4. ~EndsOn(Append(q, SayOff), l)
  <2>1. n \in 1..Len(Append(q, SayOff)) /\ Append(q, SayOff)[n] = SayOff
        /\ \A i \in 1..Len(Append(q, SayOff)) : i <= n /\ i \in Nat
    BY <1>1, <1>2
  <2>2. SayOn # SayOff /\ n \in Nat
    BY <1>1, <1>2 DEF SayOn, SayOff
  <2>3. ASSUME NEW i \in 1..Len(Append(q, SayOff)), Append(q, SayOff)[i] = SayOn
        PROVE  n > i
    BY <2>1, <2>2, <2>3
  <2> HIDE DEF n
  <2> QED BY <2>1, <2>3 DEF EndsOn, Holds
<1> QED BY <1>3, <1>4

LEMMA AppendNotice ==
  ASSUME NEW q \in Seq(Post), NEW l, NEW d \in Drones, MaxFound \in Nat
  PROVE  EndsOn(Append(q, d), l) => EndsOn(q, l)
<1>1. d \in Post /\ d # SayOn /\ d # SayOff
  BY DEF Drones, Post, SayOn, SayOff
<1>2. /\ Len(Append(q, d)) = Len(q) + 1 /\ Len(q) \in Nat
      /\ \A i \in 1..Len(q) : Append(q, d)[i] = q[i]
      /\ Append(q, d)[Len(q) + 1] = d
  BY <1>1, AppendProperties, LenProperties
<1>3. Holds(q, SayOff) <=> Holds(Append(q, d), SayOff)
  BY <1>1, AppendHolds
<1>4. ASSUME NEW i \in 1..Len(Append(q, d)), Append(q, d)[i] = SayOn,
             \A j \in 1..Len(Append(q, d)) : j > i => Append(q, d)[j] # SayOff
      PROVE  EndsOn(q, l)
  <2>1. i \in 1..Len(q) /\ q[i] = SayOn
    BY <1>1, <1>2, <1>4
  <2>2. \A j \in 1..Len(q) : j > i => q[j] # SayOff
    BY <1>2, <1>4
  <2> QED BY <2>1, <2>2 DEF EndsOn
<1> QED BY <1>3, <1>4 DEF EndsOn

LEMMA KeepNotice ==
  ASSUME NEW q \in Seq(Post), NEW l, NEW d \in Drones, MaxFound \in Nat
  PROVE  EndsOn(q, l) => EndsOn(Append(q, d), l)
<1>1. d \in Post /\ d # SayOn /\ d # SayOff
  BY DEF Drones, Post, SayOn, SayOff
<1>2. /\ Len(Append(q, d)) = Len(q) + 1 /\ Len(q) \in Nat
      /\ \A i \in 1..Len(q) : Append(q, d)[i] = q[i]
      /\ Append(q, d)[Len(q) + 1] = d
  BY <1>1, AppendProperties, LenProperties
<1>3. Holds(q, SayOff) <=> Holds(Append(q, d), SayOff)
  BY <1>1, AppendHolds
<1>4. ASSUME NEW i \in 1..Len(q), q[i] = SayOn,
             \A j \in 1..Len(q) : j > i => q[j] # SayOff
      PROVE  EndsOn(Append(q, d), l)
  <2>1. i \in 1..Len(Append(q, d)) /\ Append(q, d)[i] = SayOn
    BY <1>2, <1>4
  <2>2. \A j \in 1..Len(Append(q, d)) : j > i => Append(q, d)[j] # SayOff
    BY <1>1, <1>2, <1>4
  <2> QED BY <2>1, <2>2 DEF EndsOn
<1> QED BY <1>3, <1>4 DEF EndsOn

\* Running the head does not change what the queue ends with.
LEMMA TailNotice ==
  ASSUME NEW q \in Seq(Post), NEW l, NEW k, q # <<>>, MaxFound \in Nat,
         \/ Head(q) \in Drones /\ k = l
         \/ Head(q) = SayOn /\ k = "on"
         \/ Head(q) = SayOff /\ k = "off"
  PROVE  EndsOn(Tail(q), k) <=> EndsOn(q, l)
<1>1. /\ Tail(q) \in Seq(Post) /\ Len(Tail(q)) = Len(q) - 1 /\ Head(q) = q[1]
      /\ \A i \in 1..Len(Tail(q)) : Tail(q)[i] = q[i + 1]
      /\ Len(q) \in Nat \ {0}
  BY HeadTailProperties, EmptySeq, LenProperties
<1>2. Holds(q, SayOff) <=> (Head(q) = SayOff \/ Holds(Tail(q), SayOff))
  BY TailHolds
<1>3. SayOn # SayOff /\ SayOn \notin Drones /\ SayOff \notin Drones
  BY DEF SayOn, SayOff, Drones
<1>4. ASSUME EndsOn(Tail(q), k)
      PROVE  EndsOn(q, l)
  <2>1. ASSUME NEW i \in 1..Len(Tail(q)), Tail(q)[i] = SayOn,
               \A j \in 1..Len(Tail(q)) : j > i => Tail(q)[j] # SayOff
        PROVE  EndsOn(q, l)
    <3>1. i + 1 \in 1..Len(q) /\ q[i + 1] = SayOn
      BY <1>1, <2>1
    <3>2. ASSUME NEW j \in 1..Len(q), j > i + 1
          PROVE  q[j] # SayOff
      <4>1. j - 1 \in 1..Len(Tail(q)) /\ j - 1 > i /\ Tail(q)[j - 1] = q[(j - 1) + 1]
        BY <1>1, <3>2
      <4>2. (j - 1) + 1 = j
        BY <1>1
      <4> QED BY <4>1, <4>2, <2>1
    <3> QED BY <3>1, <3>2 DEF EndsOn
  <2>2. ASSUME k = "on", ~Holds(Tail(q), SayOff)
        PROVE  EndsOn(q, l)
    <3>1. CASE Head(q) \in Drones /\ k = l
      BY <3>1, <2>2, <1>2, <1>3 DEF EndsOn
    <3>2. CASE Head(q) = SayOn
      <4>1. 1 \in 1..Len(q) /\ q[1] = SayOn
        BY <1>1, <3>2
      <4>2. ~Holds(q, SayOff)
        BY <1>2, <1>3, <2>2, <3>2
      <4> QED BY <4>1, <4>2 DEF EndsOn, Holds
    <3> QED BY <3>1, <3>2, <2>2
  <2> QED BY <1>4, <2>1, <2>2 DEF EndsOn
<1>5. ASSUME EndsOn(q, l)
      PROVE  EndsOn(Tail(q), k)
  <2>1. ASSUME NEW i \in 1..Len(q), q[i] = SayOn,
               \A j \in 1..Len(q) : j > i => q[j] # SayOff
        PROVE  EndsOn(Tail(q), k)
    <3>1. CASE i = 1
      <4>1. Head(q) = SayOn /\ k = "on"
        BY <1>1, <1>3, <2>1, <3>1
      <4>2. ASSUME NEW j \in 1..Len(Tail(q))
            PROVE  Tail(q)[j] # SayOff
        <5>1. j + 1 \in 1..Len(q) /\ j + 1 > i
          BY <1>1, <3>1
        <5> QED BY <5>1, <1>1, <2>1
      <4> QED BY <4>1, <4>2 DEF EndsOn, Holds
    <3>2. CASE i # 1
      <4>1. i - 1 \in 1..Len(Tail(q)) /\ (i - 1) + 1 = i
        BY <1>1, <3>2
      <4>2. Tail(q)[i - 1] = SayOn
        BY <4>1, <1>1, <2>1
      <4>3. ASSUME NEW j \in 1..Len(Tail(q)), j > i - 1
            PROVE  Tail(q)[j] # SayOff
        <5>1. j + 1 \in 1..Len(q) /\ j + 1 > i
          BY <1>1, <4>3
        <5> QED BY <5>1, <1>1, <2>1
      <4> QED BY <4>1, <4>2, <4>3 DEF EndsOn
    <3> QED BY <3>1, <3>2
  <2>2. ASSUME l = "on", ~Holds(q, SayOff)
        PROVE  EndsOn(Tail(q), k)
    BY <2>2, <1>2, <1>3 DEF EndsOn
  <2> QED BY <1>5, <2>1, <2>2 DEF EndsOn
<1> QED BY <1>4, <1>5

-----------------------------------------------------------------------------
(* Every action keeps the types, and the loop over a list its place.       *)

LEMMA DisconnectType ==
  ASSUME LinkTypeOK, NEW rest \in Seq(Post), disconnectJumpingSumo(rest)
  PROVE  /\ scanning' \in BOOLEAN /\ posts' \in Seq(Post) /\ refused' \subseteq Drones
         /\ request' \in [Drones -> {"none", "start", "stop"}]
         /\ mState' \in [Drones -> States] /\ due' \subseteq Drones
<1>1. SayOff \in Post
  BY LinkConstants DEF Post, SayOff
<1>2. isJumpingSumoConnected => mJumpingSumo \in Drones
  BY DEF isJumpingSumoConnected, LinkTypeOK, Drones
<1> QED BY <1>1, <1>2, TypeOfPosts DEF disconnectJumpingSumo, LinkTypeOK

LEMMA TypeStep ==
  ASSUME LinkTypeOK, Place, [LinkNext]_linkVars
  PROVE  LinkTypeOK' /\ Place'
<1> USE DEF LinkTypeOK, Place, drone, search, screen
<1>0. posts \in Seq(Post) /\ SayOn \in Post /\ SayOff \in Post /\ Drones \subseteq Post
  BY LinkConstants DEF Post, Drones, SayOn, SayOff
<1>1. ASSUME NEW d \in Drones, onStateChanged(d)
      PROVE  LinkTypeOK' /\ Place'
  BY <1>1 DEF onStateChanged
<1>2. ASSUME NEW d \in Drones, PostNotify(d)
      PROVE  LinkTypeOK' /\ Place'
  <2>1. posts' \in Seq(Post)
    BY <1>0, <1>2, TypeOfPosts DEF PostNotify
  <2> QED BY <1>2, <2>1 DEF PostNotify, Post
<1>3. CASE NotifyConnectionChanged
  <2>1. Tail(posts) \in Seq(Post)
    BY <1>0, <1>3, TypeOfPosts DEF NotifyConnectionChanged
  <2>2. CASE ShowConnected(Tail(posts))
    <3>1. posts' \in Seq(Post)
      BY <1>0, <2>1, <2>2, TypeOfPosts DEF ShowConnected
    <3> QED BY <1>3, <2>2, <3>1 DEF NotifyConnectionChanged, ShowConnected, Post
  <2>3. CASE disconnectJumpingSumo(Tail(posts))
    BY <1>3, <2>1, <2>3, DisconnectType DEF NotifyConnectionChanged, Post
  <2>4. CASE posts' = Tail(posts) /\ UNCHANGED <<drone, scanning, refused>>
    BY <1>3, <2>1, <2>4 DEF NotifyConnectionChanged, Post
  <2> QED BY <1>3, <2>2, <2>3, <2>4 DEF NotifyConnectionChanged
<1>4. CASE SetLabel
  <2>1. posts' \in Seq(Post)
    BY <1>0, <1>4, TypeOfPosts DEF SetLabel
  <2>2. label' \in {"on", "off"}
    BY <1>4, Zenon DEF SetLabel
  <2> QED BY <1>4, <2>1, <2>2 DEF SetLabel, Post
<1>5. CASE onClick
  <2>1. CASE disconnectJumpingSumo(posts) /\ UNCHANGED <<left, checking, search>>
    BY <1>0, <1>5, <2>1, DisconnectType DEF onClick, Post
  <2>2. CASE scanning' = FALSE /\ UNCHANGED <<drone, posts, refused, left, checking, search>>
    BY <1>5, <2>2 DEF onClick
  <2>3. CASE scanning' = TRUE /\ StartDiscovering /\ UNCHANGED <<drone, posts, refused>>
    <3>1. ~checking /\ left = 0
      BY <1>5 DEF onClick, MainIdle
    <3>2. left' \in 0..(MaxFound - mJumpingSumo) /\ ~checking'
      BY <2>3, <3>1, LinkConstants DEF StartDiscovering, ReadList
    <3>3. bound' \in BOOLEAN /\ discovering' \in BOOLEAN /\ checking' \in BOOLEAN
          /\ mStartDiscoveryAfterConnection' \in BOOLEAN /\ scanning' \in BOOLEAN
      BY <2>3, Zenon DEF StartDiscovering, ReadList
    <3>4. UNCHANGED <<mState, request, due, posts, refused, mJumpingSumo, label, destroyed>>
      BY <1>5, <2>3 DEF onClick
    <3>5. left' \in 0..MaxFound
      BY <3>2, <3>4, LinkConstants
    <3> QED BY <3>2, <3>3, <3>4, <3>5
  <2> QED BY <1>5, <2>1, <2>2, <2>3 DEF onClick
<1>6. CASE ServiceConnected
  <2>1. ~checking
    BY <1>6 DEF ServiceConnected, MainIdle
  <2>2. ~checking' /\ left' \in 0..(MaxFound - mJumpingSumo) /\ left' \in 0..MaxFound
    BY <1>6, <2>1, LinkConstants DEF ServiceConnected, ReadList
  <2>3. bound' \in BOOLEAN /\ discovering' \in BOOLEAN /\ checking' \in BOOLEAN
        /\ mStartDiscoveryAfterConnection' \in BOOLEAN
    BY <1>6, Zenon DEF ServiceConnected, ReadList
  <2>4. UNCHANGED <<mState, request, due, posts, scanning, label, refused, mJumpingSumo,
                    destroyed>>
    BY <1>6 DEF ServiceConnected
  <2> QED BY <2>2, <2>3, <2>4
<1>7. CASE ServiceDisconnected
  BY <1>7 DEF ServiceDisconnected
<1>8. CASE ListUpdated
  <2>1. ~checking' /\ left' \in 0..(MaxFound - mJumpingSumo) /\ left' \in 0..MaxFound
    BY <1>8, LinkConstants DEF ListUpdated, ReadList, MainIdle
  <2>2. checking' \in BOOLEAN
    BY <1>8, Zenon DEF ListUpdated, ReadList
  <2>3. UNCHANGED <<mState, request, due, posts, scanning, label, refused, mJumpingSumo,
                    bound, mStartDiscoveryAfterConnection, discovering, destroyed>>
    BY <1>8 DEF ListUpdated
  <2> QED BY <2>1, <2>2, <2>3
<1>9. CASE FindDrone
  <2>1. mJumpingSumo' = mJumpingSumo + 1 /\ mJumpingSumo' \in Drones
        /\ mJumpingSumo' \in 0..MaxFound /\ left \in 1..(MaxFound - mJumpingSumo)
        /\ ~checking
    BY <1>9, LinkConstants DEF FindDrone, Drones
  <2>2. CASE /\ request' = [request EXCEPT ![mJumpingSumo'] = "start"]
             /\ checking' = TRUE /\ UNCHANGED <<left, posts, scanning>>
    <3>1. left' \in 1..(MaxFound - mJumpingSumo' + 1) /\ left' \in 0..MaxFound
          /\ mJumpingSumo' > 0
      BY <2>1, <2>2, LinkConstants
    <3>2. request' \in [Drones -> {"none", "start", "stop"}]
      BY <2>1, <2>2
    <3>3. UNCHANGED <<posts, scanning, mState, due, bound, label, refused,
                      mStartDiscoveryAfterConnection, discovering, destroyed>> /\ checking'
      BY <1>9, <2>2, Zenon DEF FindDrone
    <3>4. checking' \in BOOLEAN
      BY <2>2, Zenon
    <3> QED BY <2>1, <3>1, <3>2, <3>3, <3>4
  <2>3. CASE /\ posts' = Append(posts, SayOff) /\ scanning' = FALSE
             /\ left' = left - 1 /\ UNCHANGED <<request, checking>>
    <3>1. posts' \in Seq(Post)
      BY <1>0, <2>3, TypeOfPosts
    <3>2. left' \in 0..(MaxFound - mJumpingSumo') /\ left' \in 0..MaxFound /\ ~checking'
      BY <1>9, <2>1, <2>3, LinkConstants DEF FindDrone
    <3>3. scanning' \in BOOLEAN /\ checking' \in BOOLEAN
      BY <2>3, Zenon
    <3>4. UNCHANGED <<request, mState, due, bound, label, refused,
                      mStartDiscoveryAfterConnection, discovering, destroyed>>
      BY <1>9, <2>3 DEF FindDrone
    <3> QED BY <2>1, <3>1, <3>2, <3>3, <3>4 DEF Post
  <2> QED BY <1>9, <2>2, <2>3 DEF FindDrone
<1>10. CASE CheckConnected
  <2>1. left' \in 0..(MaxFound - mJumpingSumo) /\ left' \in 0..MaxFound /\ ~checking'
        /\ mJumpingSumo' = mJumpingSumo
    BY <1>10, LinkConstants DEF CheckConnected
  <2>2. posts' \in Seq(Post)
    BY <1>0, <1>10, TypeOfPosts DEF CheckConnected, ShowConnected
  <2>3. scanning' \in BOOLEAN /\ checking' \in BOOLEAN
    BY <1>10, Zenon DEF CheckConnected, ShowConnected
  <2>4. UNCHANGED <<request, mState, due, bound, label, refused,
                    mStartDiscoveryAfterConnection, discovering, destroyed>>
    BY <1>10 DEF CheckConnected, ShowConnected
  <2> QED BY <2>1, <2>2, <2>3, <2>4 DEF Post
<1>11. CASE UnknownProduct
  <2>1. left' \in 0..(MaxFound - mJumpingSumo) /\ left' \in 0..MaxFound /\ ~checking'
    BY <1>11, LinkConstants DEF UnknownProduct
  <2>2. scanning' \in BOOLEAN /\ checking' \in BOOLEAN
    BY <1>11, Zenon DEF UnknownProduct
  <2>3. UNCHANGED <<mState, request, due, posts, label, refused, mJumpingSumo,
                    bound, mStartDiscoveryAfterConnection, discovering, destroyed>>
    BY <1>11 DEF UnknownProduct
  <2> QED BY <2>1, <2>2, <2>3
<1>12. CASE onDestroy
  <2>1. bound' \in BOOLEAN /\ destroyed' \in BOOLEAN
    BY <1>12, Zenon DEF onDestroy
  <2>2. /\ scanning' \in BOOLEAN /\ posts' \in Seq(Post) /\ refused' \subseteq Drones
        /\ request' \in [Drones -> {"none", "start", "stop"}]
        /\ mState' \in [Drones -> States] /\ due' \subseteq Drones
    BY <1>0, <1>12, DisconnectType DEF onDestroy
  <2>3. UNCHANGED <<mJumpingSumo, left, checking, label,
                    mStartDiscoveryAfterConnection, discovering>>
    BY <1>12 DEF onDestroy
  <2> QED BY <2>1, <2>2, <2>3 DEF Post
<1>13. CASE UNCHANGED linkVars
  BY <1>13 DEF linkVars
<1> QED BY <1>1, <1>2, <1>3, <1>4, <1>5, <1>6, <1>7, <1>8, <1>9, <1>10, <1>11, <1>12,
           <1>13
        DEF LinkNext, MainThread

-----------------------------------------------------------------------------
(* The invariant, one part at a time.                                      *)

\* What the facts about the queue need to know of the values in it.
LEMMA PostFacts ==
  ASSUME LinkTypeOK
  PROVE  /\ posts \in Seq(Post) /\ SayOn \in Post /\ SayOff \in Post
         /\ SayOn # SayOff /\ SayOn \notin Drones /\ SayOff \notin Drones
         /\ \A d \in Drones : d \in Post
         /\ MaxFound \in Nat
BY LinkConstants DEF LinkTypeOK, Post, Drones, SayOn, SayOff

\* disconnectJumpingSumo leaves the last drone told to stop or refusing to.
LEMMA DisconnectEffect ==
  ASSUME LinkTypeOK, NEW rest \in Seq(Post), disconnectJumpingSumo(rest)
  PROVE  /\ \A d \in Drones : Holds(posts', d) => Holds(rest, d)
         /\ mJumpingSumo # 0 => posts' = Append(rest, SayOff)
         /\ isJumpingSumoConnected =>
              \/ request'[mJumpingSumo] = "stop"
              \/ mJumpingSumo \in refused'
         /\ \A d \in Drones : request'[d] = request[d]
                \/ (request'[d] = "stop" /\ mState[d] = "RUNNING" /\ d = mJumpingSumo)
<1>1. mJumpingSumo # 0 => posts' = Append(rest, SayOff)
  BY DEF disconnectJumpingSumo
<1>2. ASSUME NEW d \in Drones, Holds(posts', d)
      PROVE  Holds(rest, d)
  BY <1>1, <1>2, PostFacts, AppendHolds DEF disconnectJumpingSumo
<1>3. isJumpingSumoConnected =>
        /\ mJumpingSumo \in Drones
        /\ mState[mJumpingSumo] = "RUNNING"
  BY DEF isJumpingSumoConnected, LinkTypeOK, Drones
<1>4. /\ isJumpingSumoConnected =>
           request'[mJumpingSumo] = "stop" \/ mJumpingSumo \in refused'
      /\ \A d \in Drones : request'[d] = request[d]
             \/ (request'[d] = "stop" /\ mState[d] = "RUNNING" /\ d = mJumpingSumo)
  BY <1>3 DEF disconnectJumpingSumo, LinkTypeOK
<1> QED BY <1>1, <1>2, <1>4

\* A label runnable announces no drone.
LEMMA LabelHolds ==
  ASSUME LinkTypeOK, NEW d \in Drones, NEW x \in {SayOn, SayOff},
         Holds(Append(posts, x), d)
  PROVE  Holds(posts, d)
BY PostFacts, AppendHolds

LEMMA FreshStep ==
  ASSUME LinkTypeOK, Place, Fresh, [LinkNext]_linkVars
  PROVE  Fresh'
<1> USE DEF drone, search, screen
<1>0. mJumpingSumo \in 0..MaxFound
  BY DEF LinkTypeOK
\* most actions tell no drone to start and announce none
<1>1. ASSUME mJumpingSumo' = mJumpingSumo, mState' = mState, due' = due,
             \A d \in Drones : Holds(posts', d) => Holds(posts, d),
             \A d \in Drones : request'[d] = request[d]
                \/ (request'[d] = "stop" /\ mState[d] = "RUNNING" /\ d = mJumpingSumo)
      PROVE  Fresh'
  <2>1. ASSUME NEW d \in Drones
        PROVE  /\ d > mJumpingSumo' =>
                    mState'[d] = "STOPPED" /\ request'[d] = "none" /\ ~Noticed(d)'
               /\ request'[d] = "start" => mState'[d] = "STOPPED" /\ ~Noticed(d)'
    <3>1. Noticed(d)' => Noticed(d)
      BY <1>1 DEF Noticed
    <3>2. d > mJumpingSumo => d # mJumpingSumo
      BY <1>0 DEF Drones
    <3> QED BY <1>1, <3>1, <3>2 DEF Fresh
  <2> QED BY <2>1 DEF Fresh
<1>2. ASSUME NEW d \in Drones, onStateChanged(d)
      PROVE  Fresh'
  <2>1. PICK new \in States :
          /\ StateFollows(mState[d], new, request[d])
          /\ mState' = [mState EXCEPT ![d] = new]
          /\ request' = [request EXCEPT ![d] = IF new = "RUNNING" THEN @ ELSE "none"]
    BY <1>2 DEF onStateChanged
  <2>2. UNCHANGED <<mJumpingSumo, posts>> /\ due' = due \union {d}
    BY <1>2 DEF onStateChanged
  <2>3. ~(d > mJumpingSumo)
    BY <2>1 DEF Fresh, StateFollows
  <2>4. request'[d] # "start"
    BY <2>1 DEF Fresh, StateFollows, LinkTypeOK
  <2>5. ASSUME NEW e \in Drones, e # d
        PROVE  mState'[e] = mState[e] /\ request'[e] = request[e] /\ (Noticed(e)' => Noticed(e))
    BY <2>1, <2>2, <2>5 DEF LinkTypeOK, Noticed
  <2>6. ASSUME NEW e \in Drones
        PROVE  /\ e > mJumpingSumo' =>
                    mState'[e] = "STOPPED" /\ request'[e] = "none" /\ ~Noticed(e)'
               /\ request'[e] = "start" => mState'[e] = "STOPPED" /\ ~Noticed(e)'
    BY <2>2, <2>3, <2>4, <2>5 DEF Fresh
  <2> QED BY <2>6 DEF Fresh
<1>3. ASSUME NEW d \in Drones, PostNotify(d)
      PROVE  Fresh'
  <2>1. \A e \in Drones : Holds(posts', e) => Holds(posts, e) \/ e = d
    BY <1>3, PostFacts, AppendHolds DEF PostNotify
  <2>2. \A e \in Drones : Noticed(e)' => Noticed(e)
    BY <1>3, <2>1 DEF Noticed, PostNotify
  <2> QED BY <1>3, <2>2 DEF Fresh, PostNotify
<1>4. CASE NotifyConnectionChanged
  <2>1. posts # <<>> /\ UNCHANGED mJumpingSumo
    BY <1>4 DEF NotifyConnectionChanged
  <2>2. /\ Tail(posts) \in Seq(Post)
        /\ \A d \in Drones : Holds(Tail(posts), d) => Holds(posts, d)
    BY <2>1, PostFacts, TypeOfPosts, TailHolds
  <2>3. CASE ShowConnected(Tail(posts))
    <3>1. \A d \in Drones : Holds(posts', d) => Holds(posts, d)
      BY <2>2, <2>3, PostFacts, AppendHolds DEF ShowConnected
    <3>2. UNCHANGED <<mState, request, due>>
      BY <2>3 DEF ShowConnected
    <3> QED BY <1>1, <2>1, <3>1, <3>2
  <2>4. CASE disconnectJumpingSumo(Tail(posts))
    <3>1. UNCHANGED <<mState, due>>
      BY <2>4 DEF disconnectJumpingSumo
    <3> QED BY <1>1, <2>1, <2>2, <2>4, <3>1, DisconnectEffect
  <2>5. CASE posts' = Tail(posts) /\ UNCHANGED <<drone, scanning, refused>>
    BY <1>1, <2>1, <2>2, <2>5
  <2> QED BY <1>4, <2>3, <2>4, <2>5 DEF NotifyConnectionChanged
<1>5. CASE SetLabel
  <2>1. \A d \in Drones : Holds(posts', d) => Holds(posts, d)
    BY <1>5, PostFacts, TailHolds DEF SetLabel
  <2> QED BY <1>1, <1>5, <2>1 DEF SetLabel
<1>6. CASE onClick
  <2>1. CASE disconnectJumpingSumo(posts)
    <3>1. UNCHANGED <<mState, due, mJumpingSumo>>
      BY <1>6, <2>1 DEF disconnectJumpingSumo, onClick
    <3> QED BY <1>1, <2>1, <3>1, DisconnectEffect, PostFacts
  <2>2. CASE UNCHANGED <<drone, posts, refused>>
    BY <1>1, <1>6, <2>2 DEF onClick
  <2> QED BY <1>6, <2>1, <2>2 DEF onClick
<1>7. CASE ServiceConnected \/ ServiceDisconnected \/ ListUpdated \/ UnknownProduct
  BY <1>1, <1>7 DEF ServiceConnected, ServiceDisconnected, ListUpdated, UnknownProduct
<1>8. CASE FindDrone
  <2>1. /\ mJumpingSumo' = mJumpingSumo + 1 /\ UNCHANGED <<mState, due>>
        /\ \/ request' = [request EXCEPT ![mJumpingSumo'] = "start"] /\ UNCHANGED posts
           \/ posts' = Append(posts, SayOff) /\ UNCHANGED request
    BY <1>8 DEF FindDrone
  <2>2. \A d \in Drones : Holds(posts', d) => Holds(posts, d)
    BY <2>1, LabelHolds DEF Holds
  <2>3. \A d \in Drones : /\ d > mJumpingSumo' => d > mJumpingSumo /\ d # mJumpingSumo'
                          /\ d = mJumpingSumo' => d > mJumpingSumo
    BY <1>0, <2>1 DEF Drones
  <2>4. \A d \in Drones : request'[d] = request[d] \/ (request'[d] = "start" /\ d = mJumpingSumo')
    BY <2>1 DEF LinkTypeOK
  <2>5. \A d \in Drones : Noticed(d)' => Noticed(d)
    BY <2>1, <2>2 DEF Noticed
  <2>6. ASSUME NEW d \in Drones
        PROVE  /\ d > mJumpingSumo' =>
                    mState'[d] = "STOPPED" /\ request'[d] = "none" /\ ~Noticed(d)'
               /\ request'[d] = "start" => mState'[d] = "STOPPED" /\ ~Noticed(d)'
    BY <2>1, <2>3, <2>4, <2>5 DEF Fresh
  <2> QED BY <2>6 DEF Fresh
<1>9. CASE CheckConnected
  <2>1. UNCHANGED <<mState, request, due, mJumpingSumo>>
        /\ (posts' = Append(posts, SayOn) \/ posts' = posts)
    BY <1>9 DEF CheckConnected, ShowConnected
  <2>2. \A d \in Drones : Holds(posts', d) => Holds(posts, d)
    BY <2>1, LabelHolds DEF Holds
  <2> QED BY <1>1, <2>1, <2>2
<1>10. CASE onDestroy
  <2>1. UNCHANGED <<mState, due, mJumpingSumo>> /\ disconnectJumpingSumo(posts)
    BY <1>10 DEF disconnectJumpingSumo, onDestroy
  <2> QED BY <1>1, <2>1, DisconnectEffect, PostFacts
<1>11. CASE UNCHANGED linkVars
  BY <1>1, <1>11 DEF linkVars
<1> QED BY <1>2, <1>3, <1>4, <1>5, <1>6, <1>7, <1>8, <1>9, <1>10, <1>11
        DEF LinkNext, MainThread

LEMMA StaleStep ==
  ASSUME LinkTypeOK, Place, Fresh, Stale, [LinkNext]_linkVars
  PROVE  Stale'
<1> USE DEF drone, search, screen
<1> DEFINE Brings(d) == \/ mState[d] \in {"RUNNING", "STOPPING"}
                        \/ mState[d] = "STOPPED" /\ Noticed(d)
<1>1. Stale <=> (EndsOn(posts, label) => \E d \in Drones : Brings(d))
  BY DEF Stale
<1>1a. ASSUME NEW d \in Drones, Brings(d)' PROVE Stale'
  BY <1>1a DEF Stale
<1>1b. ASSUME ~EndsOn(posts, label)' PROVE Stale'
  BY <1>1b DEF Stale
<1>2. ASSUME NEW d \in Drones, onStateChanged(d)
      PROVE  Stale'
  <2>1. PICK new \in States :
          /\ StateFollows(mState[d], new, request[d])
          /\ mState' = [mState EXCEPT ![d] = new]
    BY <1>2 DEF onStateChanged
  <2>2. UNCHANGED <<posts, label>> /\ due' = due \union {d}
    BY <1>2 DEF onStateChanged
  <2>3. SUFFICES ASSUME EndsOn(posts, label)
                 PROVE  \E e \in Drones : Brings(e)'
    BY <2>2 DEF Stale
  <2>4. PICK e \in Drones : Brings(e)
    BY <2>3, <1>1
  <2>5. CASE e = d
    <3>1. mState'[d] = new /\ Noticed(d)'
      BY <2>1, <2>2 DEF LinkTypeOK, Noticed
    <3>2. new \in {"STOPPING", "STOPPED"}
      BY <2>1, <2>4, <2>5 DEF StateFollows, Fresh
    <3> QED BY <3>1, <3>2
  <2>6. CASE e # d
    <3>1. mState'[e] = mState[e] /\ (Noticed(e) => Noticed(e)')
      BY <2>1, <2>2, <2>6 DEF LinkTypeOK, Noticed
    <3> QED BY <2>4, <3>1
  <2> QED BY <2>5, <2>6
<1>3. ASSUME NEW d \in Drones, PostNotify(d)
      PROVE  Stale'
  <2>1. EndsOn(posts', label') => EndsOn(posts, label)
    BY <1>3, PostFacts, AppendNotice DEF PostNotify
  <2>2. \A e \in Drones : Holds(posts', e) <=> Holds(posts, e) \/ e = d
    BY <1>3, PostFacts, AppendHolds DEF PostNotify
  <2>3. \A e \in Drones : Noticed(e) => Noticed(e)'
    BY <1>3, <2>2 DEF Noticed, PostNotify
  <2>4. \A e \in Drones : Brings(e) => Brings(e)'
    BY <1>3, <2>3 DEF PostNotify
  <2> QED BY <1>1, <2>1, <2>4 DEF Stale
\* a queue that ends with off says nothing
<1>4. ASSUME NEW rest \in Seq(Post), posts' = Append(rest, SayOff)
      PROVE  Stale'
  BY <1>1b, <1>4, AppendLabel, PostFacts
<1>5. CASE NotifyConnectionChanged
  <2>1. posts # <<>> /\ Head(posts) \in Drones /\ label' = label
    BY <1>5 DEF NotifyConnectionChanged
  <2>2. Tail(posts) \in Seq(Post)
    BY <2>1, PostFacts, TypeOfPosts
  <2>3. CASE mState[Head(posts)] = "RUNNING" /\ ShowConnected(Tail(posts))
    <3>1. mState' = mState
      BY <2>3 DEF ShowConnected
    <3> QED BY <1>1a, <2>1, <2>3, <3>1
  <2>4. CASE disconnectJumpingSumo(Tail(posts))
    <3>1. Noticed(Head(posts))
      BY <2>1, PostFacts, TailHolds DEF Noticed
    <3>2. mJumpingSumo # 0
      BY <2>1, <3>1 DEF Fresh, Drones
    <3> QED BY <2>2, <2>4, <3>2, <1>4, DisconnectEffect
  <2>5. CASE /\ mState[Head(posts)] \in {"STARTING", "STOPPING"}
             /\ posts' = Tail(posts) /\ UNCHANGED <<drone, scanning, refused>>
    <3>1. EndsOn(posts', label') => EndsOn(posts, label)
      BY <2>1, <2>5, PostFacts, TailNotice
    <3>2. SUFFICES ASSUME EndsOn(posts, label)
                   PROVE  \E e \in Drones : Brings(e)'
      BY <3>1 DEF Stale
    <3>3. PICK e \in Drones : Brings(e)
      BY <3>2, <1>1
    <3>4. Holds(posts, e) /\ e # Head(posts) => Holds(posts', e)
      BY <2>1, <2>5, PostFacts, TailHolds
    <3>5. CASE e # Head(posts)
      BY <2>5, <3>3, <3>4, <3>5 DEF Noticed
    <3>6. CASE e = Head(posts)
      BY <2>5, <3>3, <3>6
    <3> QED BY <3>5, <3>6
  <2> QED BY <1>5, <2>3, <2>4, <2>5 DEF NotifyConnectionChanged
<1>6. CASE SetLabel
  <2>1. posts # <<>> /\ posts' = Tail(posts) /\ UNCHANGED <<mState, due>>
        /\ \/ Head(posts) = SayOn /\ label' = "on"
           \/ Head(posts) = SayOff /\ label' = "off"
    BY <1>6, PostFacts DEF SetLabel
  <2>2. EndsOn(posts', label') => EndsOn(posts, label)
    BY <2>1, PostFacts, TailNotice
  <2>3. \A e \in Drones : Holds(posts, e) => Holds(posts', e)
    BY <2>1, PostFacts, TailHolds
  <2>4. \A e \in Drones : Brings(e) => Brings(e)'
    BY <2>1, <2>3 DEF Noticed
  <2> QED BY <1>1, <2>2, <2>4 DEF Stale
<1>7. CASE onClick
  <2>1. CASE isJumpingSumoConnected /\ disconnectJumpingSumo(posts)
    BY <1>4, <2>1, DisconnectEffect, PostFacts DEF isJumpingSumoConnected
  <2>2. CASE UNCHANGED <<drone, posts, refused>>
    <3>1. UNCHANGED <<mState, due, posts, label>>
      BY <1>7, <2>2 DEF onClick
    <3> QED BY <3>1 DEF Stale, Noticed
  <2> QED BY <1>7, <2>1, <2>2 DEF onClick
<1>8. CASE ServiceConnected \/ ServiceDisconnected \/ ListUpdated \/ UnknownProduct
  <2>1. UNCHANGED <<mState, due, posts, label>>
    BY <1>8 DEF ServiceConnected, ServiceDisconnected, ListUpdated, UnknownProduct
  <2> QED BY <2>1 DEF Stale, Noticed
<1>9. CASE FindDrone
  <2>1. UNCHANGED <<mState, due, label>> /\ (posts' = posts \/ posts' = Append(posts, SayOff))
    BY <1>9 DEF FindDrone
  <2>2. CASE posts' = posts
    BY <2>1, <2>2 DEF Stale, Noticed
  <2> QED BY <2>1, <2>2, <1>4, PostFacts
<1>10. CASE CheckConnected
  <2>1. CASE isJumpingSumoConnected /\ ShowConnected(posts)
    <3>1. mJumpingSumo \in Drones /\ mState[mJumpingSumo] = "RUNNING" /\ mState' = mState
      BY <2>1 DEF isJumpingSumoConnected, ShowConnected, LinkTypeOK, Drones
    <3> QED BY <1>1a, <3>1
  <2>2. CASE UNCHANGED <<drone, posts, scanning, refused>>
    <3>1. UNCHANGED <<mState, due, posts, label>>
      BY <1>10, <2>2 DEF CheckConnected
    <3> QED BY <3>1 DEF Stale, Noticed
  <2> QED BY <1>10, <2>1, <2>2 DEF CheckConnected
<1>11. CASE onDestroy
  <2>1. UNCHANGED <<mState, due, label, mJumpingSumo>> /\ disconnectJumpingSumo(posts)
    BY <1>11 DEF disconnectJumpingSumo, onDestroy
  <2>2. CASE mJumpingSumo = 0
    <3>1. posts' = posts
      BY <2>1, <2>2 DEF disconnectJumpingSumo
    <3> QED BY <2>1, <3>1 DEF Stale, Noticed
  <2>3. CASE mJumpingSumo # 0
    BY <1>4, <2>1, <2>3, DisconnectEffect, PostFacts
  <2> QED BY <2>2, <2>3
<1>12. CASE UNCHANGED linkVars
  BY <1>12 DEF Stale, Noticed, linkVars
<1> QED BY <1>2, <1>3, <1>5, <1>6, <1>7, <1>8, <1>9, <1>10, <1>11, <1>12
        DEF LinkNext, MainThread

LEMMA ShownStep ==
  ASSUME LinkTypeOK, Place, Fresh, Shown, [LinkNext]_linkVars
  PROVE  Shown'
<1> USE DEF drone, search, screen
<1> DEFINE InUse == isJumpingSumoConnected /\ request[mJumpingSumo] # "stop"
                      /\ mJumpingSumo \notin refused
<1>0. Shown <=> (InUse => Noticed(mJumpingSumo) \/ (EndsOn(posts, label) /\ ~scanning))
  BY DEF Shown
<1>0a. ASSUME ~InUse' PROVE Shown'
  BY <1>0a DEF Shown
<1>0b. ASSUME EndsOn(posts, label)', ~scanning' PROVE Shown'
  BY <1>0b DEF Shown
<1>0c. InUse => mJumpingSumo \in Drones /\ mState[mJumpingSumo] = "RUNNING"
  BY DEF isJumpingSumoConnected, LinkTypeOK, Drones
<1>1. ASSUME UNCHANGED <<mJumpingSumo, mState, request, refused>>, InUse => InUse',
             Noticed(mJumpingSumo) => Noticed(mJumpingSumo)',
             EndsOn(posts, label) => EndsOn(posts, label)', scanning' => scanning
      PROVE  Shown'
  <2>1. InUse' => InUse
    BY <1>1 DEF isJumpingSumoConnected
  <2> QED BY <1>0, <1>1, <2>1 DEF Shown
<1>2. ASSUME NEW d \in Drones, onStateChanged(d)
      PROVE  Shown'
  <2>1. PICK new \in States :
          /\ mState' = [mState EXCEPT ![d] = new]
          /\ request' = [request EXCEPT ![d] = IF new = "RUNNING" THEN @ ELSE "none"]
    BY <1>2 DEF onStateChanged
  <2>2. UNCHANGED <<posts, label, mJumpingSumo, refused, scanning>> /\ due' = due \union {d}
    BY <1>2 DEF onStateChanged
  <2>3. CASE mJumpingSumo = d
    BY <2>2, <2>3 DEF Shown, Noticed
  <2>4. CASE mJumpingSumo # d /\ mJumpingSumo \in Drones
    <3>1. mState'[mJumpingSumo] = mState[mJumpingSumo]
          /\ request'[mJumpingSumo] = request[mJumpingSumo]
      BY <2>1, <2>4 DEF LinkTypeOK
    <3>2. Noticed(mJumpingSumo) => Noticed(mJumpingSumo)'
      BY <2>2 DEF Noticed
    <3>3. InUse' => InUse
      BY <2>2, <3>1 DEF isJumpingSumoConnected
    <3> QED BY <1>0, <2>2, <3>2, <3>3 DEF Shown
  <2>5. CASE mJumpingSumo \notin Drones
    <3>1. mJumpingSumo' = 0
      BY <2>2, <2>5 DEF LinkTypeOK, Drones
    <3> QED BY <3>1, <1>0a DEF isJumpingSumoConnected
  <2> QED BY <2>3, <2>4, <2>5
<1>3. ASSUME NEW d \in Drones, PostNotify(d)
      PROVE  Shown'
  <2>1. EndsOn(posts, label) => EndsOn(posts', label')
    BY <1>3, PostFacts, KeepNotice DEF PostNotify
  <2>2. Holds(posts', d) /\ \A e : Holds(posts, e) => Holds(posts', e)
    BY <1>3, PostFacts, AppendHolds DEF PostNotify
  <2>3. Noticed(mJumpingSumo) => Noticed(mJumpingSumo)'
    BY <1>3, <2>2 DEF Noticed, PostNotify
  <2>4. UNCHANGED <<mJumpingSumo, mState, request, refused, scanning>>
    BY <1>3 DEF PostNotify
  <2>5. InUse => InUse'
    BY <2>4 DEF isJumpingSumoConnected
  <2> QED BY <1>1, <2>1, <2>3, <2>4, <2>5
\* a drone that was told to stop, or refused, is not claimed
<1>4. ASSUME NEW rest \in Seq(Post), disconnectJumpingSumo(rest), mJumpingSumo' = mJumpingSumo
      PROVE  Shown'
  <2>1. isJumpingSumoConnected' => isJumpingSumoConnected
    BY <1>4 DEF isJumpingSumoConnected, disconnectJumpingSumo
  <2> QED BY <1>0a, <1>4, <2>1, DisconnectEffect
<1>5. CASE NotifyConnectionChanged
  <2>1. posts # <<>> /\ Head(posts) \in Drones /\ UNCHANGED <<label, mJumpingSumo>>
    BY <1>5 DEF NotifyConnectionChanged
  <2>2. Tail(posts) \in Seq(Post)
    BY <2>1, PostFacts, TypeOfPosts
  <2>3. CASE ShowConnected(Tail(posts))
    BY <1>0b, <2>2, <2>3, PostFacts, AppendLabel DEF ShowConnected
  <2>4. CASE disconnectJumpingSumo(Tail(posts))
    BY <1>4, <2>1, <2>2, <2>4
  <2>5. CASE /\ mState[Head(posts)] \in {"STARTING", "STOPPING"}
             /\ posts' = Tail(posts) /\ UNCHANGED <<drone, scanning, refused>>
    <3>1. EndsOn(posts, label) => EndsOn(posts', label')
      BY <2>1, <2>5, PostFacts, TailNotice
    <3>2. CASE Head(posts) = mJumpingSumo
      BY <1>0a, <2>1, <2>5, <3>2 DEF isJumpingSumoConnected
    <3>3. CASE Head(posts) # mJumpingSumo
      <4>1. Noticed(mJumpingSumo) => Noticed(mJumpingSumo)'
        BY <2>1, <2>5, <3>3, PostFacts, TailHolds DEF Noticed
      <4>2. InUse => InUse'
        BY <2>1, <2>5 DEF isJumpingSumoConnected
      <4> QED BY <1>1, <2>1, <2>5, <3>1, <4>1, <4>2
    <3> QED BY <3>2, <3>3
  <2> QED BY <1>5, <2>3, <2>4, <2>5 DEF NotifyConnectionChanged
<1>6. CASE SetLabel
  <2>1. posts # <<>> /\ posts' = Tail(posts)
        /\ UNCHANGED <<mState, due, mJumpingSumo, request, refused, scanning>>
        /\ \/ Head(posts) = SayOn /\ label' = "on"
           \/ Head(posts) = SayOff /\ label' = "off"
    BY <1>6, PostFacts DEF SetLabel
  <2>2. EndsOn(posts, label) => EndsOn(posts', label')
    BY <2>1, PostFacts, TailNotice
  <2>3. \A e \in Drones : Holds(posts, e) => Holds(posts', e)
    BY <2>1, PostFacts, TailHolds
  <2>4. InUse => InUse' /\ (Noticed(mJumpingSumo) => Noticed(mJumpingSumo)')
    BY <1>0c, <2>1, <2>3 DEF Noticed, isJumpingSumoConnected
  <2>5. CASE InUse
    BY <1>1, <2>1, <2>2, <2>4, <2>5
  <2>6. CASE ~InUse
    BY <1>0a, <2>1, <2>6 DEF isJumpingSumoConnected
  <2> QED BY <2>5, <2>6
<1>7. CASE onClick
  <2>1. CASE isJumpingSumoConnected /\ disconnectJumpingSumo(posts)
    BY <1>4, <1>7, <2>1, PostFacts DEF onClick
  <2>2. CASE ~isJumpingSumoConnected /\ UNCHANGED <<drone, posts, refused>>
    <3>1. UNCHANGED <<mState, mJumpingSumo>>
      BY <1>7, <2>2 DEF onClick
    <3> QED BY <1>0a, <2>2, <3>1 DEF isJumpingSumoConnected
  <2> QED BY <1>7, <2>1, <2>2 DEF onClick
<1>8. CASE ServiceConnected \/ ServiceDisconnected \/ ListUpdated
  <2>1. UNCHANGED <<mState, due, posts, label, scanning, request, refused, mJumpingSumo>>
    BY <1>8 DEF ServiceConnected, ServiceDisconnected, ListUpdated
  <2> QED BY <2>1 DEF Shown, Noticed, isJumpingSumoConnected
<1>9. CASE UnknownProduct
  <2>1. UNCHANGED <<mState, due, posts, label, request, refused, mJumpingSumo>> /\ ~scanning'
    BY <1>9 DEF UnknownProduct
  <2> QED BY <1>0, <2>1 DEF Shown, Noticed, isJumpingSumoConnected
\* a drone just made does not run yet
<1>10. CASE FindDrone
  <2>1. mJumpingSumo' = mJumpingSumo + 1 /\ mState' = mState /\ left > 0 /\ ~checking
    BY <1>10 DEF FindDrone
  <2>2. mJumpingSumo' \in Drones /\ mJumpingSumo' > mJumpingSumo
    BY <2>1, LinkConstants DEF Place, LinkTypeOK, Drones
  <2> QED BY <1>0a, <2>1, <2>2 DEF Fresh, isJumpingSumoConnected
<1>11. CASE CheckConnected
  <2>1. CASE ShowConnected(posts)
    BY <1>0b, <2>1, PostFacts, AppendLabel DEF ShowConnected
  <2>2. CASE UNCHANGED <<drone, posts, scanning, refused>>
    <3>1. UNCHANGED <<mState, due, posts, label, scanning, request, refused, mJumpingSumo>>
      BY <1>11, <2>2 DEF CheckConnected
    <3> QED BY <3>1 DEF Shown, Noticed, isJumpingSumoConnected
  <2> QED BY <1>11, <2>1, <2>2 DEF CheckConnected
<1>12. CASE onDestroy
  BY <1>4, <1>12, PostFacts DEF onDestroy
<1>13. CASE UNCHANGED linkVars
  BY <1>13 DEF Shown, Noticed, isJumpingSumoConnected, linkVars
<1> QED BY <1>2, <1>3, <1>5, <1>6, <1>7, <1>8, <1>9, <1>10, <1>11, <1>12, <1>13
        DEF LinkNext, MainThread

LEMMA Inductive ==
  /\ LinkInit => LinkIInv
  /\ LinkIInv /\ [LinkNext]_linkVars => LinkIInv'
<1>1. ASSUME LinkInit
      PROVE  LinkIInv
  <2>1. LinkTypeOK
    <3>1. posts \in Seq(SayOff..MaxFound)
      BY <1>1 DEF LinkInit
    <3>2. /\ checking \in BOOLEAN /\ bound \in BOOLEAN /\ discovering \in BOOLEAN
          /\ destroyed \in BOOLEAN
          /\ mStartDiscoveryAfterConnection \in BOOLEAN /\ scanning \in BOOLEAN
      BY <1>1, Zenon DEF LinkInit
    <3>3. /\ mState \in [Drones -> States] /\ due \subseteq Drones
          /\ request \in [Drones -> {"none", "start", "stop"}]
      BY <1>1 DEF LinkInit, States
    <3>4. mJumpingSumo \in 0..MaxFound /\ left \in 0..MaxFound /\ label \in {"on", "off"}
          /\ refused \subseteq Drones
      BY <1>1, LinkConstants DEF LinkInit
    <3> QED BY <3>1, <3>2, <3>3, <3>4 DEF LinkTypeOK
  <2>2. \A d : ~Noticed(d)
    BY <1>1 DEF LinkInit, Noticed, Holds
  <2>3. ~EndsOn(posts, label)
    BY <1>1 DEF LinkInit, EndsOn
  <2>4. Place /\ Fresh /\ Stale /\ Shown
    BY <1>1, <2>2, <2>3, LinkConstants
       DEF LinkInit, Place, Fresh, Stale, Shown, isJumpingSumoConnected
  <2> QED BY <2>1, <2>4 DEF LinkIInv
<1>2. ASSUME LinkIInv, [LinkNext]_linkVars
      PROVE  LinkIInv'
  BY <1>2, TypeStep, FreshStep, StaleStep, ShownStep DEF LinkIInv
<1> QED BY <1>1, <1>2

LEMMA Invariance == LinkSpec => []LinkIInv
<1>1. LinkInit => LinkIInv
  BY Inductive
<1>2. LinkIInv /\ [LinkNext]_linkVars => LinkIInv'
  BY Inductive
<1> QED BY <1>1, <1>2, PTL DEF LinkSpec

-----------------------------------------------------------------------------
(* The drones, the queue and the list keep their types, for any number of  *)
(* drones and of clicks.                                                   *)
THEOREM LinkTypeCorrect == LinkSpec => []LinkTypeOK
<1>1. LinkIInv => LinkTypeOK
  BY DEF LinkIInv
<1> QED BY <1>1, Invariance, PTL

(* Once the posted runnables have run, the label says connected only while *)
(* a drone really is.                                                      *)
THEOREM LabelTrue == LinkSpec => []LabelNotStale
<1>1. ASSUME LinkIInv, Settled, label = "on"
      PROVE  \E d \in Drones : mState[d] \in {"RUNNING", "STOPPING"}
  <2>1. \A d : ~Holds(posts, d)
    BY <1>1 DEF Settled, Holds
  <2>2. EndsOn(posts, label)
    BY <1>1, <2>1 DEF EndsOn
  <2> QED BY <1>1, <2>1, <2>2 DEF LinkIInv, Stale, Settled, Noticed
<1>2. LinkIInv => LabelNotStale
  BY <1>1 DEF LabelNotStale
<1> QED BY <1>2, Invariance, PTL

(* The drone in use never runs unannounced or under a scan.                *)
THEOREM RunningTold == LinkSpec => []RunningShown
<1>1. ASSUME LinkIInv, Settled, isJumpingSumoConnected,
             request[mJumpingSumo] # "stop", mJumpingSumo \notin refused
      PROVE  label = "on" /\ ~scanning
  <2>1. \A d : ~Noticed(d)
    BY <1>1 DEF Settled, Holds, Noticed
  <2>2. EndsOn(posts, label) /\ ~scanning
    BY <1>1, <2>1 DEF LinkIInv, Shown
  <2>3. label = "on"
    BY <1>1, <2>2 DEF EndsOn, Settled
  <2> QED BY <2>2, <2>3
<1>2. LinkIInv => RunningShown
  BY <1>1 DEF RunningShown
<1> QED BY <1>2, Invariance, PTL

-----------------------------------------------------------------------------
(* DroneLink implements DroneLife.                                         *)

LifeOf(d) == IF d > mJumpingSumo THEN "NONE"
             ELSE IF request[d] = "start" /\ mState[d] = "STOPPED" THEN "READY"
             ELSE mState[d]

LEMMA LifeIs ==
  life = [d \in Drones |-> LifeOf(d)]
BY DEF life, LifeOf

\* A step that leaves the life of every drone alone, or changes that of one.
LEMMA LifeSame ==
  ASSUME \A d \in Drones : LifeOf(d)' = LifeOf(d)
  PROVE  life' = life
<1>1. life' = [d \in Drones |-> LifeOf(d)']
  BY DEF life, LifeOf, Drones
<1> QED BY <1>1, LifeIs

LEMMA LifeChange ==
  ASSUME NEW d \in Drones, \A e \in Drones : e # d => LifeOf(e)' = LifeOf(e)
  PROVE  life' = [life EXCEPT ![d] = LifeOf(d)'] /\ life[d] = LifeOf(d)
<1>1. life' = [e \in Drones |-> LifeOf(e)']
  BY DEF life, LifeOf, Drones
<1> QED BY <1>1, LifeIs

LEMMA LifeStep ==
  ASSUME LinkIInv, [LinkNext]_linkVars
  PROVE  [Life!LifeNext]_(Life!lifeVars)
<1> USE DEF LinkIInv, drone, search, screen
<1>0. mJumpingSumo \in 0..MaxFound /\ Life!Drones = Drones
  BY DEF LinkTypeOK, Life!Drones, Drones
\* telling a drone that runs to stop does not change its life yet
<1>1. ASSUME mJumpingSumo' = mJumpingSumo, mState' = mState,
             \A d \in Drones : request'[d] = request[d]
                \/ (request'[d] = "stop" /\ mState[d] = "RUNNING" /\ d = mJumpingSumo)
      PROVE  UNCHANGED Life!lifeVars
  <2>1. \A d \in Drones : LifeOf(d)' = LifeOf(d)
    BY <1>1 DEF LifeOf
  <2> QED BY <1>1, <2>1, LifeSame DEF Life!lifeVars
<1>2. ASSUME NEW d \in Drones, onStateChanged(d)
      PROVE  Life!LifeNext
  <2>1. PICK new \in States :
          /\ StateFollows(mState[d], new, request[d])
          /\ mState' = [mState EXCEPT ![d] = new]
          /\ request' = [request EXCEPT ![d] = IF new = "RUNNING" THEN @ ELSE "none"]
    BY <1>2 DEF onStateChanged
  <2>2. mJumpingSumo' = mJumpingSumo
    BY <1>2 DEF onStateChanged
  <2>3. ~(d > mJumpingSumo)
    BY <2>1 DEF Fresh, StateFollows
  <2>4. ASSUME NEW e \in Drones, e # d
        PROVE  LifeOf(e)' = LifeOf(e)
    BY <2>1, <2>2, <2>4 DEF LinkTypeOK, LifeOf
  <2>5. LifeOf(d)' = new /\ life[d] = LifeOf(d)
    <3>1. mState'[d] = new /\ (new # "RUNNING" => request'[d] = "none")
      BY <2>1 DEF LinkTypeOK
    <3> QED BY <3>1, <2>2, <2>3, LifeIs DEF LifeOf
  <2>6. life' = [life EXCEPT ![d] = new]
    BY <2>4, <2>5, LifeChange
  <2>7. \/ LifeOf(d) = "READY" /\ new = "STARTING"
        \/ LifeOf(d) = "STARTING" /\ new \in {"RUNNING", "STOPPED"}
        \/ LifeOf(d) = "RUNNING" /\ new = "STOPPING"
        \/ LifeOf(d) = "STOPPING" /\ new = "STOPPED"
    BY <2>1, <2>3 DEF StateFollows, LifeOf
  <2> QED BY <1>0, <2>2, <2>5, <2>6, <2>7 DEF Life!LifeNext, Life!Goes
<1>3. ASSUME NEW d \in Drones, PostNotify(d)
      PROVE  UNCHANGED Life!lifeVars
  BY <1>1, <1>3 DEF PostNotify
<1>4. CASE NotifyConnectionChanged
  <2>1. posts # <<>> /\ UNCHANGED mJumpingSumo
    BY <1>4 DEF NotifyConnectionChanged
  <2>2. Tail(posts) \in Seq(Post)
    BY <2>1, PostFacts, TypeOfPosts
  <2>3. CASE disconnectJumpingSumo(Tail(posts))
    <3>1. mState' = mState
      BY <2>3 DEF disconnectJumpingSumo
    <3> QED BY <1>1, <2>1, <2>2, <2>3, <3>1, DisconnectEffect
  <2>4. CASE UNCHANGED <<mState, request>>
    BY <1>1, <2>1, <2>4
  <2> QED BY <1>4, <2>3, <2>4 DEF NotifyConnectionChanged, ShowConnected
<1>5. CASE onClick
  <2>1. CASE disconnectJumpingSumo(posts)
    <3>1. UNCHANGED <<mState, mJumpingSumo>>
      BY <1>5, <2>1 DEF disconnectJumpingSumo, onClick
    <3> QED BY <1>1, <2>1, <3>1, DisconnectEffect, PostFacts
  <2>2. CASE UNCHANGED <<drone, posts, refused>>
    BY <1>1, <1>5, <2>2 DEF onClick
  <2> QED BY <1>5, <2>1, <2>2 DEF onClick
<1>6. CASE \/ SetLabel \/ ServiceConnected \/ ServiceDisconnected
           \/ ListUpdated \/ UnknownProduct \/ CheckConnected
  <2>1. UNCHANGED <<mState, request, mJumpingSumo>>
    BY <1>6 DEF SetLabel, ServiceConnected, ServiceDisconnected, ListUpdated,
                UnknownProduct, CheckConnected, ShowConnected
  <2> QED BY <1>1, <2>1
<1>7. CASE FindDrone
  <2>0. left > 0 /\ ~checking /\ mJumpingSumo + 1 \in Drones
    BY <1>7, LinkConstants DEF FindDrone, Place, LinkTypeOK, Drones
  <2>2. PICK d \in Drones : d = mJumpingSumo + 1 /\ d > mJumpingSumo
    BY <1>0, <2>0
  <2>1. /\ mJumpingSumo' = d /\ mState' = mState
        /\ \/ request' = [request EXCEPT ![d] = "start"]
           \/ UNCHANGED request
    BY <1>7, <2>2 DEF FindDrone
  <2>3. mState[d] = "STOPPED" /\ request[d] = "none"
    BY <2>2, <2>1 DEF Fresh
  <2>4. \A e \in Drones : e # d =>
           request'[e] = request[e] /\ (e > mJumpingSumo <=> e > mJumpingSumo')
    <3>1. \A e \in Drones : e # d => request'[e] = request[e]
      BY <2>1 DEF LinkTypeOK
    <3>2. \A e \in Drones : e # d => (e > mJumpingSumo <=> e > d)
      BY <1>0, <2>2 DEF Drones
    <3> QED BY <3>1, <3>2, <2>1
  <2>5. \A e \in Drones : e # d => LifeOf(e)' = LifeOf(e)
    BY <2>1, <2>4 DEF LifeOf
  <2>6. LifeOf(d)' \in {"READY", "STOPPED"}
    <3>1. ~(d > mJumpingSumo')
      BY <2>1 DEF Drones
    <3>2. request'[d] \in {"start", "none"} /\ mState'[d] = "STOPPED"
      BY <2>1, <2>3 DEF LinkTypeOK
    <3> QED BY <2>3, <3>1, <3>2 DEF LifeOf
  <2>7. life' = [life EXCEPT ![d] = LifeOf(d)']
    BY <2>2, <2>5, LifeChange
  <2> QED BY <1>0, <2>1, <2>2, <2>6, <2>7 DEF Life!LifeNext, Life!Make
<1>8. CASE onDestroy
  <2>1. UNCHANGED <<mState, mJumpingSumo>> /\ disconnectJumpingSumo(posts)
    BY <1>8 DEF disconnectJumpingSumo, onDestroy
  <2> QED BY <1>1, <2>1, DisconnectEffect, PostFacts
<1>9. CASE UNCHANGED linkVars
  BY <1>1, <1>9 DEF linkVars
<1> QED BY <1>2, <1>3, <1>4, <1>5, <1>6, <1>7, <1>8, <1>9 DEF LinkNext, MainThread

(* Every step of the clicks, lists, notices and drone controllers takes one *)
(* drone one step on in its life, or none: DronePilot may rely on it.      *)
THEOREM LinkImplementsLife == LinkSpec => ImplementsLife
<1>1. LinkInit => Life!LifeInit
  BY DEF LinkInit, Life!LifeInit, life, Life!Drones, Drones
<1>2. LinkIInv /\ [LinkNext]_linkVars => [Life!LifeNext]_(Life!lifeVars)
  BY LifeStep
<1> QED BY <1>1, <1>2, Invariance, PTL DEF LinkSpec, ImplementsLife, Life!LifeSpec
=============================================================================
