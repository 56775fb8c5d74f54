---------------------------- MODULE NetworkProofs ----------------------------
(***************************************************************************)
(* The list of services fits the network, however often it goes and comes, *)
(* and what is in it is announced before it is forgotten.                  *)
(***************************************************************************)
EXTENDS Network, TLAPS

OnlyMidi(list, first) == \A i \in first .. Len(list) : list[i] = Midi

(* Ftp is in front of all the Midi entries that have come together, and    *)
(* disconnecting takes away just that one.                                 *)
Shape ==
    main = "loop" /\ m_bNetworkInit =>
        IF m_bNetworkReady
        THEN Len(m_ServiceList) > 1 /\ m_ServiceList[1] = Ftp /\ OnlyMidi(m_ServiceList, 2)
        ELSE Len(m_ServiceList) > 0 /\ OnlyMidi(m_ServiceList, 1)

(* Nothing is published before the network has been up, and the daemon     *)
(* never has a publisher.                                                  *)
Before ==
    /\ m_ServiceList \in Seq(Services)
    /\ m_bNetworkInit \in BOOLEAN /\ m_bNetworkReady \in BOOLEAN
    /\ ~m_bNetworkInit => m_pmDNSPublisher = FALSE
    /\ daemonPublisher # "publisher"
    /\ main \in {"boot", "loop", "yield", "halted"}
    /\ ~m_bNetworkInit \/ main = "yield" => m_bNetworkReady = FALSE /\ m_ServiceList = <<>>
    /\ main = "boot" => m_bNetworkInit = FALSE
    /\ main = "yield" => m_bNetworkInit

NetInv == Before /\ Shape

LEMMA NetInit == Init => NetInv
<1> SUFFICES ASSUME Init PROVE NetInv
  OBVIOUS
<1>1. <<>> \in Seq(Services)
  OBVIOUS
<1>2. Before
  BY <1>1 DEF Init, Before
<1>3. Shape
  BY DEF Init, Shape
<1> QED BY <1>2, <1>3 DEF NetInv

(* Both services go to the front, the FTP service first. *)
LEMMA PublishShape ==
    ASSUME NEW list \in Seq(Services), OnlyMidi(list, 1),
           NEW published, published = Inserted(Inserted(list, Midi), Ftp)
    PROVE  /\ published \in Seq(Services)
           /\ Len(published) > 1 /\ published[1] = Ftp /\ OnlyMidi(published, 2)
<1> USE DEF Inserted
<1>1. published \in Seq(Services) /\ Len(published) = Len(list) + 2
  BY DEF Services
<1>2. published[1] = Ftp
  BY DEF Services
<1>3. ASSUME NEW i \in 2 .. Len(published) PROVE published[i] = Midi
  <2>1. CASE i = 2
    BY <2>1, <1>1
  <2>2. CASE i > 2
    <3>1. published[i] = list[i - 2] /\ i - 2 \in 1 .. Len(list)
      BY <2>2, <1>1
    <3> QED BY <3>1 DEF OnlyMidi
  <2>3. i = 2 \/ i > 2
    OBVIOUS
  <2> QED BY <2>1, <2>2, <2>3
<1> QED BY <1>1, <1>2, <1>3 DEF OnlyMidi

(* A name that all the services have takes away the one in front. *)
LEMMA UnpublishShape ==
    ASSUME NEW list \in Seq(Services), Len(list) > 1, OnlyMidi(list, 2),
           NEW rest, rest = Unpublished(list, Services)
    PROVE  rest \in Seq(Services) /\ Len(rest) > 0 /\ OnlyMidi(rest, 1)
<1> DEFINE places == {i \in DOMAIN list : list[i] \in Services}
<1>1. 1 \in places /\ \A i \in places : i \in Nat /\ 1 <= i
  OBVIOUS
<1>2. Min(places) = 1
  BY <1>1 DEF Min
<1>3. rest = SubSeq(list, 1, 0) \o SubSeq(list, 2, Len(list))
  <2>1. rest = RemoveAt(list, Min(places))
    BY <1>1 DEF Unpublished
  <2> HIDE DEF places
  <2> QED BY <2>1, <1>2 DEF RemoveAt
<1>4. rest = SubSeq(list, 2, Len(list))
  BY <1>3
<1>5. rest \in Seq(Services) /\ Len(rest) = Len(list) - 1
  BY <1>4
<1>6. \A i \in 1 .. Len(rest) : rest[i] = list[i + 1]
  BY <1>4
<1> QED BY <1>5, <1>6 DEF OnlyMidi

LEMMA NetStep == NetInv /\ [Next]_vars => NetInv'
<1> SUFFICES ASSUME NetInv, [Next]_vars PROVE NetInv'
  OBVIOUS
<1>0. CASE UNCHANGED <<flags, main, objects, m_ServiceList>>
  BY <1>0 DEF NetInv, Before, Shape, OnlyMidi, flags, objects
<1>1. CASE Task \/ World \/ UNCHANGED vars
  BY <1>0, <1>1 DEF Task, Start, Woken, NextRound, World, GetsAddress, LinkChanges, Tick, vars
<1>2. CASE InitNetwork
  BY <1>2 DEF InitNetwork, NetInv, Before, Shape, flags, objects
<1>3. CASE FirstUp
  BY <1>3 DEF FirstUp, DaemonGets, NetInv, Before, Shape
<1>4. CASE FirstPublished
  <2>1. CASE m_bRunning
    <3>1. m_ServiceList = <<>> /\ m_bNetworkInit
      BY <1>4 DEF FirstPublished, NetInv, Before
    <3>2. m_ServiceList \in Seq(Services) /\ OnlyMidi(m_ServiceList, 1)
      BY <3>1 DEF OnlyMidi
    <3> QED BY <1>4, <2>1, <3>1, <3>2, PublishShape
            DEF FirstPublished, Publish, NetInv, Before, Shape, objects
  <2>2. CASE ~m_bRunning
    BY <1>4, <2>2 DEF FirstPublished, NetInv, Before, Shape, objects
  <2> QED BY <2>1, <2>2
<1>5. CASE Disconnected
  <2>1. /\ m_ServiceList \in Seq(Services) /\ Len(m_ServiceList) > 1
        /\ OnlyMidi(m_ServiceList, 2) /\ m_bNetworkInit
    BY <1>5 DEF Disconnected, NetInv, Before, Shape
  <2> QED BY <1>5, <2>1, UnpublishShape DEF Disconnected, NetInv, Before, Shape, objects
<1>6. CASE Reconnected
  <2>1. m_ServiceList \in Seq(Services) /\ OnlyMidi(m_ServiceList, 1)
    BY <1>6 DEF Reconnected, NetInv, Before, Shape
  <2> QED BY <1>6, <2>1, PublishShape DEF Reconnected, Publish, NetInv, Before, Shape, objects
<1>7. CASE Bye
  BY <1>7 DEF Bye, NetInv, Before, Shape, OnlyMidi, flags
<1>8. CASE Reboot
  <2>1. <<>> \in Seq(Services)
    OBVIOUS
  <2>2. Before'
    BY <1>8, <2>1 DEF Reboot, Before
  <2>3. Shape'
    BY <1>8 DEF Reboot, Shape
  <2> QED BY <2>2, <2>3 DEF NetInv
<1> QED BY <1>1, <1>2, <1>3, <1>4, <1>5, <1>6, <1>7, <1>8 DEF Next, Loop

THEOREM NetInvHolds == Spec => []NetInv
<1> QED BY NetInit, NetStep, PTL DEF Spec

(* What is offered fits the network as the main loop last saw it, however  *)
(* often it has gone and come back and however the publisher's task and    *)
(* the main loop take turns.                                               *)
THEOREM ListAlwaysFits == Spec => []ListFitsNetwork
<1>1. NetInv => ListFitsNetwork
  <2> SUFFICES ASSUME NetInv, main = "loop", m_bNetworkInit
               PROVE  /\ IF m_bNetworkReady
                         THEN \E i \in DOMAIN m_ServiceList : Offered(Ftp) = {i}
                         ELSE Offered(Ftp) = {}
                      /\ Offered(Midi) # {}
    BY DEF ListFitsNetwork
  <2> USE DEF NetInv, Before, Shape, OnlyMidi, Offered
  <2>1. CASE m_bNetworkReady
    <3>1. Offered(Ftp) = {1}
      BY <2>1 DEF Ftp, Midi
    <3>2. 2 \in Offered(Midi)
      BY <2>1
    <3> QED BY <2>1, <3>1, <3>2
  <2>2. CASE ~m_bNetworkReady
    <3>1. Offered(Ftp) = {}
      BY <2>2 DEF Ftp, Midi
    <3>2. 1 \in Offered(Midi)
      BY <2>2
    <3> QED BY <2>2, <3>1, <3>2
  <2> QED BY <2>1, <2>2
<1> QED BY <1>1, NetInvHolds, PTL
----------------------------------------------------------------------------
(* The seconds that may still pass before the next announcement.  A task   *)
(* that is in the last of its rounds, or between rounds, wakes late, and   *)
(* may find its event wiped out; then it waits for the time out, late once *)
(* more.                                                                   *)
UntilHeard ==
    CASE task = "waiting" -> IF m_Event THEN 0 ELSE timer + LATE
      [] task = "sleeping" -> IF round < 3 THEN timer + LATE
                              ELSE timer + LATE + WaitTime + LATE
      [] OTHER -> 0

TaskTypes ==
    /\ task \in {"none", "new", "failed", "waiting", "sleeping"}
    /\ timer \in Int /\ round \in Nat /\ m_Event \in BOOLEAN
    /\ unheard \in [Services -> Nat]

(* Nobody waits for what is not offered, or cannot be heard.               *)
NothingMissed ==
    \A s \in Services : ~NetIsRunning \/ s \notin Range(m_ServiceList) => unheard[s] = 0

(* Whatever is listed has a task that runs to announce it.                 *)
SomeoneAnnounces ==
    /\ m_ServiceList # <<>> => m_bRunning
    /\ main = "loop" /\ m_bNetworkInit => m_bRunning
    /\ task = "new" => main = "yield"

(* The clock of the task.                                                  *)
OnTime ==
    /\ m_bRunning => -LATE <= timer
    /\ task = "waiting" => timer <= WaitTime
    /\ task = "sleeping" => timer <= 1

(* What has been waited and what may still be waited.                      *)
Margin == \A s \in Services : unheard[s] + UntilHeard <= WaitTime + 1 + 2 * LATE

HeardInv == TaskTypes /\ NothingMissed /\ SomeoneAnnounces /\ OnTime /\ Margin

USE DEF WaitTime

LEMMA MinOfTwo == \A a, b \in Int : Min({a, b}) \in Int /\ Min({a, b}) <= a /\ Min({a, b}) \in {a, b}
<1> TAKE a, b \in Int
<1>1. \E x \in {a, b} : \A y \in {a, b} : x <= y
  OBVIOUS
<1>2. Min({a, b}) \in {a, b} /\ \A y \in {a, b} : Min({a, b}) <= y
  BY <1>1 DEF Min
<1> QED BY <1>2

LEMMA HeardInit == Init => HeardInv
<1> SUFFICES ASSUME Init PROVE HeardInv
  OBVIOUS
<1>1. /\ task = "none" /\ timer = 0 /\ round = 0 /\ m_Event = FALSE
      /\ main = "boot" /\ m_ServiceList = <<>> /\ m_bNetworkInit = FALSE
  BY DEF Init
<1>2. unheard \in [Services -> Nat] /\ \A s \in Services : unheard[s] = 0
  BY Zenon DEF Init
<1>3. TaskTypes
  <2>1. task \in {"none", "new", "failed", "waiting", "sleeping"}
    BY <1>1
  <2>2. timer \in Int /\ round \in Nat
    BY <1>1
  <2>3. m_Event \in BOOLEAN
    BY <1>1
  <2> QED BY <2>1, <2>2, <2>3, <1>2 DEF TaskTypes
<1>4. NothingMissed
  BY <1>2 DEF NothingMissed
<1>5. SomeoneAnnounces /\ OnTime
  BY <1>1 DEF SomeoneAnnounces, OnTime, m_bRunning
<1>6. Margin
  BY <1>1, <1>2, NetworkAssumption DEF Margin, UntilHeard
<1> QED BY <1>3, <1>4, <1>5, <1>6 DEF HeardInv

(* An announcement reaches whoever waits. *)
LEMMA AnnounceIsHeard ==
    ASSUME HeardInv, NEW i \in 1 .. 3, Announce(i),
           UNCHANGED <<board, world, flags, main, objects, m_ServiceList>>
    PROVE  HeardInv'
<1> USE NetworkAssumption
<1>1. unheard' = [s \in Services |-> 0]
  <2>1. unheard' = [s \in Services |->
                      IF s \in Range(m_ServiceList) /\ NetIsRunning THEN 0 ELSE unheard[s]]
    BY DEF Announce, Heard
  <2>2. \A s \in Services : unheard'[s] = 0
    BY <2>1 DEF HeardInv, NothingMissed
  <2> QED BY <2>1, <2>2
<1>2. task' = "sleeping" /\ round' = i /\ timer' = 1 /\ m_Event' = m_Event
  BY DEF Announce
<1>3. TaskTypes'
  BY <1>1, <1>2 DEF HeardInv, TaskTypes
<1>4. NothingMissed'
  BY <1>1 DEF NothingMissed
<1>5. SomeoneAnnounces' /\ OnTime'
  BY <1>2 DEF SomeoneAnnounces, OnTime, m_bRunning
<1>6. Margin'
  BY <1>1, <1>2 DEF Margin, UntilHeard
<1> QED BY <1>3, <1>4, <1>5, <1>6 DEF HeardInv

(* A publication makes the wait shorter or leaves it as it is, and what is *)
(* new in the list has not been waited for yet.                            *)
LEMMA PublishKeepsMargin ==
    ASSUME HeardInv, m_ServiceList \in Seq(Services), Publish, m_bRunning,
           UNCHANGED <<board, world, pub, m_bNetworkInit>>, main' = "loop"
    PROVE  HeardInv'
<1> USE NetworkAssumption
<1>1. unheard' = [s \in Services |->
                    IF s \in Range(m_ServiceList) THEN unheard[s] ELSE 0]
  BY DEF Publish
<1>2. task' = task /\ round' = round /\ timer' = timer /\ m_Event' = TRUE
  BY DEF Publish, pub
<1>3. TaskTypes'
  BY <1>1, <1>2 DEF HeardInv, TaskTypes
<1>4. NothingMissed'
  <2>1. NetIsRunning' = NetIsRunning
    BY DEF NetIsRunning, board, world
  <2>2. \A s \in Services : s \in Range(m_ServiceList')
    <3>1. m_ServiceList' = <<Ftp>> \o (<<Midi>> \o m_ServiceList)
      BY DEF Publish, Inserted
    <3>2. m_ServiceList'[1] = Ftp /\ m_ServiceList'[2] = Midi
          /\ 1 \in DOMAIN m_ServiceList' /\ 2 \in DOMAIN m_ServiceList'
      BY <3>1 DEF Services
    <3> QED BY <3>2 DEF Services, Range
  <2> QED BY <1>1, <2>1, <2>2 DEF NothingMissed, HeardInv
<1>5. SomeoneAnnounces' /\ OnTime'
  BY <1>2 DEF HeardInv, SomeoneAnnounces, OnTime, m_bRunning
<1>6. Margin'
  <2> SUFFICES ASSUME NEW s \in Services
               PROVE  unheard'[s] + UntilHeard' <= WaitTime + 1 + 2 * LATE
    BY DEF Margin
  <2>1. UntilHeard' \in Int /\ UntilHeard' <= UntilHeard
    BY <1>2 DEF HeardInv, TaskTypes, UntilHeard, OnTime, m_bRunning
  <2>2. UntilHeard \in Int /\ unheard[s] \in Nat /\ unheard'[s] <= unheard[s] /\ unheard'[s] \in Nat
    BY <1>1 DEF HeardInv, TaskTypes, UntilHeard
  <2> QED BY <2>1, <2>2 DEF HeardInv, Margin
<1> QED BY <1>3, <1>4, <1>5, <1>6 DEF HeardInv

(* Steps that leave the task and what is listed alone. *)
LEMMA NothingHeard ==
    ASSUME HeardInv, UNCHANGED <<pub, m_Event, unheard, m_ServiceList>>,
           NetIsRunning => NetIsRunning', SomeoneAnnounces'
    PROVE  HeardInv'
BY DEF HeardInv, pub, TaskTypes, NothingMissed, OnTime, Margin, UntilHeard, m_bRunning

LEMMA HeardStep == NetInv /\ HeardInv /\ [Next]_vars => HeardInv'
<1> SUFFICES ASSUME NetInv, HeardInv, [Next]_vars PROVE HeardInv'
  OBVIOUS
<1> USE NetworkAssumption
<1>1. CASE Start
  <2>1. m_ServiceList = <<>>
    BY <1>1 DEF Start, HeardInv, SomeoneAnnounces, NetInv, Before
  <2>2. \A s \in Services : unheard[s] = 0
    <3>1. \A s \in Services : s \notin Range(m_ServiceList)
      BY <2>1 DEF Range
    <3> QED BY <3>1 DEF HeardInv, NothingMissed
  <2>3. TaskTypes'
    <3>1. /\ task' \in {"waiting", "failed"} /\ timer' \in {WaitTime, 0}
          /\ m_Event' = FALSE /\ UNCHANGED <<round, unheard>>
      BY <1>1 DEF Start
    <3>2. timer' \in Int
      BY <3>1
    <3>3. m_Event' \in BOOLEAN
      BY <3>1
    <3> QED BY <3>1, <3>2, <3>3 DEF HeardInv, TaskTypes
  <2>4. NothingMissed'
    BY <1>1, <2>2 DEF Start, NothingMissed
  <2>5. SomeoneAnnounces'
    BY <1>1, <2>1 DEF Start, SomeoneAnnounces, HeardInv, m_bRunning, flags
  <2>6. OnTime'
    BY <1>1 DEF Start, OnTime, m_bRunning
  <2>7. Margin'
    BY <1>1, <2>2 DEF Start, Margin, UntilHeard
  <2> QED BY <2>3, <2>4, <2>5, <2>6, <2>7 DEF HeardInv
<1>2. CASE Woken
  BY <1>2, AnnounceIsHeard DEF Woken
<1>3. CASE NextRound
  <2>1. CASE round < 3
    <3>1. round + 1 \in 1 .. 3
      BY <2>1 DEF HeardInv, TaskTypes
    <3> QED BY <1>3, <2>1, <3>1, AnnounceIsHeard DEF NextRound
  <2>2. CASE ~(round < 3)
    <3>1. /\ task' = "waiting" /\ round' = 0 /\ timer' = WaitTime /\ m_Event' = FALSE
          /\ UNCHANGED <<unheard, board, world, flags, main, objects, m_ServiceList>>
      BY <1>3, <2>2 DEF NextRound
    <3>6. TaskTypes'
      <4>1. timer' \in Int /\ round' \in Nat
        BY <3>1
      <4>2. m_Event' \in BOOLEAN
        BY <3>1
      <4> QED BY <3>1, <4>1, <4>2 DEF HeardInv, TaskTypes
    <3>7. OnTime'
      BY <3>1 DEF OnTime, m_bRunning
    <3>8. SomeoneAnnounces'
      BY <3>1 DEF HeardInv, SomeoneAnnounces, m_bRunning, flags
    <3>2. TaskTypes' /\ OnTime' /\ SomeoneAnnounces'
      BY <3>6, <3>7, <3>8
    <3>3. NothingMissed'
      BY <3>1 DEF HeardInv, NothingMissed, NetIsRunning, board, world
    <3>4. UntilHeard' \in Int /\ UntilHeard' <= UntilHeard /\ UntilHeard \in Int
      BY <1>3, <2>2, <3>1 DEF NextRound, UntilHeard, HeardInv, TaskTypes, OnTime, m_bRunning
    <3>5. Margin'
      BY <3>1, <3>4 DEF HeardInv, Margin, TaskTypes
    <3> QED BY <3>2, <3>3, <3>5 DEF HeardInv
  <2> QED BY <2>1, <2>2
<1>4. CASE InitNetwork
  <2>1. m_ServiceList = <<>>
    BY <1>4 DEF InitNetwork, NetInv, Before
  <2>2. \A s \in Services : unheard[s] = 0
    <3>1. \A s \in Services : s \notin Range(m_ServiceList)
      BY <2>1 DEF Range
    <3> QED BY <3>1 DEF HeardInv, NothingMissed
  <2>3. NothingMissed'
    BY <1>4, <2>2 DEF InitNetwork, NothingMissed
  <2>4. SomeoneAnnounces'
    BY <1>4, <2>1 DEF InitNetwork, HeardInv, SomeoneAnnounces, m_bRunning, flags, pub, NetInv, Before
  <2> QED BY <1>4, <2>3, <2>4
          DEF InitNetwork, HeardInv, TaskTypes, OnTime, Margin, UntilHeard, m_bRunning, pub
<1>5. CASE FirstUp
  <2>1. m_ServiceList = <<>>
    BY <1>5 DEF FirstUp, NetInv, Before
  <2>2. \A s \in Services : unheard[s] = 0
    <3>1. \A s \in Services : s \notin Range(m_ServiceList)
      BY <2>1 DEF Range
    <3> QED BY <3>1 DEF HeardInv, NothingMissed
  <2>3. NothingMissed'
    BY <1>5, <2>2 DEF FirstUp, NothingMissed
  <2>4. SomeoneAnnounces'
    BY <1>5, <2>1 DEF FirstUp, SomeoneAnnounces
  <2>5. TaskTypes' /\ OnTime'
    BY <1>5 DEF FirstUp, HeardInv, TaskTypes, OnTime, m_bRunning
  <2>6. Margin'
    BY <1>5, <2>2 DEF FirstUp, Margin, UntilHeard
  <2> QED BY <2>3, <2>4, <2>5, <2>6 DEF HeardInv
<1>6. CASE FirstPublished
  <2>1. CASE m_bRunning
    BY <1>6, <2>1, PublishKeepsMargin DEF FirstPublished, NetInv, Before
  <2>2. CASE ~m_bRunning
    <3>1. UNCHANGED <<pub, m_Event, unheard, m_ServiceList, board, world>> /\ main' = "halted"
      BY <1>6, <2>2 DEF FirstPublished
    <3>2. SomeoneAnnounces'
      BY <1>6, <3>1 DEF FirstPublished, HeardInv, SomeoneAnnounces, m_bRunning, pub
    <3> QED BY <3>1, <3>2, NothingHeard DEF NetIsRunning, board, world
  <2> QED BY <2>1, <2>2
<1>7. CASE Disconnected
  <2>1. unheard' = [s \in Services |-> unheard[s]]
    BY <1>7 DEF Disconnected, Heard
  <2>2. unheard' = unheard
    BY <2>1 DEF HeardInv, TaskTypes
  <2>3. \A s \in Services : unheard[s] = 0
    BY <1>7 DEF Disconnected, HeardInv, NothingMissed
  <2>4. NothingMissed'
    BY <2>2, <2>3 DEF NothingMissed
  <2>5. SomeoneAnnounces'
    BY <1>7 DEF Disconnected, HeardInv, SomeoneAnnounces, NetInv, Before, m_bRunning, pub
  <2> QED BY <1>7, <2>2, <2>4, <2>5
          DEF Disconnected, HeardInv, TaskTypes, OnTime, Margin, UntilHeard, m_bRunning, pub
<1>8. CASE Reconnected
  BY <1>8, PublishKeepsMargin DEF Reconnected, NetInv, Before, HeardInv, SomeoneAnnounces
<1>9. CASE Bye
  <2>1. UNCHANGED <<pub, m_Event, unheard, m_ServiceList, board, world, flags, main>>
    BY <1>9 DEF Bye, NetInv, Before
  <2>2. SomeoneAnnounces'
    BY <2>1 DEF HeardInv, SomeoneAnnounces, m_bRunning, pub, flags
  <2> QED BY <2>1, <2>2, NothingHeard DEF NetIsRunning, board, world
<1>10. CASE Reboot
  <2>1. /\ task' = "none" /\ timer' = 0 /\ round' = 0 /\ m_Event' = FALSE
        /\ main' = "boot" /\ m_ServiceList' = <<>> /\ m_bNetworkInit' = FALSE
    BY <1>10 DEF Reboot
  <2>2. unheard' \in [Services -> Nat] /\ \A s \in Services : unheard'[s] = 0
    BY <1>10, Zenon DEF Reboot
  <2>3. TaskTypes'
    <3>1. timer' \in Int /\ round' \in Nat
      BY <2>1
    <3>2. m_Event' \in BOOLEAN
      BY <2>1
    <3>3. task' \in {"none", "new", "failed", "waiting", "sleeping"}
      BY <2>1
    <3> QED BY <3>1, <3>2, <3>3, <2>2 DEF TaskTypes
  <2>4. NothingMissed'
    BY <2>2 DEF NothingMissed
  <2>5. SomeoneAnnounces' /\ OnTime'
    BY <2>1 DEF SomeoneAnnounces, OnTime, m_bRunning
  <2>6. Margin'
    BY <2>1, <2>2 DEF Margin, UntilHeard
  <2> QED BY <2>3, <2>4, <2>5, <2>6 DEF HeardInv
<1>11. CASE GetsAddress
  <2>1. UNCHANGED <<pub, m_Event, unheard, m_ServiceList, board, link, flags, main>> /\ address'
    BY <1>11 DEF GetsAddress
  <2>2. SomeoneAnnounces'
    BY <2>1 DEF HeardInv, SomeoneAnnounces, m_bRunning, pub, flags
  <2> QED BY <2>1, <2>2, NothingHeard DEF NetIsRunning, board
<1>12. CASE LinkChanges
  <2>1. UNCHANGED <<pub, m_Event, m_ServiceList, flags, main>>
    BY <1>12 DEF LinkChanges
  <2>2. unheard' \in [Services -> Nat] /\ \A s \in Services : unheard'[s] = 0
    BY <1>12, Zenon DEF LinkChanges
  <2>3. TaskTypes' /\ OnTime' /\ SomeoneAnnounces'
    BY <2>1, <2>2 DEF HeardInv, TaskTypes, OnTime, SomeoneAnnounces, m_bRunning, pub, flags
  <2>4. NothingMissed'
    BY <2>2 DEF NothingMissed
  <2>5. Margin'
    <3>1. UntilHeard' = UntilHeard /\ UntilHeard \in Int
      BY <2>1 DEF UntilHeard, pub, HeardInv, TaskTypes
    <3> QED BY <3>1, <2>2 DEF Margin, HeardInv, TaskTypes
  <2> QED BY <2>3, <2>4, <2>5 DEF HeardInv
<1>13. CASE Tick
  <2>1. /\ timer' = IF m_bRunning THEN timer - 1 ELSE timer
        /\ unheard' = [s \in Services |->
                         IF s \in Range(m_ServiceList) /\ NetIsRunning
                         THEN Min({unheard[s] + 1, TTLShort + 1}) ELSE 0]
        /\ UNCHANGED <<board, world, flags, main, objects, m_ServiceList, task, round, m_Event>>
        /\ ~(task = "waiting" /\ m_Event)
        /\ m_bRunning => ~(timer <= -LATE)
    BY <1>13 DEF Tick, TaskIsLate
  <2>2. \A s \in Services :
           /\ unheard'[s] \in Nat
           /\ s \in Range(m_ServiceList) => unheard'[s] <= unheard[s] + 1
           /\ ~NetIsRunning \/ s \notin Range(m_ServiceList) => unheard'[s] = 0
    <3> TAKE s \in Services
    <3>1. unheard[s] + 1 \in Nat /\ TTLShort + 1 \in Nat
      BY DEF HeardInv, TaskTypes
    <3>2. /\ Min({unheard[s] + 1, TTLShort + 1}) \in Nat
          /\ Min({unheard[s] + 1, TTLShort + 1}) <= unheard[s] + 1
      <4> DEFINE a == unheard[s] + 1
                 b == TTLShort + 1
      <4>1. a \in Nat /\ b \in Nat
        BY <3>1
      <4> HIDE DEF a, b
      <4>2. Min({a, b}) \in {a, b} /\ Min({a, b}) <= a
        BY <4>1, MinOfTwo
      <4>3. Min({a, b}) \in Nat
        BY <4>1, <4>2
      <4> QED BY <4>2, <4>3 DEF a, b
    <3>3. unheard'[s] = IF s \in Range(m_ServiceList) /\ NetIsRunning
                        THEN Min({unheard[s] + 1, TTLShort + 1}) ELSE 0
      BY <2>1
    <3>4. CASE s \in Range(m_ServiceList) /\ NetIsRunning
      <4>1. unheard'[s] = Min({unheard[s] + 1, TTLShort + 1})
        BY <3>3, <3>4
      <4> DEFINE least == Min({unheard[s] + 1, TTLShort + 1})
      <4>2. least \in Nat /\ least <= unheard[s] + 1 /\ unheard'[s] = least
        BY <3>2, <4>1
      <4> HIDE DEF least
      <4> QED BY <3>4, <4>2
    <3>5. CASE ~(s \in Range(m_ServiceList) /\ NetIsRunning)
      <4>1. unheard'[s] = 0
        BY <3>3, <3>5
      <4> QED BY <3>1, <4>1
    <3> QED BY <3>4, <3>5
  <2>3. TaskTypes'
    <3>1. unheard' \in [Services -> Nat]
      BY <2>1, <2>2
    <3>2. timer' \in Int
      BY <2>1 DEF HeardInv, TaskTypes
    <3> QED BY <2>1, <3>1, <3>2 DEF HeardInv, TaskTypes
  <2>4. NothingMissed'
    BY <2>1, <2>2 DEF NothingMissed, NetIsRunning, board, world
  <2>5. SomeoneAnnounces'
    BY <2>1 DEF HeardInv, SomeoneAnnounces, m_bRunning, flags
  <2>6. OnTime'
    <3>1. task' = task /\ m_bRunning' = m_bRunning /\ timer \in Int
      BY <2>1 DEF HeardInv, TaskTypes, m_bRunning
    <3>2. m_bRunning' => -LATE <= timer'
      BY <2>1, <3>1
    <3>3. timer' <= timer
      BY <2>1, <3>1
    <3> QED BY <2>1, <3>1, <3>2, <3>3 DEF HeardInv, OnTime
  <2>7. Margin'
    <3> SUFFICES ASSUME NEW s \in Services
                 PROVE  unheard'[s] + UntilHeard' <= WaitTime + 1 + 2 * LATE
      BY DEF Margin
    <3>1. CASE s \in Range(m_ServiceList)
      <4>1. m_bRunning
        <5>1. m_ServiceList # <<>>
          BY <3>1 DEF Range
        <5> QED BY <5>1 DEF HeardInv, SomeoneAnnounces
      <4>2. UntilHeard' = UntilHeard - 1 /\ UntilHeard \in Int
        BY <2>1, <4>1 DEF UntilHeard, m_bRunning, HeardInv, TaskTypes
      <4> QED BY <2>2, <3>1, <4>2 DEF HeardInv, Margin, TaskTypes
    <3>2. CASE s \notin Range(m_ServiceList)
      <4>1. UntilHeard' \in Int /\ UntilHeard' <= WaitTime + 1 + 2 * LATE
        BY <2>1, <2>3, <2>6 DEF UntilHeard, m_bRunning, HeardInv, TaskTypes, OnTime
      <4> QED BY <2>2, <3>2, <4>1
    <3> QED BY <3>1, <3>2
  <2> QED BY <2>3, <2>4, <2>5, <2>6, <2>7 DEF HeardInv
<1>14. CASE UNCHANGED vars
  <2>1. UNCHANGED <<pub, m_Event, unheard, m_ServiceList, board, world, flags, main>>
    BY <1>14 DEF vars
  <2>2. SomeoneAnnounces'
    BY <2>1 DEF HeardInv, SomeoneAnnounces, m_bRunning, pub, flags
  <2> QED BY <2>1, <2>2, NothingHeard DEF NetIsRunning, board, world
<1> QED BY <1>1, <1>2, <1>3, <1>4, <1>5, <1>6, <1>7, <1>8, <1>9, <1>10, <1>11, <1>12, <1>13, <1>14
        DEF Next, Task, Loop, World

THEOREM HeardInvHolds == Spec => []HeardInv
<1> QED BY HeardInit, HeardStep, NetInvHolds, PTL DEF Spec

(* A listener never has to forget what is still offered, with tasks that   *)
(* are late by up to four seconds and a request to announce that the last  *)
(* round wipes out: 10 seconds before the end are enough for both.         *)
THEOREM AlwaysAnnouncedInTime == Spec => []AnnouncedInTime
<1>1. HeardInv => AnnouncedInTime
  <2> SUFFICES ASSUME HeardInv, NEW s \in Services PROVE unheard[s] <= TTLShort
    BY DEF AnnouncedInTime
  <2>1. UntilHeard \in Int /\ 0 <= UntilHeard
    BY NetworkAssumption DEF HeardInv, TaskTypes, OnTime, UntilHeard, m_bRunning
  <2>2. unheard[s] \in Nat /\ unheard[s] + UntilHeard <= TTLShort - 10 + 1 + 2 * LATE
    BY DEF HeardInv, TaskTypes, Margin
  <2>3. 2 * LATE + 1 <= 10
    BY LatenessAssumption
  <2> QED BY <2>1, <2>2, <2>3, NetworkAssumption
<1> QED BY <1>1, HeardInvHolds, PTL
============================================================================
