------------------------------ MODULE Network ------------------------------
(***************************************************************************)
(* The life of the network: InitNetwork at boot, UpdateNetwork once in     *)
(* every round of the main loop, the multicast DNS publisher's task, and   *)
(* the FTP command BYE, which takes the services back and reboots.  Tasks  *)
(* are cooperative: control passes only in Yield, Wait and Sleep, so each  *)
(* action runs from one of these to the next.  Time is counted in seconds, *)
(* and a task runs at most LATE seconds after it is due (the longest a     *)
(* round of the main loop takes is a bank change).  The network cannot be  *)
(* told from the socket: what is sent while it is away is heard by nobody. *)
(***************************************************************************)
EXTENDS Integers, Sequences, SequencesExt, FiniteSetsExt

CONSTANTS TTLShort,     \* seconds after which a listener forgets a service
          LATE,         \* the most a task that is due is kept waiting
          MaxLosses     \* bound on how often the network goes away

ASSUME NetworkAssumption == /\ TTLShort \in Nat /\ TTLShort > 10
                            /\ LATE \in Nat /\ MaxLosses \in Nat
\* Twice late, a task still keeps within the ten seconds WaitTime leaves it.
ASSUME LatenessAssumption == 2 * LATE + 1 <= 10

Midi == "apple-midi"
Ftp  == "ftp"
Services == {Midi, Ftp}

VARIABLES
    m_pNet, device, m_WPASupplicant,  \* what InitNetwork has set up
    address, link,                    \* IsRunning, and the cable or access point
    m_bNetworkInit, m_bNetworkReady,
    main,                             \* where the main loop stands
    daemonPublisher,                  \* the publisher the FTP daemon was given
    m_pmDNSPublisher,                 \* whether the publisher exists
    m_ServiceList,
    task, round, timer, m_Event,      \* the publisher's task, its round of
                                      \* announcements, its time left, its event
    unheard,                          \* seconds a listener has waited for a service
    losses

board   == <<m_pNet, device, m_WPASupplicant>>
world   == <<address, link, losses>>
flags   == <<m_bNetworkInit, m_bNetworkReady>>
objects == <<daemonPublisher, m_pmDNSPublisher>>
pub     == <<task, round, timer>>
vars == <<board, world, flags, main, objects, m_ServiceList, pub, m_Event, unheard>>

m_bRunning == task \in {"waiting", "sleeping"}

(* IsRunning, and the link of the device in use (a board with the wireless *)
(* device but no supplicant never has one).                                *)
NetIsRunning == /\ address
                /\ link
                /\ device = "wlan" => m_WPASupplicant

Init == /\ m_pNet = FALSE /\ device = "unknown" /\ m_WPASupplicant = FALSE
        /\ address = FALSE /\ link = FALSE /\ losses = 0
        /\ m_bNetworkInit = FALSE /\ m_bNetworkReady = FALSE
        /\ main = "boot"
        /\ daemonPublisher = "no daemon" /\ m_pmDNSPublisher = FALSE
        /\ m_ServiceList = <<>>
        /\ task = "none" /\ round = 0 /\ timer = 0 /\ m_Event = FALSE
        /\ unheard = [s \in Services |-> 0]

----------------------------------------------------------------------------
(* The publisher. *)

(* Mutant: at the end. *)
InsertedLast(list, service) == Append(list, service)

Inserted(list, service) == <<service>> \o list

(* Both forms of UnpublishService take the first entry that fits.  All the *)
(* services have the name of the host, so a name alone fits any of them.   *)
Unpublished(list, fits) ==
    IF \E i \in DOMAIN list : list[i] \in fits
    THEN RemoveAt(list, Min({i \in DOMAIN list : list[i] \in fits}))
    ELSE list

(* SendResponse, for a service that is listed or one that has been taken   *)
(* back: both are sent with the same times to live.                        *)
Heard(sent) == [s \in Services |-> IF s \in sent /\ NetIsRunning THEN 0 ELSE unheard[s]]

(* The task begins: the port is bound and the group joined, or it waits    *)
(* for ever with m_bRunning unset.                                         *)
(* Mutant: only just in time, were the task never late. *)
WaitForTTL == TTLShort

WaitTime == TTLShort - 10

Start == /\ task = "new"
         /\ \/ task' = "waiting" /\ timer' = WaitTime
            \/ task' = "failed" /\ timer' = 0
         /\ m_Event' = FALSE
         /\ UNCHANGED <<board, world, flags, main, objects, m_ServiceList, round, unheard>>

Announce(i) == /\ task' = "sleeping" /\ round' = i /\ timer' = 1
               /\ unheard' = Heard(Range(m_ServiceList))
               /\ UNCHANGED m_Event

Woken == /\ task = "waiting"
         /\ m_Event \/ timer <= 0
         /\ Announce(1)
         /\ UNCHANGED <<board, world, flags, main, objects, m_ServiceList>>

NextRound == /\ task = "sleeping" /\ timer <= 0
             /\ IF round < 3
                THEN Announce(round + 1)
                ELSE /\ task' = "waiting" /\ round' = 0 /\ timer' = WaitTime
                     /\ m_Event' = FALSE
                     /\ UNCHANGED unheard
             /\ UNCHANGED <<board, world, flags, main, objects, m_ServiceList>>

----------------------------------------------------------------------------
(* The main loop. *)

InitNetwork ==
    /\ main = "boot"
    /\ main' = "loop"
    /\ \/ UNCHANGED board                \* disabled, or a device that failed
       \/ /\ m_pNet' = TRUE
          /\ \/ device' = "ethernet" /\ m_WPASupplicant' = FALSE
             \/ device' = "wlan" /\ m_WPASupplicant' \in BOOLEAN
    /\ UNCHANGED <<world, flags, objects, m_ServiceList, pub, m_Event, unheard>>

Publish == /\ m_ServiceList' = Inserted(Inserted(m_ServiceList, Midi), Ftp)
           /\ m_Event' = TRUE
           /\ unheard' = [s \in Services |->
                            IF s \in Range(m_ServiceList) THEN unheard[s] ELSE 0]

DaemonGets == m_pmDNSPublisher

FirstUp == /\ main = "loop" /\ m_pNet
           /\ ~m_bNetworkInit /\ NetIsRunning
           /\ m_bNetworkInit' = TRUE
           /\ \/ daemonPublisher' = IF DaemonGets THEN "publisher" ELSE "null"
              \/ UNCHANGED daemonPublisher
           /\ m_pmDNSPublisher' = TRUE
           /\ task' = "new"
           /\ main' = "yield"                 \* in PublishService
           /\ UNCHANGED <<board, world, m_bNetworkReady, m_ServiceList, round, timer,
                          m_Event, unheard>>

(* Back from Yield: every other task has run once.  The rest of the same   *)
(* call of UpdateNetwork still goes by the state of the network it read.   *)
FirstPublished == /\ main = "yield" /\ task # "new"
                  /\ IF m_bRunning
                     THEN /\ main' = "loop"
                          /\ m_bNetworkReady' = TRUE
                          /\ Publish
                     ELSE /\ main' = "halted"         \* LOGPANIC
                          /\ UNCHANGED <<m_bNetworkReady, m_ServiceList, m_Event, unheard>>
                  /\ UNCHANGED <<board, world, m_bNetworkInit, objects, pub>>

Disconnected == /\ main = "loop" /\ m_pNet
                /\ m_bNetworkReady /\ ~NetIsRunning
                /\ m_bNetworkReady' = FALSE
                /\ m_ServiceList' = Unpublished(m_ServiceList, Services)
                /\ unheard' = Heard({})
                /\ UNCHANGED <<board, world, m_bNetworkInit, main, objects, pub, m_Event>>

Reconnected == /\ main = "loop" /\ m_pNet
               /\ m_bNetworkInit /\ ~m_bNetworkReady /\ NetIsRunning
               /\ m_bNetworkReady' = TRUE
               /\ Publish
               /\ UNCHANGED <<board, world, m_bNetworkInit, main, objects, pub>>

(* BYE of a client that has logged in: whatever the daemon's publisher can *)
(* take back, two seconds in which the other tasks go on, and a reboot.    *)
Bye == /\ main = "loop" /\ daemonPublisher \in {"null", "publisher"} /\ NetIsRunning
       /\ IF daemonPublisher = "publisher"
          THEN m_ServiceList' = Unpublished(Unpublished(Unpublished(
                                   m_ServiceList, Services), {Midi}), {Ftp})
          ELSE UNCHANGED m_ServiceList
       /\ daemonPublisher' = "leaving"
       /\ UNCHANGED <<board, world, flags, main, m_pmDNSPublisher, pub, m_Event, unheard>>

Reboot == /\ daemonPublisher = "leaving" /\ main # "halted"
          /\ m_pNet' = FALSE /\ device' = "unknown" /\ m_WPASupplicant' = FALSE
          /\ m_bNetworkInit' = FALSE /\ m_bNetworkReady' = FALSE
          /\ main' = "boot"
          /\ daemonPublisher' = "no daemon" /\ m_pmDNSPublisher' = FALSE
          /\ m_ServiceList' = <<>>
          /\ task' = "none" /\ round' = 0 /\ timer' = 0 /\ m_Event' = FALSE
          /\ unheard' = [s \in Services |-> 0]
          /\ address' = FALSE /\ UNCHANGED <<link, losses>>

----------------------------------------------------------------------------
(* The world. *)

GetsAddress == /\ m_pNet /\ link /\ address' = TRUE
               /\ UNCHANGED <<board, link, losses, flags, main, objects,
                              m_ServiceList, pub, m_Event, unheard>>

LinkChanges == /\ link' = ~link
               /\ IF link THEN losses < MaxLosses /\ losses' = losses + 1
                          ELSE UNCHANGED losses
               /\ unheard' = [s \in Services |-> 0]
               /\ UNCHANGED <<board, address, flags, main, objects, m_ServiceList,
                              pub, m_Event>>

TaskIsLate == \/ task = "new"
              \/ task = "waiting" /\ m_Event
              \/ m_bRunning /\ timer <= -LATE

(* A second passes.  A listener waits for the services that are listed.    *)
Tick == /\ ~TaskIsLate /\ main # "halted"
        /\ timer' = IF m_bRunning THEN timer - 1 ELSE timer
        /\ unheard' = [s \in Services |->
                          IF s \in Range(m_ServiceList) /\ NetIsRunning
                          THEN Min({unheard[s] + 1, TTLShort + 1}) ELSE 0]
        /\ UNCHANGED <<board, world, flags, main, objects, m_ServiceList, task,
                       round, m_Event>>

Task == Start \/ Woken \/ NextRound
Loop == InitNetwork \/ FirstUp \/ FirstPublished \/ Disconnected \/ Reconnected
World == GetsAddress \/ LinkChanges \/ Tick
Next == Task \/ Loop \/ Bye \/ Reboot \/ World

Spec == Init /\ [][Next]_vars

----------------------------------------------------------------------------
(* What the publisher offers fits the network as the main loop last saw    *)
(* it: the FTP service is in the list once while the network is up and not *)
(* at all while it is down, and the MIDI service, once offered, stays.     *)
(* The two services share a name, a disconnect takes back "the" service of *)
(* that name, and a reconnect offers both anew; this comes out right only  *)
(* by the order in which they are published, the end of the list that they *)
(* are put at, and a daemon that has no publisher of its own to use.       *)
Offered(s) == {i \in DOMAIN m_ServiceList : m_ServiceList[i] = s}

ListFitsNetwork ==
    main = "loop" /\ m_bNetworkInit =>
        /\ IF m_bNetworkReady
           THEN \E i \in DOMAIN m_ServiceList : Offered(Ftp) = {i}
           ELSE Offered(Ftp) = {}
        /\ Offered(Midi) # {}

(* A listener never has to forget a service that is still offered: while   *)
(* the network is up, each service in the list is announced before the     *)
(* time to live of its records is over, whatever the moment it was         *)
(* published at.  A request to announce that comes in the last of the      *)
(* three rounds is wiped out when the task goes back to waiting, and only  *)
(* the time out makes up for it.                                           *)
AnnouncedInTime == \A s \in Services : unheard[s] <= TTLShort
============================================================================
