--------------------------- MODULE WifiConnection ---------------------------
(***************************************************************************)
(* The Core 1 loop of NetworkServices::Update: WifiConnection's station    *)
(* state machine, the health checks of the home path, the hotspot and the  *)
(* three listeners, and the status published for Core 0.                   *)
(*                                                                         *)
(* One pass of the loop runs through the values of pc.  lwIP and radio     *)
(* callbacks run between its steps: the link changes, packets arrive,      *)
(* clients connect and leave.  A timer is a choice between "due" and "not  *)
(* yet" where the code compares it with the clock; it only has to come     *)
(* due eventually.                                                         *)
(***************************************************************************)
EXTENDS Integers, FiniteSets

CONSTANTS Listeners,     \* photo, HTTP and video listeners
          ProbeLimit,    \* WIFI_GATEWAY_PROBE_FAIL_DEBOUNCE_COUNT
          RadioLimit,    \* RSSI_PROBE_FAIL_DEBOUNCE_COUNT
          MaxArrivals,   \* BOUND: clients that ever connect
          MaxFaults      \* BOUND: failures of the radio, the link, a listener

ASSUME WifiAssumption ==
    /\ IsFiniteSet(Listeners) /\ Listeners # {}
    /\ ProbeLimit \in Nat \ {0} /\ RadioLimit \in Nat \ {0}
    /\ MaxArrivals \in Nat /\ MaxFaults \in Nat

VARIABLES
    pc,          \* where the pass of UpdateNetworkStateMachine stands
    radio,       \* m_cyw43Initialized
    net,         \* m_netState
    connecting,  \* m_stationConnecting
    restart,     \* m_forceRadioRestart
    rssiFails,   \* m_rssiProbeFailStreak
    monitor,     \* the input monitor and the gateway ARP probe
    hotspot,     \* m_hotspot.IsReady()
    listening,   \* listeners that are open
    services,    \* m_servicesReady
    status,      \* NetworkServices::status_, the readiness it publishes
    link,        \* the station as the driver reports it
    alive,       \* the radio answers queries
    client,      \* the interface a listener's client came through
    silent,      \* history: probes lost since home was entered or heard from
                 \* (up to ProbeLimit)
    deaf,        \* history: queries lost since the radio last answered
                 \* (up to RadioLimit)
    arrivals, faults

control == <<radio, net, connecting, restart, rssiFails, monitor>>
access == <<hotspot, listening, services>>
world == <<link, alive, client>>
bounds == <<arrivals, faults>>
vars == <<pc, control, access, status, world, silent, deaf, bounds>>

Points == {"home", "station", "stopServices", "stopHotspot", "suspend",
           "deinit", "init", "connect", "hotspot", "services", "publish"}
Nowhere == [home |-> FALSE, hotspot |-> FALSE]
Stopped == [verified |-> FALSE, fails |-> 0, pending |-> FALSE,
            reply |-> FALSE, heard |-> "no"]
Quiet == [l \in Listeners |-> "none"]

Init ==
    /\ pc = "home"
    /\ radio = FALSE /\ net = "NoWifi" /\ connecting = FALSE
    /\ restart = FALSE /\ rssiFails = 0 /\ monitor = Stopped
    /\ hotspot = FALSE /\ listening = {} /\ services = FALSE
    /\ status = Nowhere
    /\ link = "off" /\ alive = TRUE
    /\ client = Quiet
    /\ silent = 0 /\ deaf = 0 /\ arrivals = 0 /\ faults = 0

MayFail == faults < MaxFaults
Fault(b) == IF b THEN MayFail /\ faults' = faults + 1 ELSE UNCHANGED faults
Goto(next) == pc' = next
UpTo(limit, n) == IF n < limit THEN n ELSE limit

(***************************************************************************)
(* States the loop tests.  The station is usable when the link is up with  *)
(* an address: "up" with a gateway whose packets arrive, "silent" with one *)
(* whose packets do not, "local" without a gateway, "overlap" with an      *)
(* address of the hotspot's own subnet.                                    *)
(***************************************************************************)
Addressed == {"up", "silent", "local", "overlap"}
Usable == radio /\ link \in Addressed
IsRadioResponding == alive       \* its RSSI can be read
HasSubnetConflict == link = "overlap"
HasActiveNetworkClient == radio /\ \E l \in Listeners : client[l] # "none"
HomeVerified == monitor.verified /\ monitor.fails = 0
IsHomeWifiReady == services /\ net = "Ready" /\ HomeVerified
IsHotspotReady == services /\ hotspot

\* MUTANT: losing home closes the listeners too.
EnterNoWifiState_StopsAccess(restartRadio) ==
    /\ net' = "NoWifi" /\ connecting' = FALSE
    /\ restart' = restartRadio /\ rssiFails' = 0
    /\ monitor' = Stopped /\ link' = "off"
    /\ listening' = {} /\ services' = FALSE /\ client' = Quiet
    /\ UNCHANGED <<radio, hotspot, alive>>

\* StopStationMonitoring and cyw43_arch_disable_sta_mode: the hotspot, the
\* listeners and their clients are not touched.
EnterNoWifiState(restartRadio) ==
    /\ net' = "NoWifi" /\ connecting' = FALSE
    /\ restart' = restartRadio /\ rssiFails' = 0
    /\ monitor' = Stopped /\ link' = "off"
    /\ UNCHANGED <<radio, access, alive, client>>

\* StartInputMonitor: without a gateway there is nothing to verify.
EnterWifiNoTcpState ==
    /\ net' = "WifiNoTcp" /\ connecting' = FALSE /\ rssiFails' = 0
    /\ monitor' = [Stopped EXCEPT !.verified = (link = "local")]
    /\ UNCHANGED <<radio, restart, access, world>>

(***************************************************************************)
(* CheckReachability: traffic or an ARP reply verifies the path; a probe   *)
(* that times out or cannot be sent counts against it.                     *)
(***************************************************************************)
Recent(m) == m.heard # "no"

\* MUTANT: traffic does not end the run of lost probes.
Observed_KeepsStreak(m) ==
    IF m.reply \/ Recent(m)
    THEN [m EXCEPT !.verified = TRUE, !.heard = IF Recent(m) THEN "seen" ELSE "no"]
    ELSE m

Observed(m) ==
    IF m.reply \/ Recent(m)
    THEN [m EXCEPT !.verified = TRUE, !.fails = 0,
                   !.heard = IF Recent(m) THEN "seen" ELSE "no"]
    ELSE m

Missed(m) == [m EXCEPT !.fails = IF Recent(m) THEN @ ELSE @ + 1]

\* m_arpProbeDeadline has passed.
TimedOut(m) ==
    IF m.pending
    THEN LET done == [m EXCEPT !.pending = FALSE]
         IN  IF m.reply THEN done ELSE Missed(done)
    ELSE m

\* m_nextArpProbeTime has passed; etharp_request may have no memory.
Probed(m, sent) ==
    IF m.pending \/ link = "local" THEN m
    ELSE LET asked == [m EXCEPT !.pending = sent, !.reply = FALSE]
         IN  IF sent THEN asked ELSE Missed(asked)

CheckReachability ==
    \E expired \in BOOLEAN, probe \in {"none", "sent", "unsent"} :
        LET heard == Observed(monitor)
            waited == IF expired THEN TimedOut(heard) ELSE heard
            checked == IF probe = "none" THEN waited
                       ELSE Probed(waited, probe = "sent")
        IN  /\ silent' = UpTo(ProbeLimit, silent + checked.fails - heard.fails)
            /\ IF checked.fails >= ProbeLimit
               THEN EnterNoWifiState(FALSE)
               ELSE /\ monitor' = checked
                    /\ rssiFails' = IF IsRadioResponding THEN 0 ELSE rssiFails + 1
                    /\ UNCHANGED <<radio, net, connecting, restart, access,
                                   world>>

\* CheckWifiHealth when the health interval has passed.
CheckWifiHealth ==
    /\ deaf' = IF IsRadioResponding THEN 0 ELSE UpTo(RadioLimit, deaf + 1)
    /\ IF ~IsRadioResponding /\ rssiFails + 1 >= RadioLimit
       THEN EnterNoWifiState(TRUE) /\ UNCHANGED silent
       ELSE CheckReachability

(***************************************************************************)
(* First part of the pass: follow the station's link.                      *)
(***************************************************************************)
CheckHome ==
    /\ pc = "home" /\ Goto("station")
    /\ IF Usable /\ ~restart
       THEN \/ /\ net = "NoWifi"
               /\ IF HasSubnetConflict
                  THEN EnterNoWifiState(FALSE)
                  ELSE EnterWifiNoTcpState
               /\ silent' = 0 /\ UNCHANGED deaf
            \/ /\ net # "NoWifi"
               /\ \/ CheckWifiHealth
                  \/ UNCHANGED <<control, access, world, silent, deaf>>
       ELSE /\ IF net # "NoWifi"
               THEN EnterNoWifiState(FALSE)
               ELSE UNCHANGED <<control, access, world>>
            /\ UNCHANGED <<silent, deaf>>
    /\ UNCHANGED <<status, bounds>>

Rest == IF radio THEN "hotspot" ELSE "publish"

\* Second part: an association that failed or took too long is given up.
AssociationFailed ==
    /\ pc = "station" /\ connecting /\ link = "failed"
    /\ EnterNoWifiState(FALSE)
    /\ Goto("hotspot")
    /\ UNCHANGED <<status, silent, deaf, bounds>>

AssociationTimeout ==
    /\ pc = "station" /\ connecting /\ link # "failed"
    /\ EnterNoWifiState(FALSE)
    /\ Goto("hotspot")
    /\ UNCHANGED <<status, silent, deaf, bounds>>

NoAttempt ==
    /\ pc = "station" /\ ~(connecting /\ link = "failed")
    /\ Goto(Rest)
    /\ UNCHANGED <<control, access, status, world, silent, deaf, bounds>>

AttemptDue == pc = "station" /\ ~connecting /\ net = "NoWifi"

\* MUTANT: a due restart is dropped while a client is active.
RunWifiConnectSequence_ForgetsRestart ==
    /\ AttemptDue
    /\ restart' = (restart /\ ~HasActiveNetworkClient)
    /\ Goto(IF HasActiveNetworkClient THEN Rest
            ELSE IF restart /\ radio THEN "stopServices"
            ELSE IF radio THEN "connect" ELSE "init")
    /\ UNCHANGED <<radio, net, connecting, rssiFails, monitor, access, status,
                   world, silent, deaf, bounds>>

\* m_nextWifiAttemptTime has passed: RunWifiConnectSequence is entered.  It
\* leaves everything as it is while a client is active.
RunWifiConnectSequence ==
    /\ AttemptDue
    /\ IF HasActiveNetworkClient
       THEN Goto(Rest) /\ UNCHANGED restart
       ELSE IF restart /\ radio
       THEN Goto("stopServices") /\ UNCHANGED restart
       ELSE /\ restart' = FALSE
            /\ Goto(IF radio THEN "connect" ELSE "init")
    /\ UNCHANGED <<radio, net, connecting, rssiFails, monitor, access, status,
                   world, silent, deaf, bounds>>

(***************************************************************************)
(* The radio restart inside RunWifiConnectSequence.                        *)
(***************************************************************************)
StopNetworkServices ==
    /\ pc = "stopServices" /\ Goto("stopHotspot")
    /\ services' = FALSE /\ monitor' = Stopped
    /\ listening' = {} /\ client' = Quiet
    /\ UNCHANGED <<radio, net, connecting, restart, rssiFails, hotspot, status,
                   link, alive, silent, deaf, bounds>>

StopHotspot ==
    /\ pc = "stopHotspot" /\ Goto("suspend")
    /\ hotspot' = FALSE
    /\ UNCHANGED <<control, listening, services, status, world, silent, deaf,
                   bounds>>

\* MUTANT: the published status is not withdrawn.
BeforeRadioRestart_Silent ==
    /\ pc = "suspend" /\ Goto("deinit")
    /\ UNCHANGED <<control, access, status, world, silent, deaf, bounds>>

\* m_beforeRadioRestart: PublishStatus(true).
BeforeRadioRestart ==
    /\ pc = "suspend" /\ Goto("deinit")
    /\ status' = Nowhere
    /\ UNCHANGED <<control, access, world, silent, deaf, bounds>>

DeinitRadio ==
    /\ pc = "deinit" /\ Goto("init")
    /\ radio' = FALSE /\ restart' = FALSE /\ link' = "off"
    /\ UNCHANGED <<net, connecting, rssiFails, monitor, access, status,
                   alive, client, silent, deaf, bounds>>

InitRadio ==
    /\ pc = "init"
    /\ \E fails \in BOOLEAN :
        /\ Fault(fails)
        /\ radio' = ~fails
        /\ Goto(IF fails THEN "publish" ELSE "connect")
        /\ alive' = (alive \/ ~fails)
        /\ deaf' = IF fails THEN deaf ELSE 0
    /\ UNCHANGED <<net, connecting, restart, rssiFails, monitor, access, status,
                   link, client, silent, arrivals>>

\* A radio that does not answer may refuse every association.
ConnectStation ==
    /\ pc = "connect" /\ Goto("hotspot")
    /\ \/ /\ connecting' = TRUE /\ link' = "joining" /\ monitor' = Stopped
          /\ UNCHANGED <<radio, net, restart, rssiFails, access, alive,
                         client, faults>>
       \/ EnterNoWifiState(FALSE) /\ Fault(alive)
    /\ UNCHANGED <<status, silent, deaf, arrivals>>

(***************************************************************************)
(* Third part: the hotspot and the listeners, each on its own retry timer. *)
(***************************************************************************)
HotspotWaits ==
    /\ pc = "hotspot" /\ Goto("services")
    /\ UNCHANGED <<control, access, status, world, silent, deaf, bounds>>

StartHotspot ==
    /\ pc = "hotspot" /\ Goto("services") /\ ~hotspot
    /\ \E fails \in BOOLEAN : Fault(fails) /\ hotspot' = ~fails
    /\ UNCHANGED <<control, listening, services, status, world, silent, deaf,
                   arrivals>>

Ready(open) == open = Listeners
Served(ready) ==
    /\ services' = ready
    /\ net' = IF net # "NoWifi" /\ ready THEN "Ready" ELSE net

\* MUTANT: listeners are only opened for the home network.
MayServe_HomeOnly == net # "NoWifi"
MayServe == hotspot \/ net # "NoWifi"

\* EnsureNetworkServices without a bind attempt.
CheckServices ==
    /\ pc = "services" /\ Goto("publish")
    /\ Served(Ready(listening))
    /\ UNCHANGED <<radio, connecting, restart, rssiFails, monitor, hotspot,
                   listening, status, world, silent, deaf, bounds>>

\* EnsureNetworkServices with one: each missing listener starts or fails.
StartServices ==
    /\ pc = "services" /\ Goto("publish")
    /\ ~Ready(listening) /\ MayServe
    /\ \E failing \in SUBSET (Listeners \ listening) :
        /\ Fault(failing # {})
        /\ listening' = Listeners \ failing
        /\ Served(failing = {})
    /\ UNCHANGED <<radio, connecting, restart, rssiFails, monitor, hotspot,
                   status, world, silent, deaf, arrivals>>

PublishStatus ==
    /\ pc = "publish" /\ Goto("home")
    /\ status' = [home |-> IsHomeWifiReady, hotspot |-> IsHotspotReady]
    /\ UNCHANGED <<control, access, world, silent, deaf, bounds>>

(***************************************************************************)
(* The radio, the home network and the clients.                            *)
(***************************************************************************)
outside == <<pc, radio, net, connecting, restart, rssiFails, access, status>>

\* The driver's view of the station changes: association ends one way or the
\* other, a renewed DHCP lease changes the address, or the link is lost.
LinkComesUp ==
    /\ radio /\ link = "joining"
    /\ link' \in {"up", "local", "overlap", "failed"}
    /\ Fault(link' \in {"overlap", "failed"})
    /\ UNCHANGED <<outside, monitor, alive, client, silent, deaf, arrivals>>

LinkChanges ==
    /\ Usable
    /\ \/ link' \in {"joining", "overlap"} \ {link} /\ Fault(TRUE)
       \/ link = "up" /\ link' = "silent" /\ Fault(TRUE)
       \/ link = "silent" /\ link' = "up" /\ UNCHANGED faults
    /\ UNCHANGED <<outside, monitor, alive, client, silent, deaf, arrivals>>

RadioHangs ==
    /\ radio /\ alive /\ Fault(TRUE)
    /\ alive' = FALSE
    /\ UNCHANGED <<outside, monitor, link, client, silent, deaf, arrivals>>

RadioAnswersAgain ==
    /\ radio /\ ~alive
    /\ alive' = TRUE
    /\ UNCHANGED <<outside, monitor, link, client, silent, deaf, bounds>>

\* ObserveNetworkInput: an ARP reply or an IPv4 packet addressed to the device.
ObserveNetworkInput ==
    /\ Usable /\ link # "silent" /\ net # "NoWifi"
    /\ \E reply \in BOOLEAN :
        monitor' = [monitor EXCEPT !.heard = "new",
                        !.reply = @ \/ (reply /\ monitor.pending)]
    /\ silent' = 0
    /\ UNCHANGED <<outside, world, deaf, bounds>>

\* WIFI_INBOUND_ACTIVITY_WINDOW_MS passes without a packet.  The window is
\* several health intervals long, so a check has seen the packet before.
TrafficAges ==
    /\ monitor.heard = "seen"
    /\ monitor' = [monitor EXCEPT !.heard = "no"]
    /\ UNCHANGED <<outside, world, silent, deaf, bounds>>

ClientArrives(l) ==
    /\ l \in listening /\ client[l] = "none" /\ arrivals < MaxArrivals
    /\ \E side \in {"home", "direct"} :
        /\ IF side = "home" THEN Usable /\ link # "silent" ELSE hotspot
        /\ client' = [client EXCEPT ![l] = side]
    /\ arrivals' = arrivals + 1
    /\ UNCHANGED <<outside, monitor, link, alive, silent, deaf, faults>>

\* A client finishes, or its transport times it out.
ClientLeaves(l) ==
    /\ client[l] # "none"
    /\ client' = [client EXCEPT ![l] = "none"]
    /\ UNCHANGED <<outside, monitor, link, alive, silent, deaf, bounds>>

Pass ==
    \/ CheckHome \/ AssociationFailed \/ AssociationTimeout \/ NoAttempt
    \/ RunWifiConnectSequence \/ StopNetworkServices \/ StopHotspot
    \/ BeforeRadioRestart \/ DeinitRadio \/ InitRadio \/ ConnectStation
    \/ HotspotWaits \/ StartHotspot \/ CheckServices \/ StartServices
    \/ PublishStatus

Outside ==
    \/ LinkComesUp \/ LinkChanges
    \/ RadioHangs \/ RadioAnswersAgain \/ ObserveNetworkInput \/ TrafficAges
    \/ \E l \in Listeners : ClientArrives(l) \/ ClientLeaves(l)

Next == Pass \/ Outside

Spec == Init /\ [][Next]_vars

\* Core 1 keeps looping, an armed timer comes due before its step is reached
\* for ever, and the transports time out a client that does not finish.
FairSpec ==
    /\ Spec
    /\ WF_vars(Pass)
    /\ SF_vars(AssociationTimeout) /\ SF_vars(RunWifiConnectSequence)
    /\ SF_vars(StartHotspot) /\ SF_vars(StartServices)
    /\ \A l \in Listeners : WF_vars(ClientLeaves(l))

-----------------------------------------------------------------------------
NetStates == {"NoWifi", "WifiNoTcp", "Ready"}
Monitors == [verified : BOOLEAN, fails : 0 .. ProbeLimit - 1, pending : BOOLEAN,
             reply : BOOLEAN, heard : {"no", "new", "seen"}]
Statuses == [home : BOOLEAN, hotspot : BOOLEAN]
Links == Addressed \cup {"off", "joining", "failed"}
Clients == [Listeners -> {"none", "home", "direct"}]

FlagsOK ==
    /\ radio \in BOOLEAN /\ connecting \in BOOLEAN /\ restart \in BOOLEAN
    /\ hotspot \in BOOLEAN /\ services \in BOOLEAN /\ alive \in BOOLEAN

CountsOK ==
    /\ rssiFails \in 0 .. RadioLimit - 1
    /\ silent \in 0 .. ProbeLimit /\ deaf \in 0 .. RadioLimit
    /\ arrivals \in 0 .. MaxArrivals /\ faults \in 0 .. MaxFaults

TypeOK ==
    /\ FlagsOK /\ CountsOK
    /\ pc \in Points /\ net \in NetStates
    /\ monitor \in Monitors /\ status \in Statuses
    /\ link \in Links
    /\ listening \subseteq Listeners /\ client \in Clients

\* Nothing outlives the radio that carries it: no listener, client, hotspot,
\* station state or probe, and no interface is still published as ready.
NothingWithoutRadio ==
    ~radio =>
        /\ ~hotspot /\ listening = {} /\ client = Quiet /\ ~services
        /\ net = "NoWifi" /\ ~connecting /\ monitor = Stopped
        /\ status = Nowhere

\* A home path is only monitored while it is in use, and never while it is
\* being set up again.
OneHomeState ==
    /\ net # "NoWifi" => ~connecting /\ ~restart
    /\ monitor # Stopped => net # "NoWifi"
    /\ restart => ~connecting

\* What is left to do in a pass: the steps of a restart undo the radio's
\* dependants one by one, and an attempt starts from a station at rest.
PassInv ==
    /\ pc \in {"stopServices", "stopHotspot", "suspend", "deinit"} =>
           radio /\ restart
    /\ pc \in {"stopHotspot", "suspend", "deinit"} =>
           ~services /\ listening = {} /\ client = Quiet
    /\ pc \in {"suspend", "deinit"} => ~hotspot
    /\ pc = "deinit" => status = Nowhere
    /\ pc = "init" => ~radio /\ ~restart
    /\ pc = "connect" => radio /\ ~restart /\ net = "NoWifi" /\ ~connecting
    /\ pc \in {"hotspot", "services"} => radio

\* The counts that condemn the radio or the home path were really reached: a
\* packet not yet seen by a check clears the probes lost before it.
DebounceInv ==
    /\ net = "NoWifi" => rssiFails = 0
    /\ rssiFails <= deaf
    /\ restart => deaf = RadioLimit
    /\ monitor.heard = "seen" => monitor.fails = 0
    /\ monitor.heard = "no" /\ ~monitor.reply => monitor.fails <= silent

\* The invariant of the network loop (types, the radio's dependants, the
\* station's phases, the pass and the debounce counts).
Inv == TypeOK /\ NothingWithoutRadio /\ OneHomeState /\ PassInv /\ DebounceInv

\* Trouble at home never reaches the direct users.  No step of the loop closes
\* the hotspot or a listener, or ends a client's connection, except in a
\* restart of a radio that left RadioLimit queries in a row unanswered
\* (EnterNoWifiState resets the station only, RunWifiConnectSequence).
DirectAccessKept ==
    [][ \/ hotspot /\ ~hotspot'
        \/ ~(listening \subseteq listening')
        \/ pc' # pc /\ \E l \in Listeners : client[l] # "none" /\ client'[l] = "none"
        => restart /\ deaf >= RadioLimit ]_vars

\* A home link that is up is given up for silence only after ProbeLimit probes
\* in a row were lost without a single packet from home since
\* (CheckReachability, ObserveNetworkInput).
HomeLossDebounced ==
    [][ net # "NoWifi" /\ net' = "NoWifi" /\ Usable =>
        \/ silent' >= ProbeLimit
        \/ restart' /\ deaf' >= RadioLimit ]_vars

\* Once failures end, the hotspot and all listeners are ready and published
\* again and again, whatever becomes of the home network
\* (UpdateNetworkStateMachine, EnsureNetworkServices); and the loop never stops
\* trying to reach the home network (m_nextWifiAttemptTime, m_stationDeadline).
NetworkPersists ==
    /\ []<>(status.hotspot)
    /\ []<>(pc = "connect" \/ net # "NoWifi")

\* A requested restart of the radio is carried out, however many clients it
\* first has to wait for (m_forceRadioRestart).
RestartHappens == restart ~> ~radio

=============================================================================
