----------------------------- MODULE WifiProofs ----------------------------
(***************************************************************************)
(* The two networks of the controller.  The network loop is safe for every *)
(* set of listeners, every debounce limit and any number of clients and    *)
(* failures: Inv of WifiConnection is inductive, and from it follow that   *)
(* trouble at home never ends direct access, and that a home link is given *)
(* up for silence only after ProbeLimit lost probes.  The hotspot is safe  *)
(* for every number of devices, addresses and slots and whatever packets   *)
(* are delayed, repeated or lost: HotspotInv follows from an inductive     *)
(* agreement between the server's leases and each device's packets, and no *)
(* device that stays loses its indicator.                                  *)
(***************************************************************************)
EXTENDS WifiConnection, PicoHotspot, FiniteSetTheorems, SequenceTheorems,
        WellFoundedInduction, TLAPS

-----------------------------------------------------------------------------
(* The network loop.                                                       *)

\* Monitors whose count of lost probes has not been compared with the limit.
Counting == [verified : BOOLEAN, fails : Nat, pending : BOOLEAN,
             reply : BOOLEAN, heard : {"no", "new", "seen"}]

\* The values that the steps assign as a whole.
LEMMA Resting ==
    /\ Stopped \in Monitors /\ Quiet \in Clients /\ Nowhere \in Statuses
    /\ Monitors \subseteq Counting
    /\ "off" \in Links /\ "joining" \in Links
    /\ Links = {"off", "joining", "failed", "up", "silent", "local", "overlap"}
  BY WifiAssumption
     DEF Stopped, Monitors, Quiet, Clients, Nowhere, Statuses, Links, Addressed,
         Counting

\* A lost probe is counted unless there was recent traffic.
LEMMA MissedCounts ==
    ASSUME NEW m \in Counting
    PROVE  /\ Missed(m) \in Counting
           /\ Missed(m).heard = m.heard /\ Missed(m).reply = m.reply
           /\ Missed(m).fails >= m.fails
           /\ Recent(m) => Missed(m).fails = m.fails
  BY DEF Missed, Counting, Recent

\* Evidence of the path clears the count, and no packet stays new.
LEMMA ObservedClears ==
    ASSUME NEW m \in Counting
    PROVE  /\ Observed(m) \in Counting
           /\ Observed(m).heard = IF Recent(m) THEN "seen" ELSE "no"
           /\ Observed(m).reply = m.reply
           /\ Observed(m).fails = IF m.reply \/ Recent(m) THEN 0 ELSE m.fails
  BY DEF Observed, Counting, Recent

\* A probe that timed out and one that is sent change the count only as Missed
\* does.
LEMMA ProbesCount ==
    ASSUME NEW m \in Counting, NEW posted \in BOOLEAN
    PROVE  /\ TimedOut(m) \in Counting /\ Probed(m, posted) \in Counting
           /\ TimedOut(m).heard = m.heard /\ Probed(m, posted).heard = m.heard
           /\ TimedOut(m).fails >= m.fails /\ Probed(m, posted).fails >= m.fails
           /\ Recent(m) => /\ TimedOut(m).fails = m.fails
                           /\ Probed(m, posted).fails = m.fails
  <1> DEFINE done == [m EXCEPT !.pending = FALSE]
             asked == [m EXCEPT !.pending = posted, !.reply = FALSE]
  <1>1. /\ done \in Counting /\ asked \in Counting
        /\ done.heard = m.heard /\ done.fails = m.fails
        /\ asked.heard = m.heard /\ asked.fails = m.fails
    BY DEF Counting
  <1>2. TimedOut(m) \in {m, done, Missed(done)}
    BY DEF TimedOut
  <1>3. Probed(m, posted) \in {m, asked, Missed(asked)}
    BY DEF Probed
  <1>4. Recent(m) => Recent(done) /\ Recent(asked)
    BY <1>1 DEF Recent
  <1>5. m.fails \in Nat
    BY DEF Counting
  <1> HIDE DEF done, asked
  <1> QED
    BY <1>1, <1>2, <1>3, <1>4, <1>5, MissedCounts

\* What a check of the path makes of its monitor m.
Checked(m, expired, probe) ==
    LET heard == Observed(m)
        waited == IF expired THEN TimedOut(heard) ELSE heard
    IN  IF probe = "none" THEN waited ELSE Probed(waited, probe = "sent")

\* It counts no more losses than there were, and none before the last packet.
LEMMA CheckedMonitor ==
    ASSUME NEW m \in Counting, NEW expired \in BOOLEAN,
           NEW probe \in {"none", "sent", "unsent"}
    PROVE  LET heard == Observed(m)
               checked == Checked(m, expired, probe)
           IN  /\ heard \in Counting /\ checked \in Counting
               /\ heard.fails \in Nat /\ checked.fails \in Nat
               /\ heard.fails <= checked.fails
               /\ checked.heard = heard.heard
               /\ heard.heard # "no" => checked.fails = 0
               /\ m.heard = "no" /\ ~m.reply => heard.fails = m.fails
               /\ ~(m.heard = "no" /\ ~m.reply) => heard.fails = 0
  <1> DEFINE heard == Observed(m)
             waited == IF expired THEN TimedOut(heard) ELSE heard
             checked == IF probe = "none" THEN waited
                        ELSE Probed(waited, probe = "sent")
  <1>1. /\ heard \in Counting /\ heard.fails \in Nat
        /\ heard.heard # "no" => heard.fails = 0
        /\ m.heard = "no" /\ ~m.reply => heard.fails = m.fails
        /\ ~(m.heard = "no" /\ ~m.reply) => heard.fails = 0
    <2>1. heard \in Counting
      BY ObservedClears
    <2>2. heard.fails \in Nat
      BY <2>1 DEF Counting
    <2> QED
      BY <2>1, <2>2, ObservedClears DEF Recent
  <1> HIDE DEF heard
  <1>2. /\ waited \in Counting /\ waited.fails \in Nat
        /\ waited.heard = heard.heard /\ waited.fails >= heard.fails
        /\ Recent(heard) => waited.fails = heard.fails
    <2>1. waited \in Counting
      BY <1>1, ProbesCount
    <2>2. waited.fails \in Nat
      BY <2>1 DEF Counting
    <2> QED
      BY <1>1, <2>1, <2>2, ProbesCount
  <1> HIDE DEF waited
  <1>3. /\ checked \in Counting /\ checked.fails \in Nat
        /\ checked.heard = waited.heard /\ checked.fails >= waited.fails
        /\ Recent(waited) => checked.fails = waited.fails
    <2>1. (probe = "sent") \in BOOLEAN
      OBVIOUS
    <2>2. checked \in Counting
      BY <1>2, <2>1, ProbesCount
    <2>3. checked.fails \in Nat
      BY <2>2 DEF Counting
    <2>4. CASE probe = "none"
      BY <1>2, <2>4, <2>2, <2>3
    <2>5. CASE probe # "none"
      <3>1. checked = Probed(waited, probe = "sent")
        BY <2>5
      <3> QED
        BY <1>2, <2>1, <2>2, <2>3, <3>1, ProbesCount
    <2> QED
      BY <2>4, <2>5
  <1> HIDE DEF checked
  <1>4. /\ heard \in Counting /\ checked \in Counting
        /\ heard.fails \in Nat /\ checked.fails \in Nat
        /\ heard.fails <= checked.fails
        /\ checked.heard = heard.heard
        /\ heard.heard # "no" => checked.fails = 0
        /\ m.heard = "no" /\ ~m.reply => heard.fails = m.fails
        /\ ~(m.heard = "no" /\ ~m.reply) => heard.fails = 0
    BY <1>1, <1>2, <1>3 DEF Recent
  <1> QED
    BY <1>4 DEF heard, waited, checked, Checked

\* Power-on satisfies the invariant.
LEMMA InitInv == Init => Inv
  <1> SUFFICES ASSUME Init PROVE Inv
    OBVIOUS
  <1>1. TypeOK
    <2>1. FlagsOK
      BY DEF Init, FlagsOK
    <2>2. CountsOK
      BY WifiAssumption DEF Init, CountsOK
    <2> QED
      BY <2>1, <2>2, Resting DEF Init, TypeOK, Points, NetStates
  <1>2. NothingWithoutRadio /\ OneHomeState /\ PassInv /\ DebounceInv
    BY WifiAssumption
       DEF Init, Stopped, NothingWithoutRadio, OneHomeState, PassInv, DebounceInv
  <1> QED
    BY <1>1, <1>2 DEF Inv

\* The restart of the radio.
LEMMA RestartInv ==
    ASSUME Inv, StopNetworkServices
                \/ StopHotspot
                \/ BeforeRadioRestart
                \/ DeinitRadio
                \/ InitRadio
    PROVE  Inv'
  <1> USE WifiAssumption DEF Inv, Goto, control, access, world, bounds
  <1>1. CASE StopNetworkServices
    <2>1. TypeOK'
      <3>1. FlagsOK'
        BY <1>1 DEF StopNetworkServices, TypeOK, FlagsOK
      <3>2. CountsOK'
        BY <1>1 DEF StopNetworkServices, TypeOK, CountsOK
      <3> QED
        BY <1>1, <3>1, <3>2, Resting DEF StopNetworkServices, TypeOK, Points, NetStates
    <2>2. NothingWithoutRadio' /\ OneHomeState'
      BY <1>1 DEF StopNetworkServices, NothingWithoutRadio, OneHomeState, PassInv
    <2>3. PassInv'
      BY <1>1 DEF StopNetworkServices, PassInv, OneHomeState, NothingWithoutRadio
    <2>4. DebounceInv'
      BY <1>1 DEF StopNetworkServices, DebounceInv, Stopped, OneHomeState, TypeOK, CountsOK, PassInv
    <2> QED
      BY <2>1, <2>2, <2>3, <2>4
  <1>2. CASE StopHotspot
    <2>1. TypeOK'
      <3>1. FlagsOK'
        BY <1>2 DEF StopHotspot, TypeOK, FlagsOK
      <3>2. CountsOK'
        BY <1>2 DEF StopHotspot, TypeOK, CountsOK
      <3> QED
        BY <1>2, <3>1, <3>2, Resting DEF StopHotspot, TypeOK, Points, NetStates
    <2>2. NothingWithoutRadio' /\ OneHomeState'
      BY <1>2 DEF StopHotspot, NothingWithoutRadio, OneHomeState, PassInv
    <2>3. PassInv'
      BY <1>2 DEF StopHotspot, PassInv, OneHomeState, NothingWithoutRadio
    <2>4. DebounceInv'
      BY <1>2 DEF StopHotspot, DebounceInv, Stopped, OneHomeState, TypeOK, CountsOK, PassInv
    <2> QED
      BY <2>1, <2>2, <2>3, <2>4
  <1>3. CASE BeforeRadioRestart
    <2>1. TypeOK'
      <3>1. FlagsOK'
        BY <1>3 DEF BeforeRadioRestart, TypeOK, FlagsOK
      <3>2. CountsOK'
        BY <1>3 DEF BeforeRadioRestart, TypeOK, CountsOK
      <3> QED
        BY <1>3, <3>1, <3>2, Resting DEF BeforeRadioRestart, TypeOK, Points, NetStates
    <2>2. NothingWithoutRadio' /\ OneHomeState'
      BY <1>3 DEF BeforeRadioRestart, NothingWithoutRadio, OneHomeState, PassInv
    <2>3. PassInv'
      BY <1>3 DEF BeforeRadioRestart, PassInv, OneHomeState, NothingWithoutRadio
    <2>4. DebounceInv'
      BY <1>3 DEF BeforeRadioRestart, DebounceInv, Stopped, OneHomeState, TypeOK, CountsOK, PassInv
    <2> QED
      BY <2>1, <2>2, <2>3, <2>4
  <1>4. CASE DeinitRadio
    <2>1. TypeOK'
      <3>1. FlagsOK'
        BY <1>4 DEF DeinitRadio, TypeOK, FlagsOK
      <3>2. CountsOK'
        BY <1>4 DEF DeinitRadio, TypeOK, CountsOK
      <3> QED
        BY <1>4, <3>1, <3>2, Resting DEF DeinitRadio, TypeOK, Points, NetStates
    <2>2. NothingWithoutRadio' /\ OneHomeState'
      BY <1>4 DEF DeinitRadio, NothingWithoutRadio, OneHomeState, PassInv
    <2>3. PassInv'
      BY <1>4 DEF DeinitRadio, PassInv, OneHomeState, NothingWithoutRadio
    <2>4. DebounceInv'
      BY <1>4 DEF DeinitRadio, DebounceInv, Stopped, OneHomeState, TypeOK, CountsOK, PassInv
    <2> QED
      BY <2>1, <2>2, <2>3, <2>4
  <1>5. CASE InitRadio
    <2> PICK fails \in BOOLEAN :
          /\ Fault(fails)
          /\ radio' = ~fails
          /\ Goto(IF fails THEN "publish" ELSE "connect")
          /\ alive' = (alive \/ ~fails)
          /\ deaf' = IF fails THEN deaf ELSE 0
      BY <1>5, Zenon DEF InitRadio
    <2>1. /\ pc = "init" /\ ~radio
          /\ UNCHANGED <<net, connecting, restart, rssiFails, monitor, hotspot,
                         listening, services, status, link, client, silent,
                         arrivals>>
      BY <1>5 DEF InitRadio, PassInv
    <2>2. /\ faults' \in 0 .. MaxFaults /\ deaf' \in 0 .. RadioLimit
          /\ deaf' \in {deaf, 0}
      BY DEF Fault, MayFail, TypeOK, CountsOK
    <2>3. /\ fails => ~radio' /\ pc' = "publish"
          /\ ~fails => radio' /\ pc' = "connect"
          /\ radio' \in BOOLEAN /\ alive' \in BOOLEAN
      BY DEF Goto, TypeOK, FlagsOK
    <2>4. TypeOK'
      <3>1. FlagsOK'
        BY <2>1, <2>3 DEF TypeOK, FlagsOK
      <3>2. CountsOK'
        BY <2>1, <2>2 DEF TypeOK, CountsOK
      <3> QED
        BY <2>1, <2>3, <3>1, <3>2 DEF TypeOK, Points
    <2>5. NothingWithoutRadio' /\ OneHomeState'
      BY <2>1, <2>3 DEF NothingWithoutRadio, OneHomeState, Stopped, Quiet, Nowhere
    <2>6. PassInv'
      BY <2>1, <2>3, Zenon DEF PassInv, NothingWithoutRadio
    <2>7. DebounceInv'
      BY <2>1, <2>2 DEF DebounceInv, PassInv, NothingWithoutRadio, TypeOK, CountsOK
    <2> QED
      BY <2>4, <2>5, <2>6, <2>7
  <1> QED
    BY <1>1, <1>2, <1>3, <1>4, <1>5

\* The station's attempts to reach home.
LEMMA AttemptInv ==
    ASSUME Inv, AssociationFailed
                \/ AssociationTimeout
                \/ NoAttempt
                \/ RunWifiConnectSequence
                \/ ConnectStation
    PROVE  Inv'
  <1> USE WifiAssumption DEF Inv, Goto, control, access, world, bounds, EnterNoWifiState, Rest, AttemptDue, Fault, MayFail
  <1>1. CASE AssociationFailed
    <2>1. TypeOK'
      <3>1. FlagsOK'
        BY <1>1 DEF AssociationFailed, TypeOK, FlagsOK
      <3>2. CountsOK'
        BY <1>1 DEF AssociationFailed, TypeOK, CountsOK
      <3> QED
        BY <1>1, <3>1, <3>2, Resting DEF AssociationFailed, TypeOK, Points, NetStates
    <2>2. NothingWithoutRadio' /\ OneHomeState'
      BY <1>1 DEF AssociationFailed, NothingWithoutRadio, OneHomeState, PassInv
    <2>3. PassInv'
      BY <1>1 DEF AssociationFailed, PassInv, OneHomeState, NothingWithoutRadio
    <2>4. DebounceInv'
      BY <1>1 DEF AssociationFailed, DebounceInv, Stopped, OneHomeState, TypeOK, CountsOK, PassInv
    <2> QED
      BY <2>1, <2>2, <2>3, <2>4
  <1>2. CASE AssociationTimeout
    <2>1. TypeOK'
      <3>1. FlagsOK'
        BY <1>2 DEF AssociationTimeout, TypeOK, FlagsOK
      <3>2. CountsOK'
        BY <1>2 DEF AssociationTimeout, TypeOK, CountsOK
      <3> QED
        BY <1>2, <3>1, <3>2, Resting DEF AssociationTimeout, TypeOK, Points, NetStates
    <2>2. NothingWithoutRadio' /\ OneHomeState'
      BY <1>2 DEF AssociationTimeout, NothingWithoutRadio, OneHomeState, PassInv
    <2>3. PassInv'
      BY <1>2 DEF AssociationTimeout, PassInv, OneHomeState, NothingWithoutRadio
    <2>4. DebounceInv'
      BY <1>2 DEF AssociationTimeout, DebounceInv, Stopped, OneHomeState, TypeOK, CountsOK, PassInv
    <2> QED
      BY <2>1, <2>2, <2>3, <2>4
  <1>3. CASE NoAttempt
    <2>1. TypeOK'
      <3>1. FlagsOK'
        BY <1>3 DEF NoAttempt, TypeOK, FlagsOK
      <3>2. CountsOK'
        BY <1>3 DEF NoAttempt, TypeOK, CountsOK
      <3> QED
        BY <1>3, <3>1, <3>2, Resting DEF NoAttempt, TypeOK, Points, NetStates
    <2>2. NothingWithoutRadio' /\ OneHomeState'
      BY <1>3 DEF NoAttempt, NothingWithoutRadio, OneHomeState, PassInv
    <2>3. PassInv'
      BY <1>3 DEF NoAttempt, PassInv, OneHomeState, NothingWithoutRadio
    <2>4. DebounceInv'
      BY <1>3 DEF NoAttempt, DebounceInv, Stopped, OneHomeState, TypeOK, CountsOK, PassInv
    <2> QED
      BY <2>1, <2>2, <2>3, <2>4
  <1>4. CASE RunWifiConnectSequence
    <2>1. TypeOK'
      <3>1. FlagsOK'
        BY <1>4 DEF RunWifiConnectSequence, TypeOK, FlagsOK
      <3>2. CountsOK'
        BY <1>4 DEF RunWifiConnectSequence, TypeOK, CountsOK
      <3> QED
        BY <1>4, <3>1, <3>2, Resting DEF RunWifiConnectSequence, TypeOK, Points, NetStates
    <2>2. NothingWithoutRadio' /\ OneHomeState'
      BY <1>4 DEF RunWifiConnectSequence, NothingWithoutRadio, OneHomeState, PassInv
    <2>3. PassInv'
      BY <1>4 DEF RunWifiConnectSequence, PassInv, OneHomeState, NothingWithoutRadio
    <2>4. DebounceInv'
      BY <1>4 DEF RunWifiConnectSequence, DebounceInv, Stopped, OneHomeState, TypeOK, CountsOK, PassInv
    <2> QED
      BY <2>1, <2>2, <2>3, <2>4
  <1>5. CASE ConnectStation
    <2>1. /\ pc = "connect" /\ pc' = "hotspot" /\ radio /\ ~restart /\ ~connecting
          /\ net = "NoWifi" /\ rssiFails = 0
          /\ UNCHANGED <<access, status, silent, deaf, alive, client, arrivals>>
      BY <1>5 DEF ConnectStation, PassInv, DebounceInv
    <2>2. /\ radio' = radio /\ net' = "NoWifi" /\ rssiFails' = 0
          /\ monitor' = Stopped /\ connecting' \in BOOLEAN /\ restart' = FALSE
          /\ link' \in {"joining", "off"} /\ faults' \in 0 .. MaxFaults
      <3>1. faults' \in 0 .. MaxFaults
        BY <1>5 DEF ConnectStation, TypeOK, CountsOK
      <3>2. CASE connecting' = TRUE
        BY <1>5, <2>1, <3>1, <3>2 DEF ConnectStation
      <3>3. CASE EnterNoWifiState(FALSE)
        BY <2>1, <3>1, <3>3
      <3> QED
        BY <1>5, <3>2, <3>3 DEF ConnectStation
    <2>3. TypeOK'
      <3>1. FlagsOK'
        BY <2>1, <2>2 DEF TypeOK, FlagsOK
      <3>2. CountsOK'
        BY <2>1, <2>2 DEF TypeOK, CountsOK
      <3> QED
        BY <2>1, <2>2, <3>1, <3>2, Resting DEF TypeOK, Points, NetStates
    <2>4. NothingWithoutRadio' /\ OneHomeState'
      BY <2>1, <2>2 DEF NothingWithoutRadio, OneHomeState
    <2>5. PassInv'
      BY <2>1, <2>2 DEF PassInv
    <2>6. DebounceInv'
      BY <2>1, <2>2, Resting DEF DebounceInv, TypeOK, CountsOK, Stopped
    <2> QED
      BY <2>3, <2>4, <2>5, <2>6
  <1> QED
    BY <1>1, <1>2, <1>3, <1>4, <1>5

\* The hotspot, the listeners and the published status.
LEMMA AccessInv ==
    ASSUME Inv, HotspotWaits
                \/ StartHotspot
                \/ CheckServices
                \/ StartServices
                \/ PublishStatus
    PROVE  Inv'
  <1> USE WifiAssumption DEF Inv, Goto, control, access, world, bounds, Fault, MayFail, Served, Ready
  <1>1. CASE HotspotWaits
    <2>1. TypeOK'
      <3>1. FlagsOK'
        BY <1>1 DEF HotspotWaits, TypeOK, FlagsOK
      <3>2. CountsOK'
        BY <1>1 DEF HotspotWaits, TypeOK, CountsOK
      <3> QED
        BY <1>1, <3>1, <3>2, Resting DEF HotspotWaits, TypeOK, Points, NetStates
    <2>2. NothingWithoutRadio' /\ OneHomeState'
      BY <1>1 DEF HotspotWaits, NothingWithoutRadio, OneHomeState, PassInv
    <2>3. PassInv'
      BY <1>1 DEF HotspotWaits, PassInv, OneHomeState, NothingWithoutRadio
    <2>4. DebounceInv'
      BY <1>1 DEF HotspotWaits, DebounceInv, Stopped, OneHomeState, TypeOK, CountsOK, PassInv
    <2> QED
      BY <2>1, <2>2, <2>3, <2>4
  <1>2. CASE StartHotspot
    <2>1. TypeOK'
      <3>1. FlagsOK'
        BY <1>2 DEF StartHotspot, TypeOK, FlagsOK
      <3>2. CountsOK'
        BY <1>2 DEF StartHotspot, TypeOK, CountsOK
      <3> QED
        BY <1>2, <3>1, <3>2, Resting DEF StartHotspot, TypeOK, Points, NetStates
    <2>2. NothingWithoutRadio' /\ OneHomeState'
      BY <1>2 DEF StartHotspot, NothingWithoutRadio, OneHomeState, PassInv
    <2>3. PassInv'
      BY <1>2 DEF StartHotspot, PassInv, OneHomeState, NothingWithoutRadio
    <2>4. DebounceInv'
      BY <1>2 DEF StartHotspot, DebounceInv, Stopped, OneHomeState, TypeOK, CountsOK, PassInv
    <2> QED
      BY <2>1, <2>2, <2>3, <2>4
  <1>3. CASE CheckServices
    <2>1. TypeOK'
      <3>1. FlagsOK'
        BY <1>3 DEF CheckServices, TypeOK, FlagsOK
      <3>2. CountsOK'
        BY <1>3 DEF CheckServices, TypeOK, CountsOK
      <3> QED
        BY <1>3, <3>1, <3>2, Resting DEF CheckServices, TypeOK, Points, NetStates
    <2>2. NothingWithoutRadio' /\ OneHomeState'
      BY <1>3 DEF CheckServices, NothingWithoutRadio, OneHomeState, PassInv
    <2>3. PassInv'
      BY <1>3 DEF CheckServices, PassInv, OneHomeState, NothingWithoutRadio
    <2>4. DebounceInv'
      BY <1>3 DEF CheckServices, DebounceInv, Stopped, OneHomeState, TypeOK, CountsOK, PassInv
    <2> QED
      BY <2>1, <2>2, <2>3, <2>4
  <1>4. CASE StartServices
    <2>1. TypeOK'
      <3>1. FlagsOK'
        BY <1>4 DEF StartServices, TypeOK, FlagsOK
      <3>2. CountsOK'
        BY <1>4 DEF StartServices, TypeOK, CountsOK
      <3> QED
        BY <1>4, <3>1, <3>2, Resting DEF StartServices, TypeOK, Points, NetStates
    <2>2. NothingWithoutRadio' /\ OneHomeState'
      BY <1>4 DEF StartServices, NothingWithoutRadio, OneHomeState, PassInv
    <2>3. PassInv'
      BY <1>4 DEF StartServices, PassInv, OneHomeState, NothingWithoutRadio
    <2>4. DebounceInv'
      BY <1>4 DEF StartServices, DebounceInv, Stopped, OneHomeState, TypeOK, CountsOK, PassInv
    <2> QED
      BY <2>1, <2>2, <2>3, <2>4
  <1>5. CASE PublishStatus
    <2>1. /\ pc' = "home" /\ UNCHANGED <<control, access, world, silent, deaf, bounds>>
          /\ status' \in Statuses
          /\ ~services => status' = Nowhere
      BY <1>5 DEF PublishStatus, Statuses, Nowhere, IsHomeWifiReady, IsHotspotReady
    <2>2. TypeOK'
      BY <2>1 DEF TypeOK, FlagsOK, CountsOK, Points
    <2>3. NothingWithoutRadio' /\ OneHomeState'
      BY <2>1 DEF NothingWithoutRadio, OneHomeState, Stopped, Quiet, Nowhere
    <2>4. PassInv' /\ DebounceInv'
      BY <2>1 DEF PassInv, DebounceInv
    <2> QED
      BY <2>2, <2>3, <2>4
  <1> QED
    BY <1>1, <1>2, <1>3, <1>4, <1>5

\* The radio, the home network and the clients.
LEMMA OutsideInv ==
    ASSUME Inv, Outside
    PROVE  Inv'
  <1> USE WifiAssumption DEF Inv, outside, control, access, world, bounds, Fault, MayFail
  <1>1. CASE LinkComesUp
    <2>1. TypeOK'
      <3>1. FlagsOK'
        BY <1>1 DEF LinkComesUp, TypeOK, FlagsOK
      <3>2. CountsOK'
        BY <1>1 DEF LinkComesUp, TypeOK, CountsOK
      <3> QED
        BY <1>1, <3>1, <3>2, Resting DEF LinkComesUp, TypeOK, Points, NetStates
    <2>2. NothingWithoutRadio' /\ OneHomeState'
      BY <1>1 DEF LinkComesUp, NothingWithoutRadio, OneHomeState, PassInv
    <2>3. PassInv'
      BY <1>1 DEF LinkComesUp, PassInv, OneHomeState, NothingWithoutRadio
    <2>4. DebounceInv'
      BY <1>1 DEF LinkComesUp, DebounceInv, Stopped, OneHomeState, TypeOK, CountsOK, PassInv
    <2> QED
      BY <2>1, <2>2, <2>3, <2>4
  <1>2. CASE LinkChanges
    <2>1. TypeOK'
      <3>1. FlagsOK'
        BY <1>2 DEF LinkChanges, TypeOK, FlagsOK
      <3>2. CountsOK'
        BY <1>2 DEF LinkChanges, TypeOK, CountsOK
      <3> QED
        BY <1>2, <3>1, <3>2, Resting DEF LinkChanges, TypeOK, Points, NetStates
    <2>2. NothingWithoutRadio' /\ OneHomeState'
      BY <1>2 DEF LinkChanges, NothingWithoutRadio, OneHomeState, PassInv
    <2>3. PassInv'
      BY <1>2 DEF LinkChanges, PassInv, OneHomeState, NothingWithoutRadio
    <2>4. DebounceInv'
      BY <1>2 DEF LinkChanges, DebounceInv, Stopped, OneHomeState, TypeOK, CountsOK, PassInv
    <2> QED
      BY <2>1, <2>2, <2>3, <2>4
  <1>3. CASE RadioHangs
    <2>1. TypeOK'
      <3>1. FlagsOK'
        BY <1>3 DEF RadioHangs, TypeOK, FlagsOK
      <3>2. CountsOK'
        BY <1>3 DEF RadioHangs, TypeOK, CountsOK
      <3> QED
        BY <1>3, <3>1, <3>2, Resting DEF RadioHangs, TypeOK, Points, NetStates
    <2>2. NothingWithoutRadio' /\ OneHomeState'
      BY <1>3 DEF RadioHangs, NothingWithoutRadio, OneHomeState, PassInv
    <2>3. PassInv'
      BY <1>3 DEF RadioHangs, PassInv, OneHomeState, NothingWithoutRadio
    <2>4. DebounceInv'
      BY <1>3 DEF RadioHangs, DebounceInv, Stopped, OneHomeState, TypeOK, CountsOK, PassInv
    <2> QED
      BY <2>1, <2>2, <2>3, <2>4
  <1>4. CASE RadioAnswersAgain
    <2>1. TypeOK'
      <3>1. FlagsOK'
        BY <1>4 DEF RadioAnswersAgain, TypeOK, FlagsOK
      <3>2. CountsOK'
        BY <1>4 DEF RadioAnswersAgain, TypeOK, CountsOK
      <3> QED
        BY <1>4, <3>1, <3>2, Resting DEF RadioAnswersAgain, TypeOK, Points, NetStates
    <2>2. NothingWithoutRadio' /\ OneHomeState'
      BY <1>4 DEF RadioAnswersAgain, NothingWithoutRadio, OneHomeState, PassInv
    <2>3. PassInv'
      BY <1>4 DEF RadioAnswersAgain, PassInv, OneHomeState, NothingWithoutRadio
    <2>4. DebounceInv'
      BY <1>4 DEF RadioAnswersAgain, DebounceInv, Stopped, OneHomeState, TypeOK, CountsOK, PassInv
    <2> QED
      BY <2>1, <2>2, <2>3, <2>4
  <1>5. CASE ObserveNetworkInput
    <2> PICK answered \in BOOLEAN :
          monitor' = [monitor EXCEPT !.heard = "new",
                          !.reply = @ \/ (answered /\ monitor.pending)]
      BY <1>5 DEF ObserveNetworkInput
    <2>1. /\ radio /\ net # "NoWifi" /\ silent' = 0
          /\ UNCHANGED <<outside, world, deaf, bounds>>
      BY <1>5 DEF ObserveNetworkInput, Usable
    <2>2. monitor' \in Monitors /\ monitor'.heard = "new"
      BY DEF TypeOK, Monitors
    <2>3. TypeOK'
      BY <2>1, <2>2 DEF TypeOK, FlagsOK, CountsOK
    <2>4. NothingWithoutRadio' /\ OneHomeState' /\ PassInv' /\ DebounceInv'
      BY <2>1, <2>2 DEF NothingWithoutRadio, OneHomeState, PassInv, DebounceInv
    <2> QED
      BY <2>3, <2>4
  <1>6. CASE TrafficAges
    <2>1. /\ monitor.heard = "seen"
          /\ monitor' = [monitor EXCEPT !.heard = "no"]
          /\ UNCHANGED <<outside, world, silent, deaf, bounds>>
      BY <1>6 DEF TrafficAges
    <2>2. /\ monitor' \in Monitors /\ monitor'.heard = "no"
          /\ monitor'.fails = 0 /\ monitor # Stopped
      BY <2>1 DEF TypeOK, Monitors, DebounceInv, Stopped
    <2>3. TypeOK'
      BY <2>1, <2>2 DEF TypeOK, FlagsOK, CountsOK
    <2>4. NothingWithoutRadio' /\ OneHomeState' /\ PassInv'
      BY <2>1, <2>2 DEF NothingWithoutRadio, OneHomeState, PassInv
    <2>5. DebounceInv'
      BY <2>1, <2>2 DEF DebounceInv, TypeOK, CountsOK
    <2> QED
      BY <2>3, <2>4, <2>5
  <1>7. ASSUME NEW l \in Listeners, ClientArrives(l)
        PROVE  Inv'
    <2>1. /\ l \in listening
          /\ client' \in Clients
          /\ arrivals < MaxArrivals /\ arrivals' = arrivals + 1
          /\ UNCHANGED <<outside, monitor, link, alive, silent, deaf, faults>>
      BY <1>7 DEF ClientArrives, TypeOK, Clients
    <2>2. radio /\ pc \notin {"stopHotspot", "suspend", "deinit"}
      BY <2>1 DEF NothingWithoutRadio, PassInv
    <2>3. TypeOK'
      BY <2>1 DEF TypeOK, FlagsOK, CountsOK
    <2>4. NothingWithoutRadio' /\ OneHomeState' /\ PassInv' /\ DebounceInv'
      BY <2>1, <2>2 DEF NothingWithoutRadio, OneHomeState, PassInv, DebounceInv
    <2> QED
      BY <2>3, <2>4
  <1>8. ASSUME NEW l \in Listeners, ClientLeaves(l)
        PROVE  Inv'
    <2>1. /\ client[l] # "none"
          /\ client' = [client EXCEPT ![l] = "none"]
          /\ UNCHANGED <<outside, monitor, link, alive, silent, deaf, bounds>>
      BY <1>8 DEF ClientLeaves
    <2>2. client # Quiet /\ client' \in Clients
      BY <2>1 DEF Quiet, TypeOK, Clients
    <2>3. TypeOK'
      BY <2>1, <2>2 DEF TypeOK, FlagsOK, CountsOK
    <2>4. NothingWithoutRadio' /\ OneHomeState' /\ PassInv' /\ DebounceInv'
      BY <2>1, <2>2 DEF NothingWithoutRadio, OneHomeState, PassInv, DebounceInv
    <2> QED
      BY <2>3, <2>4
  <1> QED
    BY <1>1, <1>2, <1>3, <1>4, <1>5, <1>6, <1>7, <1>8 DEF Outside

\* Giving up home, for whatever reason, keeps the invariant; a restart of the
\* radio may only be asked for when the queries lost in a row are enough.
LEMMA LostHomeInv ==
    ASSUME Inv, NEW r \in BOOLEAN, EnterNoWifiState(r), pc' = "station",
           silent' \in 0 .. ProbeLimit, deaf' \in 0 .. RadioLimit,
           r => deaf' = RadioLimit, UNCHANGED <<status, bounds>>
    PROVE  Inv'
  <1> USE WifiAssumption DEF Inv
  <1>1. /\ net' = "NoWifi" /\ connecting' = FALSE /\ restart' = r
        /\ rssiFails' = 0 /\ monitor' = Stopped /\ link' = "off"
        /\ UNCHANGED <<radio, access, alive, client>>
    BY DEF EnterNoWifiState
  <1>2. TypeOK'
    <2>1. FlagsOK'
      BY <1>1 DEF TypeOK, FlagsOK, access
    <2>2. CountsOK'
      BY <1>1 DEF TypeOK, CountsOK, bounds
    <2> QED
      BY <1>1, <2>1, <2>2, Resting DEF TypeOK, Points, NetStates, access
  <1>3. NothingWithoutRadio' /\ OneHomeState'
    BY <1>1 DEF NothingWithoutRadio, OneHomeState, access
  <1>4. PassInv'
    BY DEF PassInv
  <1>5. DebounceInv'
    BY <1>1 DEF DebounceInv, Stopped
  <1> QED
    BY <1>2, <1>3, <1>4, <1>5

\* A check of the path (the radio query of the same check is counted already).
LEMMA CheckReachabilityInv ==
    ASSUME Inv, CheckReachability, pc' = "station", Usable, net # "NoWifi",
           IF IsRadioResponding THEN deaf' = 0
           ELSE deaf' = UpTo(RadioLimit, deaf + 1) /\ rssiFails + 1 < RadioLimit,
           UNCHANGED <<status, bounds>>
    PROVE  Inv' /\ (net' = "NoWifi" => silent' = ProbeLimit)
  <1> USE WifiAssumption DEF Inv
  <1>0. PICK expired \in BOOLEAN, probe \in {"none", "sent", "unsent"} :
        LET heard == Observed(monitor)
            waited == IF expired THEN TimedOut(heard) ELSE heard
            checked == IF probe = "none" THEN waited
                       ELSE Probed(waited, probe = "sent")
        IN  /\ silent' = UpTo(ProbeLimit, silent + checked.fails - heard.fails)
            /\ IF checked.fails >= ProbeLimit
               THEN EnterNoWifiState(FALSE)
               ELSE /\ monitor' = checked
                    /\ rssiFails' = IF IsRadioResponding THEN 0 ELSE rssiFails + 1
                    /\ UNCHANGED <<radio, net, connecting, restart, access,
                                   world>>
    BY DEF CheckReachability
  <1> DEFINE heard == Observed(monitor)
             checked == Checked(monitor, expired, probe)
  <1>1. /\ silent' = UpTo(ProbeLimit, silent + checked.fails - heard.fails)
        /\ IF checked.fails >= ProbeLimit
           THEN EnterNoWifiState(FALSE)
           ELSE /\ monitor' = checked
                /\ rssiFails' = IF IsRadioResponding THEN 0 ELSE rssiFails + 1
                /\ UNCHANGED <<radio, net, connecting, restart, access, world>>
    BY <1>0 DEF Checked
  <1>2. monitor \in Counting
    BY Resting DEF TypeOK
  <1>3. /\ heard \in Counting /\ checked \in Counting
        /\ heard.fails \in Nat /\ checked.fails \in Nat
        /\ heard.fails <= checked.fails
        /\ checked.heard = heard.heard
        /\ heard.heard # "no" => checked.fails = 0
        /\ monitor.heard = "no" /\ ~monitor.reply => heard.fails = monitor.fails
        /\ ~(monitor.heard = "no" /\ ~monitor.reply) => heard.fails = 0
    BY <1>2, CheckedMonitor
  <1> HIDE DEF heard, checked
  <1>4. heard.fails <= silent
    BY <1>3 DEF TypeOK, CountsOK, DebounceInv
  <1>5. /\ silent' \in 0 .. ProbeLimit
        /\ checked.fails >= ProbeLimit => silent' = ProbeLimit
        /\ checked.fails < ProbeLimit => checked.fails <= silent'
    BY <1>1, <1>3, <1>4 DEF UpTo, TypeOK, CountsOK
  <1>6. deaf' \in 0 .. RadioLimit
    BY DEF UpTo, TypeOK, CountsOK
  <1>7. CASE checked.fails >= ProbeLimit
    <2>1. EnterNoWifiState(FALSE)
      BY <1>1, <1>7
    <2>2. Inv'
      BY <1>5, <1>6, <2>1, LostHomeInv
    <2> QED
      BY <1>5, <1>7, <2>2
  <1>8. CASE ~(checked.fails >= ProbeLimit)
    <2>1. /\ monitor' = checked
          /\ rssiFails' = IF IsRadioResponding THEN 0 ELSE rssiFails + 1
          /\ UNCHANGED <<radio, net, connecting, restart, access, world>>
      BY <1>1, <1>8
    <2>2. monitor' \in Monitors
      BY <1>3, <1>8, <2>1 DEF Counting, Monitors
    <2>3. rssiFails' \in 0 .. RadioLimit - 1 /\ rssiFails' <= deaf'
      BY <2>1 DEF TypeOK, CountsOK, DebounceInv, UpTo
    <2>4. ~restart /\ radio /\ checked.fails < ProbeLimit
      BY <1>3, <1>8 DEF OneHomeState, Usable
    <2>5. TypeOK'
      <3>1. FlagsOK'
        BY <2>1 DEF TypeOK, FlagsOK, access, world
      <3>2. CountsOK'
        BY <1>5, <1>6, <2>3 DEF TypeOK, CountsOK, bounds
      <3> QED
        BY <2>1, <2>2, <3>1, <3>2 DEF TypeOK, Points, access, world
    <2>6. NothingWithoutRadio' /\ OneHomeState' /\ PassInv'
      BY <2>1, <2>4 DEF NothingWithoutRadio, OneHomeState, PassInv, access, world
    <2>7. DebounceInv'
      <3>1. /\ monitor'.heard = "seen" => monitor'.fails = 0
            /\ monitor'.fails <= silent'
        BY <1>3, <1>5, <2>1, <2>4
      <3> QED
        BY <2>1, <2>3, <2>4, <3>1 DEF DebounceInv
    <2> QED
      BY <2>1, <2>5, <2>6, <2>7
  <1> QED
    BY <1>7, <1>8

\* The first part of the pass.
LEMMA CheckHomeInv ==
    ASSUME Inv, CheckHome
    PROVE  /\ Inv'
           /\ net # "NoWifi" /\ net' = "NoWifi" /\ Usable =>
                  silent' = ProbeLimit \/ (restart' /\ deaf' = RadioLimit)
  <1> USE WifiAssumption DEF Inv
  <1>1. pc = "home" /\ pc' = "station" /\ UNCHANGED <<status, bounds>>
    BY DEF CheckHome, Goto
  <1>2. CASE EnterNoWifiState(FALSE) /\ silent' \in {0, silent} /\ UNCHANGED deaf
             /\ ~(net # "NoWifi" /\ Usable)
    <2>1. silent' \in 0 .. ProbeLimit /\ deaf' \in 0 .. RadioLimit
      BY <1>2 DEF TypeOK, CountsOK
    <2> QED
      BY <1>1, <1>2, <2>1, LostHomeInv
  <1>3. CASE EnterWifiNoTcpState /\ silent' = 0 /\ UNCHANGED deaf
             /\ Usable /\ ~restart /\ net = "NoWifi"
    <2>1. /\ net' = "WifiNoTcp" /\ connecting' = FALSE /\ rssiFails' = 0
          /\ UNCHANGED <<radio, restart, access, world>>
          /\ radio /\ ~restart
      BY <1>3 DEF EnterWifiNoTcpState, Usable
    <2>2. /\ monitor' \in Monitors
          /\ monitor'.fails = 0
      <3> DEFINE local == (link = "local")
      <3>1. monitor' = [Stopped EXCEPT !.verified = local]
        BY <1>3 DEF EnterWifiNoTcpState
      <3>2. local \in BOOLEAN
        OBVIOUS
      <3>3. Stopped \in Monitors /\ Stopped.fails = 0
        BY Resting DEF Stopped
      <3> HIDE DEF local
      <3> QED
        BY <3>1, <3>2, <3>3 DEF Monitors
    <2>3. TypeOK'
      <3>1. FlagsOK'
        BY <2>1 DEF TypeOK, FlagsOK, access, world
      <3>2. CountsOK'
        BY <1>1, <1>3, <2>1 DEF TypeOK, CountsOK, bounds
      <3> QED
        BY <1>1, <2>1, <2>2, <3>1, <3>2 DEF TypeOK, Points, NetStates, access, world
    <2>4. NothingWithoutRadio' /\ OneHomeState' /\ PassInv'
      BY <1>1, <2>1 DEF NothingWithoutRadio, OneHomeState, PassInv, access, world
    <2>5. DebounceInv'
      BY <1>3, <2>1, <2>2 DEF DebounceInv, TypeOK, CountsOK
    <2> QED
      BY <1>3, <2>3, <2>4, <2>5
  <1>4. CASE CheckWifiHealth /\ Usable /\ net # "NoWifi"
    <2>1. deaf' \in 0 .. RadioLimit
      BY <1>4 DEF CheckWifiHealth, UpTo, TypeOK, CountsOK
    <2>2. CASE ~IsRadioResponding /\ rssiFails + 1 >= RadioLimit
      <3>1. EnterNoWifiState(TRUE) /\ UNCHANGED silent
        BY <1>4, <2>2 DEF CheckWifiHealth
      <3>2. deaf' = RadioLimit
        BY <1>4, <2>2 DEF CheckWifiHealth, UpTo, TypeOK, CountsOK, DebounceInv
      <3>3. silent' \in 0 .. ProbeLimit /\ restart'
        BY <3>1 DEF TypeOK, CountsOK, EnterNoWifiState
      <3> QED
        BY <1>1, <2>1, <3>1, <3>2, <3>3, LostHomeInv
    <2>3. CASE ~(~IsRadioResponding /\ rssiFails + 1 >= RadioLimit)
      <3>1. CheckReachability
        BY <1>4, <2>3 DEF CheckWifiHealth
      <3>2. IF IsRadioResponding THEN deaf' = 0
            ELSE deaf' = UpTo(RadioLimit, deaf + 1) /\ rssiFails + 1 < RadioLimit
        BY <1>4, <2>3 DEF CheckWifiHealth, TypeOK, CountsOK
      <3> QED
        BY <1>1, <1>4, <3>1, <3>2, CheckReachabilityInv
    <2> QED
      BY <2>2, <2>3
  <1>5. CASE UNCHANGED <<control, access, world, silent, deaf>>
    <2> USE <1>1, <1>5 DEF control, access, world, bounds
    <2>1. TypeOK'
      BY DEF TypeOK, FlagsOK, CountsOK, Points
    <2>2. NothingWithoutRadio' /\ OneHomeState' /\ PassInv' /\ DebounceInv'
      BY DEF NothingWithoutRadio, OneHomeState, PassInv, DebounceInv
    <2> QED
      BY <2>1, <2>2
  <1> USE DEF CheckHome
  <1>6. CASE Usable /\ ~restart
    <2>1. CASE net = "NoWifi"
      BY <1>2, <1>3, <1>6, <2>1
    <2>2. CASE net # "NoWifi"
      BY <1>4, <1>5, <1>6, <2>2
    <2> QED
      BY <2>1, <2>2
  <1>7. CASE ~(Usable /\ ~restart)
    <2>1. restart => net = "NoWifi"
      BY DEF OneHomeState
    <2> QED
      BY <1>2, <1>5, <1>7, <2>1
  <1> QED
    BY <1>6, <1>7

\* The invariant of the network loop holds in every reachable state: nothing
\* outlives a stopped radio, the station has one phase at a time, and the
\* counts behind a lost home and a radio restart are real (UpdateNetworkStateMachine).
THEOREM InvHolds == Spec => []Inv
  <1>1. Inv /\ [Next]_vars => Inv'
    <2> SUFFICES ASSUME Inv, [Next]_vars PROVE Inv'
      OBVIOUS
    <2>1. CASE Pass
      BY <2>1, CheckHomeInv, RestartInv, AttemptInv, AccessInv DEF Pass
    <2>2. CASE Outside
      BY <2>2, OutsideInv
    <2>3. CASE UNCHANGED vars
      <3> USE <2>3 DEF vars, control, access, world, bounds, Inv
      <3>1. TypeOK'
        BY DEF TypeOK, FlagsOK, CountsOK
      <3>2. NothingWithoutRadio' /\ OneHomeState' /\ PassInv' /\ DebounceInv'
        BY DEF NothingWithoutRadio, OneHomeState, PassInv, DebounceInv
      <3> QED
        BY <3>1, <3>2
    <2> QED
      BY <2>1, <2>2, <2>3 DEF Next
  <1> QED
    BY <1>1, InitInv, PTL DEF Spec

\* No step but a restart of a radio that stayed silent RadioLimit times in a
\* row closes the hotspot or a listener or ends a client's connection, for any
\* number of listeners and clients (EnterNoWifiState, RunWifiConnectSequence).
THEOREM DirectAccessKeptHolds == Spec => DirectAccessKept
  <1> DEFINE A == \/ hotspot /\ ~hotspot'
                  \/ ~(listening \subseteq listening')
                  \/ pc' # pc /\ \E l \in Listeners : client[l] # "none"
                                                    /\ client'[l] = "none"
                  => restart /\ deaf >= RadioLimit
  <1>1. Inv /\ [Next]_vars => [A]_vars
    <2> SUFFICES ASSUME Inv, Next PROVE A \/ UNCHANGED vars
      OBVIOUS
    <2> USE DEF Inv, access, world
    <2>1. restart => deaf >= RadioLimit
      BY WifiAssumption DEF DebounceInv
    <2>2. pc \in {"stopServices", "stopHotspot"} => restart
      BY DEF PassInv
    <2>3. CASE StopNetworkServices \/ StopHotspot
      BY <2>1, <2>2, <2>3 DEF StopNetworkServices, StopHotspot
    <2>4. CASE CheckHome
      <3>1. UNCHANGED access /\ UNCHANGED client
        BY <2>4 DEF CheckHome, CheckWifiHealth, CheckReachability,
                    EnterNoWifiState, EnterWifiNoTcpState
      <3> QED
        BY <3>1
    <2>5. CASE AssociationFailed \/ AssociationTimeout \/ NoAttempt
               \/ RunWifiConnectSequence \/ BeforeRadioRestart \/ DeinitRadio
               \/ InitRadio \/ ConnectStation
      <3>1. UNCHANGED access /\ UNCHANGED client
        BY <2>5 DEF AssociationFailed, AssociationTimeout, NoAttempt,
                    RunWifiConnectSequence, BeforeRadioRestart, DeinitRadio,
                    InitRadio, ConnectStation, EnterNoWifiState
      <3> QED
        BY <3>1
    <2>6. CASE HotspotWaits \/ StartHotspot \/ CheckServices \/ StartServices
               \/ PublishStatus
      <3>1. UNCHANGED client /\ listening \subseteq listening'
        BY <2>6 DEF HotspotWaits, StartHotspot, CheckServices, StartServices,
                    PublishStatus, TypeOK
      <3>2. ~(hotspot /\ ~hotspot')
        BY <2>6 DEF HotspotWaits, StartHotspot, CheckServices, StartServices,
                    PublishStatus
      <3> QED
        BY <3>1, <3>2
    <2>7. CASE Outside
      <3>1. UNCHANGED access /\ pc' = pc
        BY <2>7 DEF Outside, outside, LinkComesUp, LinkChanges, RadioHangs,
                    RadioAnswersAgain, ObserveNetworkInput, TrafficAges,
                    ClientArrives, ClientLeaves
      <3> QED
        BY <3>1
    <2> QED
      BY <2>3, <2>4, <2>5, <2>6, <2>7 DEF Next, Pass
  <1> QED
    BY <1>1, InvHolds, PTL DEF Spec, DirectAccessKept

\* A usable home link is given up only for ProbeLimit lost probes in a row
\* without a packet from home in between, or for a radio that is restarted, for
\* every debounce limit (CheckReachability, ObserveNetworkInput).
THEOREM HomeLossDebouncedHolds == Spec => HomeLossDebounced
  <1> DEFINE A == net # "NoWifi" /\ net' = "NoWifi" /\ Usable =>
                      \/ silent' >= ProbeLimit
                      \/ restart' /\ deaf' >= RadioLimit
  <1>1. Inv /\ [Next]_vars => [A]_vars
    <2> SUFFICES ASSUME Inv, Next, net # "NoWifi", net' = "NoWifi", Usable
                 PROVE  \/ silent' >= ProbeLimit
                        \/ restart' /\ deaf' >= RadioLimit
      OBVIOUS
    <2>1. CASE CheckHome
      BY <2>1, CheckHomeInv, WifiAssumption
    <2>2. ~(AssociationFailed \/ AssociationTimeout \/ ConnectStation)
      BY DEF Inv, OneHomeState, PassInv, AssociationFailed, AssociationTimeout,
             ConnectStation
    <2>3. ~(CheckServices \/ StartServices)
      BY DEF CheckServices, StartServices, Served
    <2>4. ~(NoAttempt \/ RunWifiConnectSequence \/ StopNetworkServices
            \/ StopHotspot \/ BeforeRadioRestart \/ DeinitRadio \/ InitRadio
            \/ HotspotWaits \/ StartHotspot \/ PublishStatus)
      BY DEF NoAttempt, RunWifiConnectSequence, StopNetworkServices, StopHotspot,
             BeforeRadioRestart, DeinitRadio, InitRadio, HotspotWaits,
             StartHotspot, PublishStatus, control
    <2>5. ~Outside
      BY DEF Outside, outside, LinkComesUp, LinkChanges, RadioHangs,
             RadioAnswersAgain, ObserveNetworkInput, TrafficAges,
             ClientArrives, ClientLeaves
    <2> QED
      BY <2>1, <2>2, <2>3, <2>4, <2>5 DEF Next, Pass
  <1> QED
    BY <1>1, InvHolds, PTL DEF Spec, HomeLossDebounced

-----------------------------------------------------------------------------
(* The hotspot's addresses.                                                *)

\* A nonempty set of naturals has a smallest element.
LEMMA SmallestExists ==
    ASSUME NEW S, S \subseteq Nat, S # {}
    PROVE  \E m \in S : \A n \in S : m <= n
  <1> DEFINE Upto(n) == 1 .. n
             T == {Upto(n) : n \in S}
             R == StrictSubsetOrdering(Nat)
  <1>1. T \subseteq FiniteSubsetsOf(Nat)
    <2>1. ASSUME NEW n \in S PROVE Upto(n) \in SUBSET Nat /\ IsFiniteSet(Upto(n))
      BY FS_Interval
    <2> QED
      BY <2>1 DEF FiniteSubsetsOf
  <1>2. PICK x \in T : \A y \in T : ~ (<<y, x>> \in R)
    <2>1. T # {}
      OBVIOUS
    <2> HIDE DEF T, R
    <2> QED
      BY <1>1, <2>1, WFMin, FS_StrictSubsetOrderingWellFounded DEF R
  <1>3. PICK m \in S : x = Upto(m)
    BY <1>2
  <1>4. ASSUME NEW n \in S, n < m PROVE FALSE
    <2>1. Upto(n) \subseteq Upto(m) /\ m \in Upto(m) /\ m \notin Upto(n)
      BY <1>4
    <2>2. <<Upto(n), Upto(m)>> \in R
      BY <2>1 DEF StrictSubsetOrdering
    <2> QED
      BY <1>2, <1>3, <2>2
  <1> QED
    BY <1>4

\* The pool's addresses are numbers, and none of them is "no address".
LEMMA PoolAddresses ==
    /\ None \notin Addresses
    /\ \A a \in Addresses : a \in Nat /\ Cardinality(Addresses) - a \in Nat
  <1>1. Cardinality(Addresses) \in Nat
    BY HotspotAssumption, FS_CardinalityType
  <1> DEFINE C == Cardinality(Addresses)
  <1>2. Addresses = 1 .. C
    BY HotspotAssumption
  <1> HIDE DEF C
  <1>3. C \in Nat
    BY <1>1 DEF C
  <1>4. None \notin Addresses /\ \A a \in Addresses : a \in Nat /\ C - a \in Nat
    BY <1>2, <1>3 DEF None
  <1> QED
    BY <1>4 DEF C

\* The last inactive lease is one of them.
LEMMA HighestIn ==
    ASSUME NEW S, S \subseteq Addresses, S # {}
    PROVE  Highest(S) \in S
  <1> DEFINE C == Cardinality(Addresses)
             Left == {C - a : a \in S}
  <1>1. Left \subseteq Nat /\ Left # {}
    BY PoolAddresses
  <1>2. PICK m \in Left : \A n \in Left : m <= n
    BY <1>1, SmallestExists
  <1>3. PICK a \in S : m = C - a
    BY <1>2
  <1>4. \A b \in S : b <= a
    <2> TAKE b \in S
    <2>1. C - a <= C - b
      BY <1>2, <1>3
    <2>2. a \in Nat /\ b \in Nat /\ C - a \in Nat
      BY PoolAddresses
    <2>3. C \in Nat
      BY HotspotAssumption, FS_CardinalityType
    <2> QED
      BY <2>1, <2>2, <2>3
  <1> QED
    BY <1>4, Zenon DEF Highest

\* What FindLease finds: the requested address if one was requested, and
\* always the device's active lease or, if it has none, an inactive one.
LEMMA LeaseFound ==
    ASSUME OnePerDevice, NEW m \in Macs, NEW requested,
           FindLease(m, requested) # None
    PROVE  LET a == FindLease(m, requested)
           IN  /\ a \in Addresses
               /\ requested \in {None, a}
               /\ Holds(m, a) \/ ~Active(a)
               /\ \A b \in Addresses : Holds(m, b) => b = a
  <1>1. CASE \E a \in Addresses : Holds(m, a)
    <2>1. PICK a \in Addresses : Holds(m, a)
      BY <1>1
    <2>2. \A b \in Addresses : Holds(m, b) => b = a
      BY <2>1 DEF OnePerDevice
    <2>3. (CHOOSE b \in Addresses : Holds(m, b)) = a
      BY <2>1, <2>2
    <2>4. FindLease(m, requested) = IF requested \in {None, a} THEN a ELSE None
      BY <1>1, <2>3, Zenon DEF FindLease
    <2> QED
      BY <2>1, <2>2, <2>4
  <1>2. CASE ~ \E a \in Addresses : Holds(m, a)
    <2> DEFINE available ==
                 {a \in Addresses : ~Active(a) /\ requested \in {None, a}}
    <2>1. FindLease(m, requested) = IF available = {} THEN None
                                    ELSE Highest(available)
      BY <1>2, Zenon DEF FindLease
    <2>2. available # {} /\ FindLease(m, requested) = Highest(available)
      BY <2>1
    <2>3. Highest(available) \in available
      <3>1. available \subseteq Addresses
        OBVIOUS
      <3> QED
        BY <2>2, <3>1, HighestIn
    <2> QED
      BY <1>2, <2>2, <2>3
  <1> QED
    BY <1>1, <1>2

\* The server's packets to and from a device, and what a step does to them.
LEMMA QueueShrinks ==
    ASSUME NEW q \in Seq(Packets), q # <<>>
    PROVE  /\ Head(q) \in Packets /\ Head(q) = q[1] /\ 1 \in DOMAIN q
           /\ Tail(q) \in Seq(Packets) /\ Len(Tail(q)) <= Len(q)
           /\ \A i \in DOMAIN Tail(q) :
                 i \in Nat /\ i + 1 \in DOMAIN q /\ Tail(q)[i] = q[i + 1]
           /\ \A i \in DOMAIN q : i \in Nat \ {0}
  OBVIOUS

LEMMA QueueGrows ==
    ASSUME NEW q \in Seq(Packets), NEW packet \in Packets
    PROVE  LET longer == Append(q, packet)
           IN  /\ longer \in Seq(Packets) /\ Len(longer) = Len(q) + 1
               /\ DOMAIN longer = DOMAIN q \cup {Len(q) + 1}
               /\ \A i \in DOMAIN q : longer[i] = q[i] /\ i \in Nat /\ i < Len(q) + 1
               /\ longer[Len(q) + 1] = packet
  OBVIOUS

LEMMA QueueOutdated ==
    ASSUME NEW q \in Seq(Packets)
    PROVE  /\ Outdated(q) \in Seq(Packets) /\ Len(Outdated(q)) = Len(q)
           /\ DOMAIN Outdated(q) = DOMAIN q
           /\ \A i \in DOMAIN q :
                 Outdated(q)[i] = [q[i] EXCEPT !.current = FALSE]
  <1> DEFINE old(p) == [p EXCEPT !.current = FALSE]
  <1>1. \A p \in Packets : old(p) \in Packets
    BY DEF Packets
  <1>2. Len(q) \in Nat /\ q \in [1 .. Len(q) -> Packets] /\ DOMAIN q = 1 .. Len(q)
    BY LenProperties
  <1>3. Outdated(q) = [i \in 1 .. Len(q) |-> old(q[i])]
    BY <1>2 DEF Outdated
  <1> HIDE DEF old
  <1>4. Outdated(q) \in [1 .. Len(q) -> Packets]
    BY <1>1, <1>2, <1>3
  <1>5. Outdated(q) \in Seq(Packets)
    BY <1>2, <1>4
  <1>6. Len(Outdated(q)) = Len(q) /\ DOMAIN Outdated(q) = DOMAIN q
    BY <1>2, <1>4, <1>5
  <1>7. \A i \in DOMAIN q : Outdated(q)[i] = old(q[i])
    BY <1>2, <1>3
  <1> QED
    BY <1>5, <1>6, <1>7 DEF old

\* What the steps assign as a whole has its type.
LEMMA WholeReplies ==
    /\ NoReply \in Replies /\ Reply("NAK", None) \in Replies
    /\ \A a \in Addresses : /\ Reply("OFFER", a) \in Replies
                            /\ Reply("ACK", a) \in Replies
    /\ Unused \in Leases
    /\ \A m \in Macs, term \in {"offer", "bound"} :
          [mac |-> m, term |-> term] \in Leases
  BY DEF NoReply, Reply, Replies, Unused, Leases

\* A device whose packets get fewer at most, and whose granted lease is not
\* touched, still agrees with the server.
LEMMA AgreesKept ==
    ASSUME NEW m \in Macs, HotspotTypeOK, Agrees(m),
           station'[m] = station[m],
           \/ sent'[m] = sent[m]
           \/ sent[m] # <<>> /\ sent'[m] = Tail(sent[m]),
           reply'[m] = reply[m] \/ reply'[m].type \in {"none", "OFFER"},
           \A a \in Addresses :
              Granted(m, a) /\ Relies(m, a) => lease'[a] = lease[a]
    PROVE  Agrees(m)'
  <1>1. sent[m] \in Seq(Packets) /\ station[m].address \in Addresses \cup {None}
        /\ station[m] \in Stations
    BY DEF HotspotTypeOK, Stations
  <1>2. station[m].state \in {"requesting", "bound"} /\ station[m].address # None
           => Relies(m, station[m].address) /\ station[m].address \in Addresses
    BY <1>1 DEF Relies
  <1>3. \A i \in DOMAIN sent'[m] :
           \E k \in DOMAIN sent[m] : sent'[m][i] = sent[m][k]
    <2>1. CASE sent'[m] = sent[m]
      BY <2>1
    <2>2. CASE sent[m] # <<>> /\ sent'[m] = Tail(sent[m])
      BY <1>1, <2>2, QueueShrinks
    <2> QED
      BY <2>1, <2>2
  <1>4. \A i, j \in DOMAIN sent'[m] : i <= j =>
           \E k, l \in DOMAIN sent[m] :
              k <= l /\ sent'[m][i] = sent[m][k] /\ sent'[m][j] = sent[m][l]
    <2>1. CASE sent'[m] = sent[m]
      BY <2>1
    <2>2. CASE sent[m] # <<>> /\ sent'[m] = Tail(sent[m])
      <3> TAKE i, j \in DOMAIN sent'[m]
      <3>0. \A k \in DOMAIN sent'[m] :
               k \in Nat /\ k + 1 \in DOMAIN sent[m] /\ sent'[m][k] = sent[m][k + 1]
        <4> DEFINE q == sent[m]
                   rest == sent'[m]
        <4>1. q \in Seq(Packets) /\ q # <<>> /\ rest = Tail(q)
          BY <1>1, <2>2
        <4> HIDE DEF q, rest
        <4>2. \A k \in DOMAIN rest :
                 k \in Nat /\ k + 1 \in DOMAIN q /\ rest[k] = q[k + 1]
          BY <4>1, QueueShrinks
        <4> QED
          BY <4>2 DEF q, rest
      <3>1. /\ i \in Nat /\ j \in Nat
            /\ i + 1 \in DOMAIN sent[m] /\ j + 1 \in DOMAIN sent[m]
            /\ sent'[m][i] = sent[m][i + 1] /\ sent'[m][j] = sent[m][j + 1]
        BY <3>0
      <3>2. i <= j => i + 1 <= j + 1
        BY <3>1
      <3> QED
        BY <3>1, <3>2
    <2> QED
      BY <2>1, <2>2
  <1>5. ASSUME station[m].state \in {"requesting", "bound"},
               station[m].address # None, Granted(m, station[m].address)
        PROVE  Granted(m, station[m].address)'
    BY <1>2, <1>3, <1>5 DEF Granted
  <1>6. Reply("ACK", station[m].address).type = "ACK"
    BY DEF Reply
  <1>7. (station[m].state = "bound")' =>
           (station[m].address # None /\ Granted(m, station[m].address))'
    BY <1>5 DEF Agrees
  <1>8. (station[m].state = "selecting")' =>
           (/\ \A i \in DOMAIN sent[m] :
                  sent[m][i].current => sent[m][i].type = "DISCOVER"
            /\ reply[m].type \in {"none", "OFFER"})'
    BY <1>3, <1>6 DEF Agrees
  <1>9. (station[m].state = "requesting")' =>
           (/\ station[m].address # None
            /\ reply[m] = Reply("ACK", station[m].address)
                  => Granted(m, station[m].address))'
    BY <1>5, <1>6 DEF Agrees
  <1>10. (station[m].state = "requesting")' =>
           (\A i, j \in DOMAIN sent[m] :
              sent[m][i].current /\ sent[m][i].type = "REQUEST" /\ i <= j
                  => Asks(sent[m][j], station[m].address))'
    <2>1. ASSUME station[m].state = "requesting",
                 NEW i \in DOMAIN sent'[m], NEW j \in DOMAIN sent'[m],
                 sent'[m][i].current, sent'[m][i].type = "REQUEST", i <= j
          PROVE  Asks(sent'[m][j], station[m].address)
      BY <1>4, <2>1 DEF Agrees
    <2> QED
      BY <2>1 DEF Asks
  <1> QED
    BY <1>7, <1>8, <1>9, <1>10 DEF Agrees

-----------------------------------------------------------------------------
(* The server handles a packet.                                            *)

\* An address granted as FindLease chose it leaves every device with one lease
\* and the other devices with theirs.
LEMMA GrantKeeps ==
    ASSUME HotspotTypeOK, OnePerDevice, NEW m \in Macs, NEW requested,
           FindLease(m, requested) # None, NEW term \in {"offer", "bound"},
           Grant(m, FindLease(m, requested), term), device' = device
    PROVE  /\ lease' \in [Addresses -> Leases]
           /\ lease'[FindLease(m, requested)] = [mac |-> m, term |-> term]
           /\ OnePerDevice'
           /\ \A n \in Macs, a \in Addresses :
                 n # m /\ lease[a] = [mac |-> n, term |-> "bound"]
                    => lease'[a] = lease[a]
  <1> DEFINE found == FindLease(m, requested)
  <1>1. /\ found \in Addresses
        /\ Holds(m, found) \/ ~Active(found)
        /\ \A b \in Addresses : Holds(m, b) => b = found
    BY LeaseFound
  <1>2. /\ lease' = [lease EXCEPT ![found] = [mac |-> m, term |-> term]]
        /\ lease \in [Addresses -> Leases]
    BY DEF Grant, HotspotTypeOK
  <1> HIDE DEF found
  <1>3. lease' \in [Addresses -> Leases] /\ lease'[found] = [mac |-> m, term |-> term]
    BY <1>1, <1>2, WholeReplies
  <1>4. \A a \in Addresses : a # found => lease'[a] = lease[a]
    BY <1>1, <1>2
  <1>5. ASSUME NEW n \in Macs, NEW a \in Addresses, NEW b \in Addresses,
               Holds(n, a)', Holds(n, b)'
        PROVE  a = b
    <2>1. CASE n = m
      BY <1>1, <1>4, <1>5, <2>1 DEF Holds, Active
    <2>2. CASE n # m
      <3>1. a # found /\ b # found
        BY <1>3, <1>5, <2>2 DEF Holds
      <3>2. Holds(n, a) /\ Holds(n, b)
        BY <1>4, <1>5, <3>1 DEF Holds, Active
      <3> QED
        BY <3>2 DEF OnePerDevice
    <2> QED
      BY <2>1, <2>2
  <1>6. OnePerDevice'
    BY <1>5 DEF OnePerDevice
  <1>7. \A n \in Macs, a \in Addresses :
           n # m /\ lease[a] = [mac |-> n, term |-> "bound"] => lease'[a] = lease[a]
    BY <1>1, <1>4 DEF Holds, Active
  <1> QED
    BY <1>3, <1>6, <1>7 DEF found

\* A discovery reserves an address for a minute at most.
LEMMA DiscoverKeeps ==
    ASSUME HotspotTypeOK, OnePerDevice, NEW m \in Macs, NEW packet \in Packets,
           Discover(m, packet), device' = device
    PROVE  /\ lease' \in [Addresses -> Leases] /\ reply' \in [Macs -> Replies]
           /\ OnePerDevice'
           /\ \A n \in Macs \ {m} : reply'[n] = reply[n]
           /\ reply'[m] = reply[m] \/ reply'[m].type \in {"none", "OFFER"}
           /\ \A n \in Macs, a \in Addresses :
                 n # m /\ lease[a] = [mac |-> n, term |-> "bound"]
                    => lease'[a] = lease[a]
  <1> DEFINE wanted == FindLease(m, packet.address)
             found == IF wanted # None THEN wanted ELSE FindLease(m, None)
  <1>1. CASE found = None
    BY <1>1 DEF Discover, HotspotTypeOK, OnePerDevice, Holds, Active
  <1>2. CASE found # None
    <2>1. Grant(m, found, "offer") /\ SendReply(m, packet, "OFFER", found)
      BY <1>2 DEF Discover
    <2>2. PICK requested : found = FindLease(m, requested)
      OBVIOUS
    <2>3. found \in Addresses
      BY <1>2, <2>2, LeaseFound
    <2>4. /\ reply' \in [Macs -> Replies]
          /\ \A n \in Macs \ {m} : reply'[n] = reply[n]
          /\ reply'[m] \in {NoReply, Reply("OFFER", found)}
      BY <2>1, <2>3, WholeReplies DEF SendReply, HotspotTypeOK
    <2>5. reply'[m].type \in {"none", "OFFER"}
      BY <2>4 DEF Reply, NoReply
    <2>6. Grant(m, FindLease(m, requested), "offer") /\ FindLease(m, requested) # None
      BY <1>2, <2>1, <2>2
    <2> HIDE DEF found
    <2> QED
      BY <2>4, <2>5, <2>6, GrantKeeps
  <1> QED
    BY <1>1, <1>2

\* A request is granted for an hour, at the address it names, or refused.
LEMMA RequestKeeps ==
    ASSUME HotspotTypeOK, OnePerDevice, NEW m \in Macs, NEW packet \in Packets,
           Request(m, packet), device' = device
    PROVE  /\ lease' \in [Addresses -> Leases] /\ reply' \in [Macs -> Replies]
           /\ OnePerDevice'
           /\ \A n \in Macs \ {m} : reply'[n] = reply[n]
           /\ ~packet.current => reply'[m].type = "none"
           /\ \A n \in Macs, a \in Addresses :
                 n # m /\ lease[a] = [mac |-> n, term |-> "bound"]
                    => lease'[a] = lease[a]
           /\ \A a \in Addresses : packet.address = a =>
                 /\ Holds(m, a) => lease'[a] = [mac |-> m, term |-> "bound"]
                 /\ reply'[m] = Reply("ACK", a)
                       => lease'[a] = [mac |-> m, term |-> "bound"]
  <1> DEFINE found == FindLease(m, packet.address)
  <1>0. reply \in [Macs -> Replies] /\ lease \in [Addresses -> Leases]
    BY DEF HotspotTypeOK
  <1>1. CASE found = None
    <2>1. lease' = lease /\ SendReply(m, packet, "NAK", None)
      BY <1>1 DEF Request
    <2>2. /\ reply' \in [Macs -> Replies]
          /\ \A n \in Macs \ {m} : reply'[n] = reply[n]
          /\ reply'[m] \in {NoReply, Reply("NAK", None)}
          /\ ~packet.current => reply'[m] = NoReply
      BY <1>0, <2>1, WholeReplies DEF SendReply
    <2>3. /\ \A a \in Addresses : reply'[m] # Reply("ACK", a)
          /\ ~packet.current => reply'[m].type = "none"
      BY <2>2 DEF Reply, NoReply
    <2>4. \A a \in Addresses : Holds(m, a) => packet.address # a
      <3>1. ASSUME NEW a \in Addresses, Holds(m, a), packet.address = a
            PROVE  found = a
        <4>1. (CHOOSE b \in Addresses : Holds(m, b)) = a
          BY <3>1 DEF OnePerDevice
        <4> QED
          BY <3>1, <4>1, Zenon DEF FindLease
      <3> QED
        BY <1>1, <3>1, PoolAddresses
    <2>5. OnePerDevice'
      BY <2>1 DEF OnePerDevice, Holds, Active
    <2> QED
      BY <1>0, <2>1, <2>2, <2>3, <2>4, <2>5
  <1>2. CASE found # None
    <2>1. Grant(m, found, "bound") /\ SendReply(m, packet, "ACK", found)
      BY <1>2 DEF Request
    <2>2. /\ found \in Addresses /\ packet.address \in {None, found}
      BY <1>2, LeaseFound
    <2>3. /\ reply' \in [Macs -> Replies]
          /\ \A n \in Macs \ {m} : reply'[n] = reply[n]
          /\ ~packet.current => reply'[m] = NoReply
      BY <1>0, <2>1, <2>2, WholeReplies DEF SendReply
    <2>4. /\ lease' \in [Addresses -> Leases] /\ OnePerDevice'
          /\ lease'[found] = [mac |-> m, term |-> "bound"]
          /\ \A n \in Macs, a \in Addresses :
                 n # m /\ lease[a] = [mac |-> n, term |-> "bound"]
                    => lease'[a] = lease[a]
      BY <1>2, <2>1, GrantKeeps
    <2>5. \A a \in Addresses : packet.address = a => a = found
      BY <2>2, PoolAddresses
    <2>6. NoReply.type = "none"
      BY DEF Reply, NoReply
    <2> QED
      BY <2>3, <2>4, <2>5, <2>6
  <1> QED
    BY <1>1, <1>2

\* A device gives its lease up: the others keep theirs.
LEMMA ReleaseKeeps ==
    ASSUME HotspotTypeOK, OnePerDevice, NEW m \in Macs,
           Release(m) \/ Decline(m), device' = device
    PROVE  /\ lease' \in [Addresses -> Leases] /\ reply' = reply
           /\ OnePerDevice'
           /\ \A n \in Macs, a \in Addresses :
                 n # m /\ lease[a] = [mac |-> n, term |-> "bound"]
                    => lease'[a] = lease[a]
  <1>1. lease \in [Addresses -> Leases] /\ reply' = reply
    BY DEF HotspotTypeOK, Release, Decline
  <1>2. Nobody \notin Macs
    BY HotspotAssumption
  <1>3. lease' \in [Addresses -> Leases]
    BY <1>1 DEF Release, Decline, Leases
  <1>4. \A n \in Macs, a \in Addresses : Holds(n, a)' => Holds(n, a)
    BY <1>1, <1>2 DEF Release, Decline, Holds, Active, Leases
  <1>5. OnePerDevice'
    BY <1>4 DEF OnePerDevice
  <1>6. \A n \in Macs, a \in Addresses :
           n # m /\ lease[a] = [mac |-> n, term |-> "bound"] => lease'[a] = lease[a]
    BY <1>1 DEF Release, Decline
  <1> QED
    BY <1>1, <1>3, <1>5, <1>6

\* Devices that agree with the server have the addresses they use leased.
LEMMA AgreesOwns ==
    ASSUME Exchanges
    PROVE  AddressOwned
  <1>1. \A m \in Macs, a \in Addresses :
           Using(m, a) => lease[a].mac = m /\ lease[a].term = "bound"
    <2> SUFFICES ASSUME NEW m \in Macs, NEW a \in Addresses, Using(m, a)
                 PROVE  lease[a].mac = m /\ lease[a].term = "bound"
      OBVIOUS
    <2>1. station[m].state = "bound" /\ station[m].address = a
      BY DEF Using
    <2>2. lease[a] = [mac |-> m, term |-> "bound"]
      BY <2>1 DEF Exchanges, Agrees, Granted
    <2> QED
      BY <2>2
  <1> QED
    BY <1>1 DEF AddressOwned, Holds, Active

\* The device whose packet is handled agrees with the server afterwards.
LEMMA HandledAgrees ==
    ASSUME HotspotTypeOK, OnePerDevice, Exchanges, NEW m \in Macs,
           HandlePacket(m)
    PROVE  Agrees(m)'
  <1> DEFINE packet == Head(sent[m])
  <1>1. /\ sent[m] # <<>> /\ sent[m] \in Seq(Packets)
        /\ packet \in Packets /\ packet = sent[m][1] /\ 1 \in DOMAIN sent[m]
        /\ \A i \in DOMAIN sent[m] : 1 <= i
    BY QueueShrinks DEF HandlePacket, HotspotTypeOK
  <1>2. /\ station' = station /\ device' = device
        /\ sent'[m] = Tail(sent[m])
    BY DEF HandlePacket, HotspotTypeOK
  <1>3. Agrees(m)
    BY DEF Exchanges
  <1>4. \A a \in Addresses : Granted(m, a) => Asks(packet, a)
    BY <1>1 DEF Granted
  <1>5. CASE packet.type = "DISCOVER"
    <2>1. Discover(m, packet)
      BY <1>5 DEF HandlePacket
    <2>2. reply'[m] = reply[m] \/ reply'[m].type \in {"none", "OFFER"}
      BY <1>1, <1>2, <2>1, DiscoverKeeps
    <2>3. \A a \in Addresses : ~Granted(m, a)
      BY <1>4, <1>5 DEF Asks
    <2> QED
      BY <1>1, <1>2, <1>3, <2>2, <2>3, AgreesKept
  <1>6. CASE packet.type \in {"RELEASE", "DECLINE"}
    <2>1. Release(m) \/ Decline(m)
      BY <1>6 DEF HandlePacket
    <2>2. reply' = reply
      BY <1>2, <2>1, ReleaseKeeps
    <2>3. \A a \in Addresses : ~Granted(m, a)
      BY <1>4, <1>6 DEF Asks
    <2> QED
      BY <1>1, <1>2, <1>3, <2>2, <2>3, AgreesKept
  <1>7. CASE packet.type = "REQUEST"
    <2>1. Request(m, packet)
      BY <1>7 DEF HandlePacket
    <2>2. /\ ~packet.current => reply'[m].type = "none"
          /\ \A a \in Addresses : packet.address = a =>
                 /\ Holds(m, a) => lease'[a] = [mac |-> m, term |-> "bound"]
                 /\ reply'[m] = Reply("ACK", a)
                       => lease'[a] = [mac |-> m, term |-> "bound"]
      BY <1>1, <1>2, <2>1, RequestKeeps
    <2>3. ASSUME NEW a \in Addresses, Granted(m, a)
          PROVE  lease'[a] = lease[a]
      BY <1>4, <2>2, <2>3 DEF Granted, Asks, Holds, Active
    <2>4. CASE ~packet.current
      BY <1>1, <1>2, <1>3, <2>2, <2>3, <2>4, AgreesKept
    <2>5. CASE packet.current
      <3>1. station[m].state # "selecting"
        BY <1>1, <1>3, <1>7, <2>5 DEF Agrees
      <3>2. station[m] \in Stations
        BY DEF HotspotTypeOK
      <3>3. \A i \in DOMAIN sent'[m] :
               \E k \in DOMAIN sent[m] : sent'[m][i] = sent[m][k]
        BY <1>1, <1>2, QueueShrinks
      <3>4. CASE station[m].state = "bound"
        <4> DEFINE a == station[m].address
        <4>1. a \in Addresses /\ Granted(m, a)
          BY <1>3, <3>2, <3>4 DEF Agrees, Stations
        <4>2. lease'[a] = [mac |-> m, term |-> "bound"]
          BY <2>3, <4>1 DEF Granted
        <4>3. \A i \in DOMAIN sent'[m] : Asks(sent'[m][i], a)
          BY <3>3, <4>1 DEF Granted
        <4>4. Granted(m, a)'
          BY <1>2, <4>2, <4>3 DEF Granted, Asks
        <4> QED
          BY <1>2, <3>4, <4>1, <4>4, PoolAddresses DEF Agrees
      <3>5. CASE station[m].state = "requesting"
        <4> DEFINE a == station[m].address
        <4>1. /\ a \in Addresses /\ a # None
              /\ \A k \in DOMAIN sent[m] : Asks(sent[m][k], a)
          BY <1>1, <1>3, <1>7, <2>5, <3>2, <3>5 DEF Agrees, Stations
        <4>2. packet.address = a
          BY <1>1, <4>1 DEF Asks
        <4>3. \A i \in DOMAIN sent'[m] : Asks(sent'[m][i], a)
          BY <3>3, <4>1
        <4>4. reply'[m] = Reply("ACK", a) => lease'[a] = [mac |-> m, term |-> "bound"]
          BY <2>2, <4>1, <4>2
        <4>5. reply'[m] = Reply("ACK", a) => Granted(m, a)'
          BY <1>2, <4>3, <4>4 DEF Granted, Asks
        <4> QED
          BY <1>2, <3>5, <4>1, <4>3, <4>5 DEF Agrees, Asks
      <3>6. CASE station[m].state \in {"away", "init"}
        BY <1>2, <3>6 DEF Agrees
      <3> QED
        BY <3>1, <3>2, <3>4, <3>5, <3>6 DEF Stations
    <2> QED
      BY <2>4, <2>5
  <1> QED
    BY <1>1, <1>5, <1>6, <1>7 DEF Packets

\* Handling a packet keeps the invariant: only its device is concerned.
LEMMA HandlePacketInv ==
    ASSUME Agreement, NEW m \in Macs, HandlePacket(m)
    PROVE  Agreement'
  <1> USE DEF Agreement
  <1> DEFINE packet == Head(sent[m])
  <1>1. /\ sent[m] # <<>> /\ sent \in [Macs -> Seq(Packets)]
        /\ packet \in Packets
    BY QueueShrinks DEF HandlePacket, HotspotTypeOK
  <1>2. UNCHANGED <<ready, device, station, moves, mishaps>>
        /\ sent' = [sent EXCEPT ![m] = Tail(sent[m])]
    BY DEF HandlePacket
  <1>3. /\ lease' \in [Addresses -> Leases] /\ reply' \in [Macs -> Replies]
        /\ OnePerDevice'
        /\ \A n \in Macs \ {m} : reply'[n] = reply[n]
        /\ \A n \in Macs, a \in Addresses :
              n # m /\ lease[a] = [mac |-> n, term |-> "bound"]
                 => lease'[a] = lease[a]
    <2>1. CASE packet.type = "DISCOVER"
      <3>1. Discover(m, packet)
        BY <2>1 DEF HandlePacket
      <3> QED
        BY <1>1, <1>2, <3>1, DiscoverKeeps
    <2>2. CASE packet.type = "REQUEST"
      <3>1. Request(m, packet)
        BY <2>2 DEF HandlePacket
      <3> QED
        BY <1>1, <1>2, <3>1, RequestKeeps
    <2>3. CASE packet.type \in {"RELEASE", "DECLINE"}
      <3>1. Release(m) \/ Decline(m)
        BY <2>3 DEF HandlePacket
      <3>2. reply \in [Macs -> Replies]
        BY DEF HotspotTypeOK
      <3> QED
        BY <1>2, <3>1, <3>2, ReleaseKeeps
    <2> QED
      BY <1>1, <2>1, <2>2, <2>3 DEF Packets
  <1>4. HotspotTypeOK'
    <2>1. Tail(sent[m]) \in Seq(Packets) /\ Len(Tail(sent[m])) <= Len(sent[m])
      BY <1>1, QueueShrinks
    <2>2. sent' \in [Macs -> Seq(Packets)]
          /\ \A n \in Macs : sent'[n] = IF n = m THEN Tail(sent[m]) ELSE sent[n]
      BY <1>1, <1>2, <2>1
    <2>3. \A n \in Macs : Len(sent'[n]) <= MaxQueue
      <3>1. Len(sent[m]) \in Nat /\ Len(Tail(sent[m])) \in Nat /\ MaxQueue \in Nat
        BY <1>1, <2>1, HotspotAssumption, LenProperties
      <3>2. Len(Tail(sent[m])) <= MaxQueue
        BY <2>1, <3>1 DEF HotspotTypeOK
      <3> QED
        BY <2>2, <3>2 DEF HotspotTypeOK
    <2> QED
      BY <1>2, <1>3, <2>2, <2>3 DEF HotspotTypeOK
  <1>5. Exchanges'
    <2>1. ASSUME NEW n \in Macs, n # m PROVE Agrees(n)'
      <3>1. /\ sent'[n] = sent[n] /\ reply'[n] = reply[n]
            /\ station'[n] = station[n] /\ Agrees(n)
        BY <1>1, <1>2, <1>3, <2>1 DEF Exchanges
      <3>2. \A a \in Addresses : Granted(n, a) => lease'[a] = lease[a]
        BY <1>3, <2>1 DEF Granted
      <3> QED
        BY <3>1, <3>2, AgreesKept
    <2> QED
      BY <2>1, HandledAgrees DEF Exchanges
  <1> QED
    BY <1>3, <1>4, <1>5

-----------------------------------------------------------------------------
(* The leases and the association list.                                    *)

\* Mishaps are counted up to their bound.
LEMMA MishapBound ==
    ASSUME HotspotTypeOK, Mishap
    PROVE  mishaps' \in 0 .. MaxMishaps
  BY HotspotAssumption DEF HotspotTypeOK, Mishap

\* The end of a lease that nobody relies on concerns nobody.
LEMMA LeaseEndsInv ==
    ASSUME Agreement, NEW e \in Addresses, LeaseEnds(e)
    PROVE  Agreement'
  <1> USE DEF Agreement
  <1>1. /\ UNCHANGED <<ready, device, station, sent, reply, moves>>
        /\ lease' = [lease EXCEPT ![e].term = "expired"]
        /\ lease \in [Addresses -> Leases]
    BY DEF LeaseEnds, HotspotTypeOK
  <1>2. /\ lease' \in [Addresses -> Leases]
        /\ \A a \in Addresses : a # e => lease'[a] = lease[a]
        /\ ~Active(e)'
    BY <1>1 DEF Leases, Active
  <1>3. mishaps' \in 0 .. MaxMishaps
    <2>1. mishaps' = mishaps \/ Mishap
      BY DEF LeaseEnds
    <2> QED
      BY <2>1, MishapBound DEF HotspotTypeOK
  <1>4. HotspotTypeOK'
    BY <1>1, <1>2, <1>3 DEF HotspotTypeOK
  <1>5. OnePerDevice'
    BY <1>1, <1>2 DEF OnePerDevice, Holds, Active
  <1>6. Exchanges'
    <2>1. ASSUME NEW n \in Macs, NEW a \in Addresses, Granted(n, a), Relies(n, a)
          PROVE  lease'[a] = lease[a]
      BY <1>2, <2>1 DEF Granted, LeaseEnds
    <2> QED
      BY <1>1, <2>1, AgreesKept DEF Exchanges
  <1> QED
    BY <1>4, <1>5, <1>6

\* The poll takes leases and slots from devices that have left only.
LEMMA UpdateClientsInv ==
    ASSUME Agreement, UpdateClients
    PROVE  Agreement'
  <1> USE DEF Agreement
  <1> DEFINE kept == [s \in Slots |->
                         IF device[s] \in Present THEN device[s] ELSE Nobody]
             gone == Seated(device) \ Present
  <1>1. /\ device' \in Placements(kept)
        /\ lease' = [a \in Addresses |->
                        IF lease[a].mac \in gone THEN Unused ELSE lease[a]]
        /\ UNCHANGED <<ready, station, sent, reply, moves, mishaps>>
        /\ lease \in [Addresses -> Leases]
    BY DEF UpdateClients, HotspotTypeOK
  <1>2. /\ device' \in [Slots -> Macs \cup {Nobody}]
        /\ \A s, t \in Slots : device'[s] = device'[t] => s = t \/ device'[s] = Nobody
    BY <1>1 DEF Placements
  <1>3. lease' \in [Addresses -> Leases]
    BY <1>1, WholeReplies
  <1>4. HotspotTypeOK'
    BY <1>1, <1>2, <1>3 DEF HotspotTypeOK
  <1>5. \A n \in Macs, a \in Addresses : Holds(n, a)' => Holds(n, a)
    BY <1>1, HotspotAssumption DEF Holds, Active, Unused
  <1>6. OnePerDevice'
    BY <1>2, <1>5 DEF OnePerDevice
  <1>7. Exchanges'
    <2>1. ASSUME NEW n \in Macs, NEW a \in Addresses, Granted(n, a), Relies(n, a)
          PROVE  lease'[a] = lease[a]
      <3>1. n \in Present /\ lease[a].mac = n
        BY <2>1 DEF Granted, Relies, Present
      <3> QED
        BY <1>1, <3>1
    <2> QED
      BY <1>1, <2>1, AgreesKept DEF Exchanges
  <1> QED
    BY <1>4, <1>6, <1>7

\* The hotspot starts, and stops with every device, packet and lease.
LEMMA StartStopInv ==
    ASSUME Agreement, Start \/ Stop
    PROVE  Agreement'
  <1> USE DEF Agreement
  <1>1. CASE Start
    <2>1. UNCHANGED <<lease, device, station, sent, reply, moves, mishaps>>
          /\ ready' \in BOOLEAN
      BY <1>1 DEF Start
    <2>2. HotspotTypeOK' /\ OnePerDevice'
      BY <2>1 DEF HotspotTypeOK, OnePerDevice, Holds, Active
    <2>3. Exchanges'
      BY <2>1, AgreesKept DEF Exchanges
    <2> QED
      BY <2>2, <2>3
  <1>2. CASE Stop
    <2>1. /\ lease' = [a \in Addresses |-> Unused]
          /\ device' = [s \in Slots |-> Nobody]
          /\ station' = [m \in Macs |-> [station[m] EXCEPT !.state = "away"]]
          /\ sent' = [m \in Macs |-> <<>>] /\ reply' = [m \in Macs |-> NoReply]
          /\ ready' \in BOOLEAN /\ moves' = moves /\ Mishap
      BY <1>2 DEF Stop
    <2>2. /\ station' \in [Macs -> Stations]
          /\ \A m \in Macs : station'[m].state = "away"
      BY <2>1 DEF HotspotTypeOK, Stations
    <2>3. sent' \in [Macs -> Seq(Packets)] /\ \A m \in Macs : Len(sent'[m]) <= MaxQueue
      BY <2>1, HotspotAssumption, EmptySeq
    <2>4. /\ lease' \in [Addresses -> Leases] /\ reply' \in [Macs -> Replies]
          /\ device' \in [Slots -> Macs \cup {Nobody}]
      BY <2>1, WholeReplies
    <2>5. HotspotTypeOK'
      BY <2>1, <2>2, <2>3, <2>4, MishapBound DEF HotspotTypeOK
    <2>6. OnePerDevice'
      BY <2>1 DEF OnePerDevice, Holds, Active, Unused
    <2>7. Exchanges'
      BY <2>2 DEF Exchanges, Agrees
    <2> QED
      BY <2>5, <2>6, <2>7
  <1> QED
    BY <1>1, <1>2

-----------------------------------------------------------------------------
(* The devices.                                                            *)

\* Devices leave the server's tables alone; a step of one of them concerns no
\* other device.
LEMMA DeviceStep ==
    ASSUME Agreement, NEW m \in Macs, UNCHANGED server,
           NEW place \in Stations, station' = [station EXCEPT ![m] = place],
           NEW queue \in Seq(Packets), Len(queue) <= MaxQueue,
           sent' = [sent EXCEPT ![m] = queue],
           NEW answer \in Replies, reply' = [reply EXCEPT ![m] = answer],
           moves' \in 0 .. MaxMoves, mishaps' \in 0 .. MaxMishaps,
           Agrees(m)'
    PROVE  Agreement'
  <1> USE DEF Agreement
  <1>1. UNCHANGED <<ready, lease, device>>
    BY DEF server
  <1>2. /\ station' \in [Macs -> Stations] /\ sent' \in [Macs -> Seq(Packets)]
        /\ reply' \in [Macs -> Replies]
        /\ \A n \in Macs : Len(sent'[n]) <= MaxQueue
    BY DEF HotspotTypeOK
  <1>3. HotspotTypeOK'
    BY <1>1, <1>2 DEF HotspotTypeOK
  <1>4. OnePerDevice'
    BY <1>1 DEF OnePerDevice, Holds, Active
  <1>5. ASSUME NEW n \in Macs, n # m PROVE Agrees(n)'
    <2>1. /\ sent'[n] = sent[n] /\ reply'[n] = reply[n] /\ station'[n] = station[n]
      BY <1>5 DEF HotspotTypeOK
    <2> QED
      BY <1>1, <2>1, AgreesKept DEF Exchanges
  <1>6. Exchanges'
    BY <1>5 DEF Exchanges
  <1> QED
    BY <1>3, <1>4, <1>6

\* A packet of the current transaction is sent.
LEMMA Sending ==
    ASSUME HotspotTypeOK, NEW m \in Macs, NEW packet \in Packets, Send(m, packet)
    PROVE  LET queue == Append(sent[m], packet)
               last == Len(sent[m]) + 1
           IN  /\ queue \in Seq(Packets) /\ Len(queue) <= MaxQueue
               /\ sent' = [sent EXCEPT ![m] = queue] /\ sent'[m] = queue
               /\ DOMAIN queue = DOMAIN sent[m] \cup {last}
               /\ queue[last] = packet
               /\ \A i \in DOMAIN sent[m] :
                     i \in Nat /\ i < last /\ queue[i] = sent[m][i]
  <1>1. sent[m] \in Seq(Packets) /\ sent \in [Macs -> Seq(Packets)]
    BY DEF HotspotTypeOK
  <1>2. Len(sent[m]) \in Nat /\ MaxQueue \in Nat /\ Len(sent[m]) < MaxQueue
    BY <1>1, HotspotAssumption, LenProperties DEF Send
  <1>3. sent' = [sent EXCEPT ![m] = Append(sent[m], packet)]
    BY DEF Send
  <1> QED
    BY <1>1, <1>2, <1>3, QueueGrows

\* A packet of a new transaction is sent: the others are out of date.
LEMMA Beginning ==
    ASSUME HotspotTypeOK, NEW m \in Macs, NEW packet \in Packets, Begin(m, packet)
    PROVE  LET queue == Append(Outdated(sent[m]), packet)
               last == Len(sent[m]) + 1
           IN  /\ queue \in Seq(Packets) /\ Len(queue) <= MaxQueue
               /\ sent' = [sent EXCEPT ![m] = queue] /\ sent'[m] = queue
               /\ reply' = [reply EXCEPT ![m] = NoReply] /\ reply'[m] = NoReply
               /\ DOMAIN queue = DOMAIN sent[m] \cup {last}
               /\ queue[last] = packet
               /\ \A i \in DOMAIN sent[m] :
                     /\ i \in Nat /\ i < last /\ ~queue[i].current
                     /\ queue[i].type = sent[m][i].type
                     /\ queue[i].address = sent[m][i].address
  <1> DEFINE old == Outdated(sent[m])
  <1>1. sent[m] \in Seq(Packets) /\ sent \in [Macs -> Seq(Packets)]
        /\ reply \in [Macs -> Replies]
    BY DEF HotspotTypeOK
  <1>2. Len(sent[m]) \in Nat /\ MaxQueue \in Nat /\ Len(sent[m]) < MaxQueue
    BY <1>1, HotspotAssumption, LenProperties DEF Begin
  <1>3. sent' = [sent EXCEPT ![m] = Append(old, packet)]
        /\ reply' = [reply EXCEPT ![m] = NoReply]
    BY DEF Begin
  <1>4. /\ old \in Seq(Packets) /\ Len(old) = Len(sent[m])
        /\ DOMAIN old = DOMAIN sent[m]
        /\ \A i \in DOMAIN sent[m] : old[i] = [sent[m][i] EXCEPT !.current = FALSE]
    BY <1>1, QueueOutdated
  <1>5. \A i \in DOMAIN sent[m] : sent[m][i] \in Packets
    BY <1>1
  <1>6. \A i \in DOMAIN sent[m] : /\ ~old[i].current
                                  /\ old[i].type = sent[m][i].type
                                  /\ old[i].address = sent[m][i].address
    <2> DEFINE out(p) == [p EXCEPT !.current = FALSE]
    <2>1. \A p \in Packets : /\ ~out(p).current /\ out(p).type = p.type
                             /\ out(p).address = p.address
      BY DEF Packets
    <2>2. \A i \in DOMAIN sent[m] : old[i] = out(sent[m][i])
      BY <1>4
    <2> HIDE DEF old, out
    <2> QED
      BY <1>5, <2>1, <2>2
  <1> HIDE DEF old
  <1>7. LET queue == Append(old, packet)
            last == Len(sent[m]) + 1
        IN  /\ queue \in Seq(Packets) /\ Len(queue) <= MaxQueue
            /\ DOMAIN queue = DOMAIN sent[m] \cup {last} /\ queue[last] = packet
            /\ \A i \in DOMAIN sent[m] :
                  i \in Nat /\ i < last /\ queue[i] = old[i]
    BY <1>2, <1>4, QueueGrows
  <1>8. sent'[m] = Append(old, packet) /\ reply'[m] = NoReply
    BY <1>1, <1>3
  <1> QED
    BY <1>3, <1>6, <1>7, <1>8 DEF old

\* What a device believes, sends and is told has its type.
LEMMA DeviceValues ==
    ASSUME HotspotTypeOK, NEW m \in Macs
    PROVE  /\ station[m] \in Stations /\ station[m].address \in Addresses \cup {None}
           /\ sent[m] \in Seq(Packets) /\ Len(sent[m]) <= MaxQueue
           /\ sent = [sent EXCEPT ![m] = sent[m]]
           /\ reply[m] \in Replies /\ reply = [reply EXCEPT ![m] = reply[m]]
           /\ station = [station EXCEPT ![m] = station[m]]
           /\ \A a \in Addresses \cup {None}, type \in {"DISCOVER", "REQUEST",
                                                       "RELEASE", "DECLINE"} :
                 Packet(type, a) \in Packets
           /\ \A a \in Addresses \cup {None}, state \in
                 {"away", "init", "selecting", "requesting", "bound"} :
                 [state |-> state, address |-> a] \in Stations
           /\ NoReply \in Replies
           /\ moves \in 0 .. MaxMoves /\ mishaps \in 0 .. MaxMishaps
  BY WholeReplies DEF HotspotTypeOK, Stations, Packets, Packet

\* A device that comes or goes, or gives up an exchange or its address, has no
\* claim on a lease.
LEMMA IdleInv ==
    ASSUME Agreement, NEW m \in Macs,
           Join(m) \/ Leave(m) \/ Retry(m) \/ GiveUp(m)
    PROVE  Agreement'
  <1> USE DeviceValues DEF Agreement, Become
  <1>0. station \in [Macs -> Stations]
    BY DEF HotspotTypeOK
  <1>1. CASE Join(m)
    <2> DEFINE place == [state |-> "init", address |-> station[m].address]
    <2>1. /\ UNCHANGED server /\ sent' = sent /\ reply' = reply
          /\ station' = [station EXCEPT ![m] = place]
          /\ moves < MaxMoves /\ moves' = moves + 1 /\ mishaps' = mishaps
      BY <1>1 DEF Join
    <2>2. place \in Stations
      OBVIOUS
    <2>4. moves' \in 0 .. MaxMoves
      BY <2>1, HotspotAssumption DEF HotspotTypeOK
    <2>3. Agrees(m)'
      BY <1>0, <2>1 DEF Agrees
    <2> HIDE DEF place
    <2> QED
      BY <2>1, <2>2, <2>3, <2>4, DeviceStep
  <1>2. CASE Leave(m)
    <2> DEFINE place == [state |-> "away", address |-> station[m].address]
    <2>1. /\ UNCHANGED server /\ sent' = sent
          /\ reply' = [reply EXCEPT ![m] = NoReply]
          /\ station' = [station EXCEPT ![m] = place]
          /\ moves' = moves /\ mishaps' = mishaps
      BY <1>2 DEF Leave
    <2>2. place \in Stations
      OBVIOUS
    <2>3. Agrees(m)'
      BY <1>0, <2>1 DEF Agrees
    <2> HIDE DEF place
    <2> QED
      BY <2>1, <2>2, <2>3, DeviceStep
  <1>3. CASE Retry(m)
    <2> DEFINE place == [state |-> "init", address |-> None]
    <2>1. /\ UNCHANGED server /\ sent' = sent /\ reply' = reply
          /\ station' = [station EXCEPT ![m] = place]
          /\ moves' = moves /\ mishaps' = mishaps
      BY <1>3 DEF Retry
    <2>2. place \in Stations
      OBVIOUS
    <2>3. Agrees(m)'
      BY <1>0, <2>1 DEF Agrees
    <2> HIDE DEF place
    <2> QED
      BY <2>1, <2>2, <2>3, DeviceStep
  <1>4. CASE GiveUp(m)
    <2> DEFINE place == [state |-> "init", address |-> None]
    <2>1. PICK type \in {"RELEASE", "DECLINE"} : Send(m, Packet(type, None))
      BY <1>4 DEF GiveUp
    <2>2. /\ UNCHANGED server /\ reply' = reply /\ Mishap
          /\ station' = [station EXCEPT ![m] = place] /\ moves' = moves
      BY <1>4 DEF GiveUp
    <2>3. place \in Stations /\ mishaps' \in 0 .. MaxMishaps
      BY <2>2, MishapBound
    <2>4. /\ Append(sent[m], Packet(type, None)) \in Seq(Packets)
          /\ Len(Append(sent[m], Packet(type, None))) <= MaxQueue
          /\ sent' = [sent EXCEPT ![m] = Append(sent[m], Packet(type, None))]
      BY <2>1, Sending
    <2>5. Agrees(m)'
      BY <1>0, <2>2 DEF Agrees
    <2> HIDE DEF place
    <2> QED
      BY <2>2, <2>3, <2>4, <2>5, DeviceStep
  <1> QED
    BY <1>1, <1>2, <1>3, <1>4

\* A device that asks begins a transaction of one packet.
LEMMA AskInv ==
    ASSUME Agreement, NEW m \in Macs, Ask(m)
    PROVE  Agreement'
  <1> USE DEF Agreement, Become
  <1>0. station \in [Macs -> Stations]
    BY DEF HotspotTypeOK
  <1>1. /\ UNCHANGED server /\ moves' = moves /\ mishaps' = mishaps
    BY DEF Ask
  <1>2. CASE /\ station[m].address # None
             /\ Begin(m, Packet("REQUEST", station[m].address))
             /\ Become(m, "requesting", station[m].address)
    <2> DEFINE a == station[m].address
               packet == Packet("REQUEST", a)
               place == [state |-> "requesting", address |-> a]
               queue == Append(Outdated(sent[m]), packet)
    <2>1. place \in Stations /\ packet \in Packets /\ a # None
      BY <1>2, DeviceValues
    <2>0. Begin(m, packet) /\ Asks(packet, a)
      BY <1>2 DEF Asks, Packet
    <2> HIDE DEF packet
    <2>2. /\ queue \in Seq(Packets) /\ Len(queue) <= MaxQueue
          /\ sent' = [sent EXCEPT ![m] = queue] /\ sent'[m] = queue
          /\ reply' = [reply EXCEPT ![m] = NoReply] /\ reply'[m] = NoReply
          /\ DOMAIN queue = DOMAIN sent[m] \cup {Len(sent[m]) + 1}
          /\ queue[Len(sent[m]) + 1] = packet
          /\ \A i \in DOMAIN sent[m] :
                i \in Nat /\ i < Len(sent[m]) + 1 /\ ~queue[i].current
      BY <2>0, <2>1, Beginning
    <2>3. station' = [station EXCEPT ![m] = place] /\ station'[m] = place
      BY <1>0, <1>2
    <2>4. Len(sent[m]) \in Nat
      BY DeviceValues, LenProperties
    <2>5. NoReply # Reply("ACK", a)
      BY DEF NoReply, Reply
    <2> HIDE DEF queue, place
    <2>6. ASSUME NEW i \in DOMAIN queue, NEW j \in DOMAIN queue,
                 queue[i].current, i <= j
          PROVE  Asks(queue[j], a)
      <3>1. i = Len(sent[m]) + 1
        BY <2>2, <2>6
      <3>2. j = Len(sent[m]) + 1
        BY <2>2, <2>4, <2>6, <3>1
      <3> QED
        BY <2>0, <2>2, <3>2
    <2>7. station'[m].state = "requesting" /\ station'[m].address = a
      BY <2>3 DEF place
    <2>8. Agrees(m)'
      BY <2>1, <2>2, <2>5, <2>6, <2>7 DEF Agrees, Asks, Reply
    <2> QED
      BY <1>1, <2>1, <2>2, <2>3, <2>8, DeviceStep, DeviceValues
  <1>3. CASE /\ Begin(m, Packet("DISCOVER", station[m].address))
             /\ Become(m, "selecting", None)
    <2> DEFINE packet == Packet("DISCOVER", station[m].address)
               place == [state |-> "selecting", address |-> None]
               queue == Append(Outdated(sent[m]), packet)
    <2>1. place \in Stations /\ packet \in Packets
      BY DeviceValues
    <2>0. Begin(m, packet) /\ packet.type = "DISCOVER"
      BY <1>3 DEF Packet
    <2> HIDE DEF packet
    <2>2. /\ queue \in Seq(Packets) /\ Len(queue) <= MaxQueue
          /\ sent' = [sent EXCEPT ![m] = queue] /\ sent'[m] = queue
          /\ reply' = [reply EXCEPT ![m] = NoReply] /\ reply'[m] = NoReply
          /\ DOMAIN queue = DOMAIN sent[m] \cup {Len(sent[m]) + 1}
          /\ queue[Len(sent[m]) + 1] = packet
          /\ \A i \in DOMAIN sent[m] : ~queue[i].current
      BY <2>0, <2>1, Beginning
    <2>3. station' = [station EXCEPT ![m] = place] /\ station'[m] = place
      BY <1>0, <1>3
    <2>4. NoReply.type = "none"
      BY DEF NoReply, Reply
    <2>5. station'[m].state = "selecting"
      BY <2>3
    <2> HIDE DEF queue, place
    <2>6. Agrees(m)'
      BY <2>0, <2>2, <2>4, <2>5 DEF Agrees
    <2> QED
      BY <1>1, <2>1, <2>2, <2>3, <2>6, DeviceStep, DeviceValues
  <1> QED
    BY <1>2, <1>3 DEF Ask

\* What is repeated belongs to the exchange: a discovery while the device
\* selects, the same request while it requests.
LEMMA RepeatInv ==
    ASSUME Agreement, NEW m \in Macs, Repeat(m)
    PROVE  Agreement'
  <1> USE DEF Agreement
  <1>1. /\ UNCHANGED server /\ station' = station /\ reply' = reply
        /\ moves' = moves /\ mishaps' \in 0 .. MaxMishaps
    BY MishapBound DEF Repeat
  <1> DEFINE a == station[m].address
             packet == IF station[m].state = "selecting"
                       THEN Packet("DISCOVER", None) ELSE Packet("REQUEST", a)
             queue == Append(sent[m], packet)
             last == Len(sent[m]) + 1
  <1>2. packet \in Packets
    BY DeviceValues
  <1>3. /\ queue \in Seq(Packets) /\ Len(queue) <= MaxQueue
        /\ sent' = [sent EXCEPT ![m] = queue] /\ sent'[m] = queue
        /\ DOMAIN queue = DOMAIN sent[m] \cup {last} /\ queue[last] = packet
        /\ \A i \in DOMAIN sent[m] :
              i \in Nat /\ i < last /\ queue[i] = sent[m][i]
    <2>1. Send(m, packet)
      BY DEF Repeat
    <2> QED
      BY <1>2, <2>1, Sending
  <1>4. last \in Nat
    BY DeviceValues, LenProperties
  <1>5. Agrees(m) /\ station[m].state \in {"selecting", "requesting"}
    BY DEF Exchanges, Repeat
  <1>6. CASE station[m].state = "selecting"
    <2>1. packet.type = "DISCOVER"
      BY <1>6 DEF Packet
    <2> HIDE DEF queue, packet, last
    <2>2. \A i \in DOMAIN sent'[m] :
             sent'[m][i].current => sent'[m][i].type = "DISCOVER"
      BY <1>3, <1>5, <1>6, <2>1 DEF Agrees
    <2>3. Agrees(m)'
      BY <1>1, <1>5, <1>6, <2>2 DEF Agrees
    <2> QED
      BY <1>1, <1>2, <1>3, <2>3, DeviceStep, DeviceValues
  <1>7. CASE station[m].state = "requesting"
    <2>1. Asks(packet, a)
      BY <1>7 DEF Packet, Asks
    <2> HIDE DEF queue, packet, last
    <2>2. ASSUME Granted(m, a)
          PROVE  Granted(m, a)'
      BY <1>1, <1>3, <2>1, <2>2 DEF Granted, server, Asks
    <2>3. ASSUME NEW i \in DOMAIN queue, NEW j \in DOMAIN queue,
                 queue[i].current, queue[i].type = "REQUEST", i <= j
          PROVE  Asks(queue[j], a)
      <3>1. CASE j = last
        BY <1>3, <2>1, <3>1
      <3>2. CASE j # last
        <4>1. i \in DOMAIN sent[m] /\ j \in DOMAIN sent[m]
          BY <1>3, <1>4, <2>3, <3>2
        <4> QED
          BY <1>3, <1>5, <1>7, <2>3, <4>1 DEF Agrees
      <3> QED
        BY <3>1, <3>2
    <2>4. Agrees(m)'
      BY <1>1, <1>3, <1>5, <1>7, <2>2, <2>3 DEF Agrees, Asks, Reply
    <2> QED
      BY <1>1, <1>2, <1>3, <2>4, DeviceStep, DeviceValues
  <1> QED
    BY <1>5, <1>6, <1>7

\* A renewal asks for the address the device has.
LEMMA RenewInv ==
    ASSUME Agreement, NEW m \in Macs, Renew(m)
    PROVE  Agreement'
  <1> USE DEF Agreement
  <1> DEFINE a == station[m].address
             packet == Packet("REQUEST", a)
             queue == Append(Outdated(sent[m]), packet)
             last == Len(sent[m]) + 1
  <1>1. /\ UNCHANGED server /\ station' = station /\ Begin(m, packet)
        /\ moves' = moves /\ mishaps' \in 0 .. MaxMishaps
        /\ station[m].state = "bound"
    BY MishapBound DEF Renew
  <1>2. packet \in Packets /\ Asks(packet, a)
    BY DeviceValues DEF Packet, Asks
  <1> HIDE DEF packet
  <1>3. /\ queue \in Seq(Packets) /\ Len(queue) <= MaxQueue
        /\ sent' = [sent EXCEPT ![m] = queue] /\ sent'[m] = queue
        /\ reply' = [reply EXCEPT ![m] = NoReply] /\ reply'[m] = NoReply
        /\ DOMAIN queue = DOMAIN sent[m] \cup {last}
        /\ queue[last] = packet
        /\ \A i \in DOMAIN sent[m] :
              /\ i \in Nat /\ i < last /\ ~queue[i].current
              /\ queue[i].type = sent[m][i].type
              /\ queue[i].address = sent[m][i].address
    BY <1>1, <1>2, Beginning
  <1>4. a # None /\ Granted(m, a)
    BY <1>1 DEF Exchanges, Agrees
  <1> HIDE DEF queue, packet, last
  <1>5. \A i \in DOMAIN queue : Asks(queue[i], a)
    BY <1>2, <1>3, <1>4 DEF Granted, Asks
  <1>6. Granted(m, a)'
    BY <1>1, <1>3, <1>4, <1>5 DEF Granted, server, Asks
  <1>7. Agrees(m)'
    BY <1>1, <1>4, <1>6 DEF Agrees
  <1> QED
    BY <1>1, <1>3, <1>7, DeviceStep, DeviceValues

\* A lost packet or reply leaves fewer to handle.
LEMMA LosePacketInv ==
    ASSUME Agreement, NEW m \in Macs, LosePacket(m)
    PROVE  Agreement'
  <1> USE DEF Agreement
  <1>1. /\ UNCHANGED server /\ station' = station
        /\ moves' = moves /\ mishaps' \in 0 .. MaxMishaps
    BY MishapBound DEF LosePacket
  <1>2. CASE /\ sent[m] # <<>> /\ sent' = [sent EXCEPT ![m] = Tail(@)]
             /\ reply' = reply
    <2>1. /\ Tail(sent[m]) \in Seq(Packets) /\ Len(Tail(sent[m])) <= MaxQueue
      <3>1. /\ Tail(sent[m]) \in Seq(Packets) /\ Len(Tail(sent[m])) <= Len(sent[m])
            /\ sent[m] \in Seq(Packets) /\ Len(sent[m]) <= MaxQueue
        BY <1>2, DeviceValues, QueueShrinks
      <3>2. Len(Tail(sent[m])) \in Nat /\ Len(sent[m]) \in Nat /\ MaxQueue \in Nat
        BY <3>1, LenProperties, HotspotAssumption
      <3> QED
        BY <3>1, <3>2
    <2>2. sent' = [sent EXCEPT ![m] = Tail(sent[m])] /\ sent'[m] = Tail(sent[m])
      BY <1>2 DEF HotspotTypeOK
    <2>3. Agrees(m)'
      BY <1>1, <1>2, <2>2, AgreesKept DEF Exchanges, server
    <2> QED
      BY <1>1, <1>2, <2>1, <2>2, <2>3, DeviceStep, DeviceValues
  <1>3. CASE reply' = [reply EXCEPT ![m] = NoReply] /\ sent' = sent
    <2>1. reply'[m] = NoReply /\ NoReply.type = "none"
      BY <1>3 DEF HotspotTypeOK, NoReply, Reply
    <2>2. Agrees(m)'
      BY <1>1, <1>3, <2>1, AgreesKept DEF Exchanges, server
    <2> QED
      BY <1>1, <1>3, <2>2, DeviceStep, DeviceValues
  <1> QED
    BY <1>2, <1>3 DEF LosePacket

\* What a device reads turns an offer into a request, and a grant into an
\* address it uses.
LEMMA ReadInv ==
    ASSUME Agreement, NEW m \in Macs, Read(m)
    PROVE  Agreement'
  <1> USE DEF Agreement
  <1>0. station \in [Macs -> Stations]
    BY DEF HotspotTypeOK
  <1>1. /\ UNCHANGED server /\ moves' = moves /\ mishaps' = mishaps
        /\ reply' = [reply EXCEPT ![m] = NoReply]
    BY DEF Read
  <1>2. reply'[m] = NoReply /\ NoReply.type = "none" /\ Agrees(m)
    BY <1>1 DEF HotspotTypeOK, NoReply, Reply, Exchanges
  <1>3. CASE reply[m].type = "OFFER" /\ station[m].state = "selecting"
    <2> DEFINE a == reply[m].address
               packet == Packet("REQUEST", a)
               place == [state |-> "requesting", address |-> a]
               queue == Append(sent[m], packet)
               last == Len(sent[m]) + 1
    <2>1. a \in Addresses /\ a # None
      BY <1>3, DeviceValues, PoolAddresses DEF Replies
    <2>2. packet \in Packets /\ place \in Stations /\ Asks(packet, a)
      BY <2>1, DeviceValues DEF Packet, Asks
    <2>3. Send(m, packet) /\ Become(m, "requesting", a)
      BY <1>3 DEF Read
    <2>4. /\ queue \in Seq(Packets) /\ Len(queue) <= MaxQueue
          /\ sent' = [sent EXCEPT ![m] = queue] /\ sent'[m] = queue
          /\ DOMAIN queue = DOMAIN sent[m] \cup {last} /\ queue[last] = packet
          /\ \A i \in DOMAIN sent[m] :
                i \in Nat /\ i < last /\ queue[i] = sent[m][i]
      BY <2>2, <2>3, Sending
    <2>5. station' = [station EXCEPT ![m] = place] /\ station'[m] = place
      BY <1>0, <2>3 DEF Become
    <2>6. last \in Nat
      BY DeviceValues, LenProperties
    <2>7. station'[m].state = "requesting" /\ station'[m].address = a
      BY <2>5
    <2> HIDE DEF queue, packet, place, last
    <2>8. ASSUME NEW i \in DOMAIN queue, NEW j \in DOMAIN queue,
                 queue[i].current, queue[i].type = "REQUEST", i <= j
          PROVE  Asks(queue[j], a)
      <3>1. i = last
        BY <1>2, <1>3, <2>4, <2>8 DEF Agrees
      <3>2. j = last
        BY <2>4, <2>6, <2>8, <3>1
      <3> QED
        BY <2>2, <2>4, <3>2
    <2>9. NoReply # Reply("ACK", a)
      BY DEF NoReply, Reply
    <2>10. Agrees(m)'
      BY <1>2, <2>1, <2>4, <2>7, <2>8, <2>9 DEF Agrees, Asks, Reply
    <2> QED
      BY <1>1, <2>2, <2>4, <2>5, <2>10, DeviceStep, DeviceValues
  <1>4. CASE /\ reply[m].type = "ACK" /\ station[m].state = "requesting"
             /\ reply[m].address = station[m].address
    <2> DEFINE a == station[m].address
               place == [state |-> "bound", address |-> a]
    <2>1. Become(m, "bound", a) /\ sent' = sent
      BY <1>4 DEF Read
    <2>2. station' = [station EXCEPT ![m] = place] /\ station'[m] = place
          /\ place \in Stations
      BY <1>0, <2>1, DeviceValues DEF Become
    <2>3. reply[m] = Reply("ACK", a)
      BY <1>4, DeviceValues DEF Replies, Reply
    <2>4. a # None /\ Granted(m, a)
      BY <1>2, <1>4, <2>3 DEF Agrees
    <2>5. station'[m].state = "bound" /\ station'[m].address = a
      BY <2>2
    <2>6. Granted(m, a)'
      BY <1>1, <2>1, <2>4, <2>5 DEF Granted, server, Asks
    <2> HIDE DEF place
    <2>7. Agrees(m)'
      BY <2>4, <2>5, <2>6 DEF Agrees
    <2> QED
      BY <1>1, <2>1, <2>2, <2>7, DeviceStep, DeviceValues
  <1>5. CASE reply[m].type = "NAK" /\ station[m].state \in {"requesting", "bound"}
    <2> DEFINE place == [state |-> "init", address |-> None]
    <2>1. Become(m, "init", None) /\ sent' = sent
      BY <1>5 DEF Read
    <2>2. station' = [station EXCEPT ![m] = place] /\ station'[m] = place
          /\ place \in Stations
      BY <1>0, <2>1, DeviceValues DEF Become
    <2>3. Agrees(m)'
      BY <2>2 DEF Agrees
    <2> HIDE DEF place
    <2> QED
      BY <1>1, <2>1, <2>2, <2>3, DeviceStep, DeviceValues
  <1>6. CASE UNCHANGED <<station, sent>>
    <2>1. Agrees(m)'
      BY <1>1, <1>2, <1>6, AgreesKept DEF server
    <2> QED
      BY <1>1, <1>6, <2>1, DeviceStep, DeviceValues
  <1> QED
    BY <1>3, <1>4, <1>5, <1>6 DEF Read

-----------------------------------------------------------------------------
(* The hotspot.                                                            *)

\* Before the start nobody has anything.
LEMMA HotspotInitInv == HotspotInit => Agreement
  <1> SUFFICES ASSUME HotspotInit PROVE Agreement
    OBVIOUS
  <1> USE DEF HotspotInit
  <1>1. /\ lease \in [Addresses -> Leases] /\ reply \in [Macs -> Replies]
        /\ device \in [Slots -> Macs \cup {Nobody}] /\ ready \in BOOLEAN
    BY WholeReplies
  <1>2. station \in [Macs -> Stations] /\ \A m \in Macs : station[m].state = "away"
    BY DEF Stations
  <1>3. sent \in [Macs -> Seq(Packets)] /\ \A m \in Macs : Len(sent[m]) <= MaxQueue
    BY HotspotAssumption, EmptySeq
  <1>4. moves \in 0 .. MaxMoves /\ mishaps \in 0 .. MaxMishaps
    BY HotspotAssumption
  <1>5. HotspotTypeOK
    BY <1>1, <1>2, <1>3, <1>4 DEF HotspotTypeOK
  <1>6. OnePerDevice
    BY DEF OnePerDevice, Holds, Active, Unused
  <1>7. Exchanges
    BY <1>2 DEF Exchanges, Agrees
  <1> QED
    BY <1>5, <1>6, <1>7 DEF Agreement

LEMMA HotspotNextInv == Agreement /\ [HotspotNext]_hotspotVars => Agreement'
  <1> SUFFICES ASSUME Agreement, [HotspotNext]_hotspotVars
               PROVE  Agreement'
    OBVIOUS
  <1>1. CASE Start \/ Stop
    BY <1>1, StartStopInv
  <1>2. CASE UpdateClients
    BY <1>2, UpdateClientsInv
  <1>3. CASE \E a \in Addresses : LeaseEnds(a)
    BY <1>3, LeaseEndsInv
  <1>4. ASSUME NEW m \in Macs,
               \/ Exchange(m) \/ Join(m) \/ Leave(m)
               \/ Repeat(m) \/ Renew(m) \/ GiveUp(m) \/ LosePacket(m)
        PROVE  Agreement'
    BY <1>4, HandlePacketInv, ReadInv, AskInv, IdleInv, RepeatInv, RenewInv,
       LosePacketInv DEF Exchange
  <1>5. CASE UNCHANGED hotspotVars
    <2>1. UNCHANGED <<ready, lease, device, station, sent, reply, moves, mishaps>>
      BY <1>5 DEF hotspotVars
    <2>2. HotspotTypeOK' /\ OnePerDevice'
      BY <2>1 DEF Agreement, HotspotTypeOK, OnePerDevice, Holds, Active
    <2>3. Exchanges'
      BY <2>1, AgreesKept DEF Agreement, Exchanges
    <2> QED
      BY <2>2, <2>3 DEF Agreement
  <1> QED
    BY <1>1, <1>2, <1>3, <1>4, <1>5 DEF HotspotNext

\* No two devices of the hotspot ever use one address, and each has one lease
\* and one indicator at most: for every number of devices, addresses, packets
\* in flight, losses and restarts (HandlePacket, FindLease, UpdateClients).
THEOREM HotspotInvHolds == HotspotSpec => []HotspotInv
  <1>1. Agreement => HotspotInv
    BY AgreesOwns DEF Agreement, HotspotInv
  <1> QED
    BY <1>1, HotspotInitInv, HotspotNextInv, PTL DEF HotspotSpec

\* Only a poll after a device has left, or the end of the hotspot, takes its
\* indicator away: a poll keeps the slots of the devices that are there.
THEOREM IndicatorStableHolds == HotspotSpec => IndicatorStable
  <1> DEFINE Kept == \A s \in Slots :
                         device[s] # Nobody /\ device'[s] # device[s] =>
                             station'[device[s]].state = "away"
  <1>1. Agreement /\ [HotspotNext]_hotspotVars => [Kept]_hotspotVars
    <2> SUFFICES ASSUME Agreement, HotspotNext
                 PROVE  Kept
      OBVIOUS
    <2>0. device \in [Slots -> Macs \cup {Nobody}]
      BY DEF Agreement, HotspotTypeOK
    <2>1. CASE UpdateClients
      <3> DEFINE kept == [s \in Slots |->
                             IF device[s] \in Present THEN device[s] ELSE Nobody]
      <3>1. station' = station /\ device' \in Placements(kept)
        BY <2>1 DEF UpdateClients
      <3>2. \A s \in Slots : kept[s] # Nobody => device'[s] = kept[s]
        BY <3>1 DEF Placements
      <3>3. \A s \in Slots : device[s] \in Present => kept[s] = device[s]
        OBVIOUS
      <3> HIDE DEF kept
      <3> QED
        BY <2>0, <3>1, <3>2, <3>3 DEF Present
    <2>2. CASE Stop
      <3>1. \A m \in Macs : station'[m].state = "away"
        BY <2>2 DEF Stop, Agreement, HotspotTypeOK, Stations
      <3> QED
        BY <2>0, <3>1
    <2>3. CASE device' = device
      BY <2>3
    <2>4. UpdateClients \/ Stop \/ device' = device
      BY DEF HotspotNext, Exchange, Start, LeaseEnds, HandlePacket, Read, Ask,
             Retry, Join, Leave, Repeat, Renew, GiveUp, LosePacket, server
    <2> QED
      BY <2>1, <2>2, <2>3, <2>4
  <1> HIDE DEF Kept
  <1>2. HotspotSpec => [][Kept]_hotspotVars
    BY <1>1, HotspotInitInv, HotspotNextInv, PTL DEF HotspotSpec
  <1> QED
    BY <1>2 DEF Kept, IndicatorStable
=============================================================================
