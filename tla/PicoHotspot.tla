---------------------------- MODULE PicoHotspot -----------------------------
(***************************************************************************)
(* The DHCP server and the device slots of PicoHotspot, together with the  *)
(* clients of the access point.                                            *)
(*                                                                         *)
(* A client is an ordinary DHCP client: it uses an address from the ACK    *)
(* that granted it until its own lease ends, it leaves or it gives the     *)
(* address up; after rejoining it asks for the address it had.  Packets of *)
(* one client arrive in the order they were sent; they may be lost, and    *)
(* they may be handled after the client has left.  A reply carries the     *)
(* transaction ID of the packet it answers, and the client drops it when   *)
(* it has begun another transaction since: a packet only says whether its  *)
(* transaction is still the client's current one.  The server's clock only *)
(* shows as "the lease has run out".                                       *)
(***************************************************************************)
EXTENDS Integers, Sequences, FiniteSets

CONSTANTS Macs,        \* devices that know the network
          Addresses,   \* WIFI_HOTSPOT_LEASE_COUNT pool addresses
          Slots,       \* WIFI_HOTSPOT_MAX_CLIENTS indicator slots
          MaxQueue,    \* BOUND: packets of a client waiting for the server
          MaxMoves,    \* BOUND: joins
          MaxMishaps,   \* BOUND: lost packets, late requests, restarts
          Nobody       \* model value: no device

ASSUME HotspotAssumption ==
    /\ IsFiniteSet(Addresses) /\ IsFiniteSet(Slots)
    /\ Addresses = 1 .. Cardinality(Addresses) /\ Slots = 1 .. Cardinality(Slots)
    /\ Cardinality(Slots) <= Cardinality(Addresses)
    /\ Nobody \notin Macs
    /\ MaxQueue \in Nat \ {0} /\ MaxMoves \in Nat /\ MaxMishaps \in Nat

VARIABLES
    ready,     \* server_: the hotspot accepts clients
    lease,     \* leases_: device and term of each pool address
    device,    \* devices_: the device of each indicator slot
    station,   \* what each device believes of itself
    sent,      \* packets on their way to the server, by device
    reply,     \* the server's last packet to a device, not yet read
    moves, mishaps

hotspotVars == <<ready, lease, device, station, sent, reply, moves, mishaps>>

None == 0
Unused == [mac |-> Nobody, term |-> "free"]
Packet(type, address) == [type |-> type, address |-> address, current |-> TRUE]
Reply(type, address) == [type |-> type, address |-> address]
NoReply == Reply("none", None)

HotspotInit ==
    /\ ready = FALSE
    /\ lease = [a \in Addresses |-> Unused]
    /\ device = [s \in Slots |-> Nobody]
    /\ station = [m \in Macs |-> [state |-> "away", address |-> None]]
    /\ sent = [m \in Macs |-> <<>>]
    /\ reply = [m \in Macs |-> NoReply]
    /\ moves = 0 /\ mishaps = 0

Mishap == mishaps < MaxMishaps /\ mishaps' = mishaps + 1
Present == {m \in Macs : station[m].state # "away"}
Using(m, a) == station[m] = [state |-> "bound", address |-> a]

\* An offered or granted lease that has not run out ("active" in FindLease).
\* A lease given back keeps its MAC until another device gets it.
Active(a) == lease[a].term \in {"offer", "bound"}

Holds(m, a) == Active(a) /\ lease[a].mac = m

Highest(set) == CHOOSE a \in set : \A b \in set : b <= a

\* MUTANT: the last address is never given.
FindLease_ShortPool(m, requested) ==
    IF \E a \in Addresses : Holds(m, a)
    THEN LET own == CHOOSE a \in Addresses : Holds(m, a)
         IN  IF requested \in {None, own} THEN own ELSE None
    ELSE LET available == {a \in Addresses : /\ ~Active(a)
                                            /\ requested \in {None, a}
                                            /\ a + 1 \in Addresses}
         IN  IF available = {} THEN None ELSE Highest(available)

\* MUTANT: a requested address is granted as it is.
FindLease_Requested(m, requested) ==
    IF requested # None THEN requested
    ELSE IF \E a \in Addresses : Holds(m, a)
    THEN CHOOSE a \in Addresses : Holds(m, a)
    ELSE LET available == {a \in Addresses : ~Active(a)}
         IN  IF available = {} THEN None ELSE Highest(available)

\* The device's active lease, if it is the requested one or none is requested;
\* otherwise the last inactive lease that fits.
FindLease(m, requested) ==
    IF \E a \in Addresses : Holds(m, a)
    THEN LET own == CHOOSE a \in Addresses : Holds(m, a)
         IN  IF requested \in {None, own} THEN own ELSE None
    ELSE LET available == {a \in Addresses : ~Active(a) /\ requested \in {None, a}}
         IN  IF available = {} THEN None ELSE Highest(available)

Grant(m, a, term) == lease' = [lease EXCEPT ![a] = [mac |-> m, term |-> term]]

\* "Preserves the transaction ID": a reply to a device that has left, or has
\* begun another transaction, reaches nobody.
SendReply(m, packet, type, a) ==
    reply' = [reply EXCEPT ![m] =
        IF m \in Present /\ packet.current THEN Reply(type, a) ELSE NoReply]

Discover(m, packet) ==
    LET wanted == FindLease(m, packet.address)
        found == IF wanted # None THEN wanted ELSE FindLease(m, None)
    IN  IF found = None
        THEN UNCHANGED <<lease, reply>>
        ELSE Grant(m, found, "offer") /\ SendReply(m, packet, "OFFER", found)

Request(m, packet) ==
    LET found == FindLease(m, packet.address)
    IN  IF found = None
        THEN SendReply(m, packet, "NAK", None) /\ UNCHANGED lease
        ELSE Grant(m, found, "bound") /\ SendReply(m, packet, "ACK", found)

Release(m) ==
    /\ lease' = [a \in Addresses |->
           IF lease[a].mac = m THEN [lease[a] EXCEPT !.term = "free"]
           ELSE lease[a]]
    /\ UNCHANGED reply

\* A declined address is kept from everybody for a while.
Decline(m) ==
    /\ lease' = [a \in Addresses |->
           IF lease[a].mac = m /\ lease[a].term # "free"
           THEN [mac |-> Nobody, term |-> "offer"] ELSE lease[a]]
    /\ UNCHANGED reply

HandlePacket(m) ==
    /\ ready /\ sent[m] # <<>>
    /\ LET packet == Head(sent[m])
       IN  CASE packet.type = "DISCOVER" -> Discover(m, packet)
             [] packet.type = "REQUEST" -> Request(m, packet)
             [] packet.type = "RELEASE" -> Release(m)
             [] packet.type = "DECLINE" -> Decline(m)
    /\ sent' = [sent EXCEPT ![m] = Tail(@)]
    /\ UNCHANGED <<ready, device, station, moves, mishaps>>

Waiting(m) == m \in Macs /\ station[m].state \in {"selecting", "requesting"}
Relies(m, a) ==
    m \in Macs /\ station[m].state \in {"requesting", "bound"} /\ station[m].address = a

\* The lease runs out.  A device counts its hour from the request and stops
\* using the address no later than the server; an offer of a minute outlives
\* an exchange that is not delayed.
LeaseEnds(a) ==
    /\ \/ /\ lease[a].term = "bound" /\ ~Relies(lease[a].mac, a)
          /\ UNCHANGED mishaps
       \/ /\ lease[a].term = "offer"
          /\ IF Waiting(lease[a].mac) THEN Mishap ELSE UNCHANGED mishaps
    /\ lease' = [lease EXCEPT ![a].term = "expired"]
    /\ UNCHANGED <<ready, device, station, sent, reply, moves>>

(***************************************************************************)
(* UpdateClients: one poll of the association list.  Devices that left     *)
(* lose their leases and slots; new ones take the first free slots, in the *)
(* order of the list.                                                      *)
(***************************************************************************)
Seated(table) == {table[s] : s \in Slots} \ {Nobody}

Newcomers(kept) == Present \ Seated(kept)

Placements(kept) ==
    {table \in [Slots -> Macs \cup {Nobody}] :
        /\ \A s \in Slots : kept[s] # Nobody => table[s] = kept[s]
        /\ Seated(table) = Seated(kept) \cup Newcomers(kept)
        /\ \A s, t \in Slots : table[s] = table[t] => s = t \/ table[s] = Nobody
        /\ \A s, t \in Slots :
             table[s] = Nobody /\ s < t => table[t] \in {Nobody, kept[t]}}

\* MUTANT: the indicators are dealt out anew in every poll.
UpdateClients_Compacts ==
    /\ ready
    /\ LET kept == [s \in Slots |-> Nobody]
           gone == Seated(device) \ Present
       IN  /\ device' \in Placements(kept)
           /\ lease' = [a \in Addresses |->
                  IF lease[a].mac \in gone THEN Unused ELSE lease[a]]
    /\ UNCHANGED <<ready, station, sent, reply, moves, mishaps>>

UpdateClients ==
    /\ ready
    /\ LET kept == [s \in Slots |->
                       IF device[s] \in Present THEN device[s] ELSE Nobody]
           gone == Seated(device) \ Present
       IN  /\ device' \in Placements(kept)
           /\ lease' = [a \in Addresses |->
                  IF lease[a].mac \in gone THEN Unused ELSE lease[a]]
    /\ UNCHANGED <<ready, station, sent, reply, moves, mishaps>>

Start ==
    /\ ~ready /\ ready' = TRUE
    /\ UNCHANGED <<lease, device, station, sent, reply, moves, mishaps>>

\* Stop, before the radio restarts: every client loses the network.
Stop ==
    /\ ready /\ ready' = FALSE /\ Mishap
    /\ lease' = [a \in Addresses |-> Unused]
    /\ device' = [s \in Slots |-> Nobody]
    /\ station' = [m \in Macs |-> [station[m] EXCEPT !.state = "away"]]
    /\ sent' = [m \in Macs |-> <<>>]
    /\ reply' = [m \in Macs |-> NoReply]
    /\ UNCHANGED moves

(***************************************************************************)
(* The clients and the air between.                                        *)
(***************************************************************************)
Send(m, packet) ==
    /\ Len(sent[m]) < MaxQueue
    /\ sent' = [sent EXCEPT ![m] = Append(@, packet)]

\* A new transaction: what is still on its way belongs to an older one.
Outdated(queue) == [i \in DOMAIN queue |-> [queue[i] EXCEPT !.current = FALSE]]
Begin(m, packet) ==
    /\ Len(sent[m]) < MaxQueue
    /\ sent' = [sent EXCEPT ![m] = Append(Outdated(@), packet)]
    /\ reply' = [reply EXCEPT ![m] = NoReply]

Become(m, state, a) ==
    station' = [station EXCEPT ![m] = [state |-> state, address |-> a]]
server == <<ready, lease, device>>

\* The radio admits no more devices than there are slots
\* (ConfigureClientLimit).
Join(m) ==
    /\ ready /\ station[m].state = "away" /\ moves < MaxMoves
    /\ Cardinality(Present) < Cardinality(Slots)
    /\ moves' = moves + 1
    /\ Become(m, "init", station[m].address)
    /\ UNCHANGED <<server, sent, reply, mishaps>>

Leave(m) ==
    /\ station[m].state # "away"
    /\ Become(m, "away", station[m].address)
    /\ reply' = [reply EXCEPT ![m] = NoReply]
    /\ UNCHANGED <<server, sent, moves, mishaps>>

\* A device that had an address asks for it again, another one discovers.
Ask(m) ==
    /\ station[m].state = "init"
    /\ \/ /\ station[m].address # None
          /\ Begin(m, Packet("REQUEST", station[m].address))
          /\ Become(m, "requesting", station[m].address)
       \/ /\ Begin(m, Packet("DISCOVER", station[m].address))
          /\ Become(m, "selecting", None)
    /\ UNCHANGED <<server, moves, mishaps>>

\* No answer came: the request is sent again or given up.
Retry(m) ==
    /\ sent[m] = <<>> /\ reply[m] = NoReply
    /\ station[m].state \in {"selecting", "requesting"}
    /\ Become(m, "init", None)
    /\ UNCHANGED <<server, sent, reply, moves, mishaps>>

\* An impatient device repeats itself before the server has answered.
Repeat(m) ==
    /\ Mishap /\ sent[m] # <<>>
    /\ station[m].state \in {"selecting", "requesting"}
    /\ Send(m, IF station[m].state = "selecting" THEN Packet("DISCOVER", None)
               ELSE Packet("REQUEST", station[m].address))
    /\ UNCHANGED <<server, station, reply, moves>>

Read(m) ==
    /\ reply[m] # NoReply
    /\ CASE reply[m].type = "OFFER" /\ station[m].state = "selecting" ->
                /\ Send(m, Packet("REQUEST", reply[m].address))
                /\ Become(m, "requesting", reply[m].address)
         [] /\ reply[m].type = "ACK" /\ station[m].state = "requesting"
            /\ reply[m].address = station[m].address ->
                Become(m, "bound", reply[m].address) /\ UNCHANGED sent
         [] reply[m].type = "NAK" /\ station[m].state \in {"requesting", "bound"} ->
                Become(m, "init", None) /\ UNCHANGED sent
         [] OTHER -> UNCHANGED <<station, sent>>
    /\ reply' = [reply EXCEPT ![m] = NoReply]
    /\ UNCHANGED <<server, moves, mishaps>>

\* The device renews its address while it uses it.
Renew(m) ==
    /\ station[m].state = "bound" /\ Mishap
    /\ Begin(m, Packet("REQUEST", station[m].address))
    /\ UNCHANGED <<server, station, moves>>

\* It gives the address up, or finds it in use by someone else.
GiveUp(m) ==
    /\ station[m].state = "bound" /\ Mishap
    /\ \E type \in {"RELEASE", "DECLINE"} : Send(m, Packet(type, None))
    /\ Become(m, "init", None)
    /\ UNCHANGED <<server, reply, moves>>

LosePacket(m) ==
    /\ Mishap
    /\ \/ sent[m] # <<>> /\ sent' = [sent EXCEPT ![m] = Tail(@)] /\ UNCHANGED reply
       \/ reply[m] # NoReply /\ reply' = [reply EXCEPT ![m] = NoReply] /\ UNCHANGED sent
    /\ UNCHANGED <<server, station, moves>>

Exchange(m) == HandlePacket(m) \/ Read(m) \/ Ask(m) \/ Retry(m)

HotspotNext ==
    \/ Start \/ Stop \/ UpdateClients
    \/ \E a \in Addresses : LeaseEnds(a)
    \/ \E m \in Macs :
        \/ Exchange(m) \/ Join(m) \/ Leave(m)
        \/ Repeat(m) \/ Renew(m) \/ GiveUp(m) \/ LosePacket(m)

HotspotSpec == HotspotInit /\ [][HotspotNext]_hotspotVars

\* Leases run out, and packets are handled, read and asked again.  The poll
\* of the association list is not needed for it.
HotspotFairSpec ==
    /\ HotspotSpec
    /\ WF_hotspotVars(\E a \in Addresses : LeaseEnds(a))
    /\ \A m \in Macs : WF_hotspotVars(Exchange(m))

-----------------------------------------------------------------------------
Leases == [mac : Macs \cup {Nobody}, term : {"free", "offer", "bound", "expired"}]
Packets == [type : {"DISCOVER", "REQUEST", "RELEASE", "DECLINE"},
            address : Addresses \cup {None}, current : BOOLEAN]
Replies == [type : {"OFFER", "ACK"}, address : Addresses]
           \cup [type : {"none", "NAK"}, address : {None}]
Stations == [state : {"away", "init", "selecting", "requesting", "bound"},
             address : Addresses \cup {None}]

HotspotTypeOK ==
    /\ ready \in BOOLEAN
    /\ lease \in [Addresses -> Leases]
    /\ device \in [Slots -> Macs \cup {Nobody}]
    /\ station \in [Macs -> Stations]
    /\ sent \in [Macs -> Seq(Packets)]
    /\ \A m \in Macs : Len(sent[m]) <= MaxQueue
    /\ reply \in [Macs -> Replies]
    /\ moves \in 0 .. MaxMoves /\ mishaps \in 0 .. MaxMishaps

\* A device has one active lease at most and one indicator at most.
OnePerDevice ==
    /\ \A m \in Macs, a, b \in Addresses : Holds(m, a) /\ Holds(m, b) => a = b
    /\ \A s, t \in Slots : device[s] = device[t] => s = t \/ device[s] = Nobody

\* A device that uses an address has it leased: however late its packets are
\* handled, and whatever other devices ask for, no two devices ever use the
\* same address (FindLease, HandlePacket, UpdateClients).
AddressOwned ==
    /\ \A m \in Macs, a \in Addresses : Using(m, a) => Holds(m, a)
    /\ \A m, n \in Macs, a \in Addresses : Using(m, a) /\ Using(n, a) => m = n

\* The device may use the address: the lease is granted for its hour, and
\* nothing on its way to the server can change that but a repeated request.
Asks(packet, a) == packet.type = "REQUEST" /\ packet.address = a
Granted(m, a) ==
    /\ lease[a] = [mac |-> m, term |-> "bound"]
    /\ \A i \in DOMAIN sent[m] : Asks(sent[m][i], a)

\* The order of a device's packets ties its state to its lease: its current
\* transaction has discoveries before requests, so that no discovery handled
\* late turns a granted lease into an offer of a minute.
Agrees(m) ==
    /\ station[m].state = "bound" =>
          station[m].address # None /\ Granted(m, station[m].address)
    /\ station[m].state = "selecting" =>
          /\ \A i \in DOMAIN sent[m] :
                sent[m][i].current => sent[m][i].type = "DISCOVER"
          /\ reply[m].type \in {"none", "OFFER"}
    /\ station[m].state = "requesting" =>
          /\ station[m].address # None
          /\ reply[m] = Reply("ACK", station[m].address)
                => Granted(m, station[m].address)
          /\ \A i, j \in DOMAIN sent[m] :
                sent[m][i].current /\ sent[m][i].type = "REQUEST" /\ i <= j
                    => Asks(sent[m][j], station[m].address)

Exchanges == \A m \in Macs : Agrees(m)

Agreement == HotspotTypeOK /\ OnePerDevice /\ Exchanges

\* Leases, indicators, exchanges and the addresses in use agree.
HotspotInv == Agreement /\ AddressOwned

\* A device keeps its indicator while it stays: only a poll after it has left,
\* or the end of the hotspot, takes it away (UpdateClients).
IndicatorStable ==
    [][ \A s \in Slots :
            device[s] # Nobody /\ device'[s] # device[s] =>
                station'[device[s]].state = "away" ]_hotspotVars

\* A device that stays gets an address, even after others have left with
\* theirs: it never stays without one for ever (HandlePacket, UpdateClients
\* and the end of a lease).
DeviceServed == \A m \in Macs : []<>(station[m].state \in {"away", "bound"})

=============================================================================
