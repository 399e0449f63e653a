--------------------------- MODULE SocketGateway ---------------------------
(***************************************************************************)
(* The Socket.IO gateway of the one Messaging process, for the devices of  *)
(* one account: the handshake, the slots that cap the sockets of a device, *)
(* the conversation rooms, and what a revocation does to open sockets.     *)
(*                                                                         *)
(* The process is single threaded, so a synchronous stretch of code is one *)
(* action and every await is a boundary between two.  A query's answer     *)
(* travels back while the rest of the world moves: reading the row and     *)
(* acting on it are two actions.                                           *)
(***************************************************************************)
EXTENDS Naturals, FiniteSets

CONSTANTS
    Sockets,       \* connection attempts, each used once
    Devices,
    Convs,         \* conversations
    MaxSockets,    \* MAX_SOCKETS_PER_USER_DEVICE (5)
    MaxRooms       \* MAX_CONVERSATION_ROOMS_PER_SOCKET (1000)

ASSUME LimitsAssumption ==
    MaxSockets \in Nat \ {0} /\ MaxRooms \in Nat /\ IsFiniteSet(Convs)

Phases == {"idle",            \* not begun
           "authenticating",  \* query on account_devices sent
           "authorized",      \* answered "active", answer on its way
           "reserved",        \* slot taken, connection on the next tick
           "connected",       \* in io.sockets.sockets
           "closed"}

VARIABLES
    status,      \* account_devices.status, as committed
    revoking,    \* revocations committed, sockets not yet visited
    phase, device,
    alive,       \* sockets whose transport is open
    pending,     \* SocketConnectionLimiter.pending
    member,      \* conversations the account may read (it only grows)
    rooms,       \* conversation rooms of a socket
    subscribing  \* (socket, conversations) of conv:subscribe handlers that
                 \* await the ACL: the authorized part of what was asked

conns == <<phase, device, alive, pending>>
vars == <<status, revoking, conns, member, rooms, subscribing>>

Init ==
    /\ status \in [Devices -> {"pending", "active", "revoked"}]
    /\ revoking = {}
    /\ phase = [s \in Sockets |-> "idle"]
    /\ device \in [Sockets -> Devices]
    /\ alive = {}
    /\ pending = [d \in Devices |-> 0]
    /\ member \in SUBSET Convs
    /\ rooms = [s \in Sockets |-> {}]
    /\ subscribing = {}

Connected(d) == {s \in Sockets : phase[s] = "connected" /\ device[s] = d}

----------------------------------------------------------------------------
(* Handshake *)

Handshake(s) ==
    /\ phase[s] = "idle"
    /\ phase' = [phase EXCEPT ![s] = "authenticating"]
    /\ alive' = alive \cup {s}
    /\ UNCHANGED <<status, revoking, device, pending, member, rooms, subscribing>>

\* the database answers authenticateDeviceAccess
ReadDevice(s) ==
    /\ phase[s] = "authenticating"
    /\ IF status[device[s]] = "active"
       THEN phase' = [phase EXCEPT ![s] = "authorized"] /\ UNCHANGED alive
       ELSE phase' = [phase EXCEPT ![s] = "closed"] /\ alive' = alive \ {s}
    /\ UNCHANGED <<status, revoking, device, pending, member, rooms, subscribing>>

\* mutant: sockets still on their way are not counted
M_HasCapacity(d) == Cardinality(Connected(d)) < MaxSockets

HasCapacity(d) == Cardinality(Connected(d)) + pending[d] < MaxSockets

\* mutant: a refused handshake is not answered
M_Reserve(s) ==
    /\ phase[s] = "authorized"
    /\ HasCapacity(device[s])
    /\ phase' = [phase EXCEPT ![s] = "reserved"]
    /\ pending' = [pending EXCEPT ![device[s]] = @ + 1]
    /\ UNCHANGED <<status, revoking, device, alive, member, rooms, subscribing>>

\* the second middleware: SocketConnectionLimiter.reserve
Reserve(s) ==
    /\ phase[s] = "authorized"
    /\ IF HasCapacity(device[s])
       THEN /\ phase' = [phase EXCEPT ![s] = "reserved"]
            /\ pending' = [pending EXCEPT ![device[s]] = @ + 1]
            /\ UNCHANGED alive
       ELSE /\ phase' = [phase EXCEPT ![s] = "closed"]
            /\ alive' = alive \ {s}
            /\ UNCHANGED pending
    /\ UNCHANGED <<status, revoking, device, member, rooms, subscribing>>

\* mutant: the slots of the whole device are dropped
M_Released(n) == 0

\* SocketConnectionLimiter.release
Released(n) == IF n <= 1 THEN 0 ELSE n - 1

\* mutant: the transport is not looked at
M_Reachable(s) == TRUE

\* Socket.IO looks at the transport once more before it connects a socket
Reachable(s) == s \in alive

\* Socket.IO, on the next tick: the connection handler, which releases the slot
Connect(s) ==
    /\ phase[s] = "reserved"
    /\ Reachable(s)
    /\ phase' = [phase EXCEPT ![s] = "connected"]
    /\ pending' = [pending EXCEPT ![device[s]] = Released(@)]
    /\ UNCHANGED <<status, revoking, device, alive, member, rooms, subscribing>>

\* Socket.IO: the transport closed meanwhile, the handler never runs
Abandon(s) ==
    /\ phase[s] = "reserved"
    /\ ~Reachable(s)
    /\ phase' = [phase EXCEPT ![s] = "closed"]
    /\ UNCHANGED <<status, revoking, device, alive, pending, member, rooms,
                   subscribing>>

\* The client or the network closes the transport; a connected socket leaves
\* its rooms, a handshake goes on until the next look at the transport.  No
\* input is read between Reserve and the next tick.
TransportClose(s) ==
    /\ s \in alive
    /\ phase[s] # "reserved"
    /\ alive' = alive \ {s}
    /\ phase' = [phase EXCEPT ![s] = IF @ = "connected" THEN "closed" ELSE @]
    /\ rooms' = [rooms EXCEPT ![s] = {}]
    /\ UNCHANGED <<status, revoking, device, pending, member, subscribing>>

----------------------------------------------------------------------------
(* Revocation and restart *)

\* COMMIT of an approval (DeviceTrust!ApproveDevice)
Activate(d) ==
    /\ status[d] = "pending"
    /\ status' = [status EXCEPT ![d] = "active"]
    /\ UNCHANGED <<revoking, conns, member, rooms, subscribing>>

\* COMMIT of a revoke decision (DeviceTrust!CloseDevice)
Revoke(d) ==
    /\ status[d] = "active"
    /\ status' = [status EXCEPT ![d] = "revoked"]
    /\ revoking' = revoking \cup {d}
    /\ UNCHANGED <<conns, member, rooms, subscribing>>

\* mutant: the loop stops at the first socket of the device
M_Evicted(d) ==
    IF Connected(d) = {} THEN {} ELSE {CHOOSE s \in Connected(d) : TRUE}

\* the sockets the loop over io.sockets.sockets disconnects
Evicted(d) == Connected(d)

\* the continuation after the commit
DisconnectDevice(d) ==
    /\ d \in revoking
    /\ revoking' = revoking \ {d}
    /\ phase' = [s \in Sockets |->
                   IF s \in Evicted(d) THEN "closed" ELSE phase[s]]
    /\ alive' = alive \ Evicted(d)
    /\ rooms' = [s \in Sockets |->
                   IF s \in Evicted(d) THEN {} ELSE rooms[s]]
    /\ UNCHANGED <<status, device, pending, member, subscribing>>

\* Everything but the database is in memory.
Restart ==
    /\ alive # {}
    /\ phase' = [s \in Sockets |-> IF phase[s] = "idle" THEN "idle" ELSE "closed"]
    /\ alive' = {}
    /\ pending' = [d \in Devices |-> 0]
    /\ rooms' = [s \in Sockets |-> {}]
    /\ subscribing' = {}
    /\ revoking' = {}
    /\ UNCHANGED <<status, device, member>>

----------------------------------------------------------------------------
(* Rooms *)

\* the account becomes a member (groups.ts, conversations.ts)
GainAccess(c) ==
    /\ c \notin member
    /\ member' = member \cup {c}
    /\ UNCHANGED <<status, revoking, conns, rooms, subscribing>>

\* conv:subscribe and conv:subscribe:batch: the query leaves and the database
\* answers it with the conversations cs it grants; none granted changes nothing
Subscribe(s, cs) ==
    /\ phase[s] = "connected"
    /\ cs # {} /\ cs \subseteq member
    /\ subscribing' = subscribing \cup {<<s, cs>>}
    /\ UNCHANGED <<status, revoking, conns, member, rooms>>

\* mutant: the rooms already joined are compared, not those about to be
M_RoomFor(s, cs) == Cardinality(rooms[s]) <= MaxRooms

RoomFor(s, cs) == Cardinality(rooms[s]) + Cardinality(cs \ rooms[s]) <= MaxRooms

\* The handler resumes and, without another await, checks the limit and joins;
\* Socket.IO makes join a no-op on a socket closed meanwhile.
JoinRooms(s, cs) ==
    /\ <<s, cs>> \in subscribing
    /\ subscribing' = subscribing \ {<<s, cs>>}
    /\ rooms' = IF phase[s] = "connected" /\ RoomFor(s, cs)
                THEN [rooms EXCEPT ![s] = @ \cup cs] ELSE rooms
    /\ UNCHANGED <<status, revoking, conns, member>>

\* conv:unsubscribe leaves before it asks the ACL
Unsubscribe(s, c) ==
    /\ phase[s] = "connected"
    /\ c \in rooms[s]
    /\ rooms' = [rooms EXCEPT ![s] = @ \ {c}]
    /\ UNCHANGED <<status, revoking, conns, member, subscribing>>

Next ==
    \/ \E s \in Sockets :
          \/ Handshake(s) \/ ReadDevice(s) \/ Reserve(s) \/ Connect(s)
          \/ Abandon(s) \/ TransportClose(s)
          \/ \E cs \in SUBSET Convs : Subscribe(s, cs) \/ JoinRooms(s, cs)
          \/ \E c \in Convs : Unsubscribe(s, c)
    \/ \E d \in Devices : Activate(d) \/ Revoke(d) \/ DisconnectDevice(d)
    \/ \E c \in Convs : GainAccess(c)
    \/ Restart

\* What the process and the database do by themselves; users and the network
\* owe nothing.
Fairness ==
    /\ \A d \in Devices : WF_vars(DisconnectDevice(d))
    /\ \A s \in Sockets :
          /\ WF_vars(ReadDevice(s)) /\ WF_vars(Reserve(s))
          /\ WF_vars(Connect(s)) /\ WF_vars(Abandon(s))

Spec == Init /\ [][Next]_vars /\ Fairness

----------------------------------------------------------------------------
(* Properties *)

\* Shapes; a socket is in io.sockets.sockets only while its transport is open.
TypeOK ==
    /\ status \in [Devices -> {"pending", "active", "revoked"}]
    /\ revoking \in SUBSET Devices
    /\ phase \in [Sockets -> Phases]
    /\ device \in [Sockets -> Devices]
    /\ alive \in SUBSET Sockets
    /\ pending \in [Devices -> Nat]
    /\ member \in SUBSET Convs
    /\ rooms \in [Sockets -> SUBSET Convs]
    /\ subscribing \in SUBSET (Sockets \X SUBSET Convs)
    /\ \A s \in Sockets : phase[s] = "connected" => s \in alive

\* Handshakes that race each other never put a device above its cap, although
\* a slot is granted before the socket is listed (socketSecurity.ts 89-100).
SocketCap ==
    \A d \in Devices : Cardinality(Connected(d)) <= MaxSockets

\* Subscriptions that race each other and the ACL never put a socket above its
\* room cap, and only a connected socket is in a room.
RoomCap ==
    \A s \in Sockets :
        /\ Cardinality(rooms[s]) <= MaxRooms
        /\ rooms[s] # {} => phase[s] = "connected"

\* No slot is lost: what the limiter counts as pending is a handshake between
\* its middleware and its connection handler.  NETWORK_BOUNDARY.md:75 gives a
\* device five sockets; a slot that stays pending takes one away for good.
PendingIsReal ==
    \A d \in Devices :
        pending[d] = Cardinality({s \in Sockets :
                                    phase[s] = "reserved" /\ device[s] = d})

\* The half that does hold: the limiter never forgets a handshake under way.
PendingCounted ==
    \A d \in Devices :
        pending[d] >= Cardinality({s \in Sockets :
                                     phase[s] = "reserved" /\ device[s] = d})

\* A revoked device has no socket once its revocation has been carried out
\* (DEVICE_TRUST_PROTOCOL_V1.md:235-236 and 299).
RevokedHasNoSocket ==
    \A d \in Devices :
        status[d] = "revoked" /\ d \notin revoking => Connected(d) = {}

\* Every socket open when the revocation of its device commits is closed.
RevocationClosesSockets ==
    \A s \in Sockets :
        phase[s] = "connected" /\ device[s] \in revoking
        ~> phase[s] = "closed"

\* A handshake is always answered: nothing waits for ever for a slot.
HandshakeEnds ==
    \A s \in Sockets :
        phase[s] = "authenticating" ~> phase[s] \in {"connected", "closed"}
=============================================================================
