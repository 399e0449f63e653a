------------------------ MODULE SocketGateway_proofs ------------------------
(***************************************************************************)
(* Theorems about SocketGateway, for any number of sockets, devices and    *)
(* conversations and any limits.                                           *)
(***************************************************************************)
EXTENDS SocketGateway, FiniteSetTheorems, TLAPS

\* All shapes hold, and a connected socket has an open transport.
LEMMA TypeStep == TypeOK /\ [Next]_vars => TypeOK'
<1> SUFFICES ASSUME TypeOK, [Next]_vars PROVE TypeOK'
  OBVIOUS
<1> USE DEF TypeOK, conns, Phases
<1>1. ASSUME NEW s \in Sockets, Handshake(s) \/ ReadDevice(s) PROVE TypeOK'
  BY <1>1 DEF Handshake, ReadDevice
<1>2. ASSUME NEW s \in Sockets, Reserve(s) PROVE TypeOK'
  BY <1>2 DEF Reserve
<1>3. ASSUME NEW s \in Sockets, Connect(s) PROVE TypeOK'
  <2>1. Released(pending[device[s]]) \in Nat
    BY DEF Released
  <2>2. QED BY <1>3, <2>1 DEF Connect, Reachable
<1>4. ASSUME NEW s \in Sockets, Abandon(s) \/ TransportClose(s) PROVE TypeOK'
  BY <1>4 DEF Abandon, TransportClose
<1>5. ASSUME NEW s \in Sockets, NEW cs \in SUBSET Convs,
             Subscribe(s, cs) \/ JoinRooms(s, cs)
      PROVE  TypeOK'
  BY <1>5 DEF Subscribe, JoinRooms
<1>6. ASSUME NEW s \in Sockets, NEW c \in Convs, Unsubscribe(s, c) PROVE TypeOK'
  BY <1>6 DEF Unsubscribe
<1>7. ASSUME NEW d \in Devices, Activate(d) \/ Revoke(d) PROVE TypeOK'
  BY <1>7 DEF Activate, Revoke
<1>8. ASSUME NEW d \in Devices, DisconnectDevice(d) PROVE TypeOK'
  BY <1>8 DEF DisconnectDevice, Evicted, Connected
<1>9. ASSUME NEW c \in Convs, GainAccess(c) PROVE TypeOK'
  BY <1>9 DEF GainAccess
<1>10. CASE Restart
  BY <1>10 DEF Restart
<1>11. CASE UNCHANGED vars
  BY <1>11 DEF vars
<1>12. QED BY <1>1, <1>2, <1>3, <1>4, <1>5, <1>6, <1>7, <1>8, <1>9, <1>10, <1>11
           DEF Next

\* The shapes hold in every reachable state.
THEOREM TypeCorrect == Spec => []TypeOK
<1>1. Init => TypeOK
  BY DEF Init, TypeOK, Phases
<1>2. QED BY <1>1, TypeStep, PTL DEF Spec

----------------------------------------------------------------------------
(* The slots of a device.                                                  *)

Reserved(d) == {s \in Sockets : phase[s] = "reserved" /\ device[s] = d}

\* Only finitely many connection attempts have begun.
Used == {s \in Sockets : phase[s] # "idle"}

\* What a step does to the slots of a device: sockets leave it, one takes a
\* slot, one that has a slot connects, or the process starts afresh.
LEMMA SlotSteps ==
    ASSUME TypeOK, [Next]_vars, NEW d \in Devices
    PROVE  \/ /\ Connected(d)' \subseteq Connected(d)
              /\ Reserved(d)' \subseteq Reserved(d)
              /\ pending'[d] = pending[d]
           \/ \E s \in Sockets \ Reserved(d) :
              /\ HasCapacity(d)
              /\ Connected(d)' = Connected(d)
              /\ Reserved(d)' = Reserved(d) \cup {s}
              /\ pending'[d] = pending[d] + 1
           \/ \E s \in Reserved(d) \ Connected(d) :
              /\ Connected(d)' = Connected(d) \cup {s}
              /\ Reserved(d)' = Reserved(d) \ {s}
              /\ pending'[d] = Released(pending[d])
           \/ Connected(d)' = {} /\ Reserved(d)' = {} /\ pending'[d] = 0
<1> DEFINE Leaves == /\ Connected(d)' \subseteq Connected(d)
                     /\ Reserved(d)' \subseteq Reserved(d)
                     /\ pending'[d] = pending[d]
<1> USE DEF TypeOK, Connected, Reserved, conns
<1>1. ASSUME NEW s \in Sockets, Handshake(s) \/ ReadDevice(s) PROVE Leaves
  BY <1>1 DEF Handshake, ReadDevice
<1>2. ASSUME NEW s \in Sockets, Reserve(s)
      PROVE  \/ Leaves
             \/ /\ s \notin Reserved(d) /\ HasCapacity(d)
                /\ Connected(d)' = Connected(d)
                /\ Reserved(d)' = Reserved(d) \cup {s}
                /\ pending'[d] = pending[d] + 1
  <2>1. CASE device[s] = d /\ HasCapacity(d)
    <3>1. /\ phase[s] = "authorized"
          /\ phase' = [phase EXCEPT ![s] = "reserved"]
          /\ pending' = [pending EXCEPT ![d] = @ + 1]
          /\ UNCHANGED device
      BY <1>2, <2>1 DEF Reserve
    <3>2. QED BY <2>1, <3>1
  <2>2. CASE device[s] # d \/ ~HasCapacity(d)
    <3>1. /\ phase[s] = "authorized" /\ UNCHANGED device
          /\ \/ phase' = [phase EXCEPT ![s] = "reserved"] /\ device[s] # d
             \/ phase' = [phase EXCEPT ![s] = "closed"]
          /\ pending'[d] = pending[d]
      BY <1>2, <2>2 DEF Reserve
    <3>2. QED BY <2>2, <3>1
  <2>3. QED BY <2>1, <2>2
<1>3. ASSUME NEW s \in Sockets, Connect(s)
      PROVE  \/ Leaves
             \/ /\ s \in Reserved(d) \ Connected(d)
                /\ Connected(d)' = Connected(d) \cup {s}
                /\ Reserved(d)' = Reserved(d) \ {s}
                /\ pending'[d] = Released(pending[d])
  <2>1. /\ phase[s] = "reserved" /\ UNCHANGED device
        /\ phase' = [phase EXCEPT ![s] = "connected"]
        /\ pending' = [pending EXCEPT ![device[s]] = Released(@)]
    BY <1>3 DEF Connect
  <2>2. CASE device[s] = d
    BY <2>1, <2>2
  <2>3. CASE device[s] # d
    BY <2>1, <2>3
  <2>4. QED BY <2>2, <2>3
<1>4. ASSUME NEW s \in Sockets, Abandon(s) \/ TransportClose(s) PROVE Leaves
  BY <1>4 DEF Abandon, TransportClose
<1>5. ASSUME NEW s \in Sockets, NEW cs \in SUBSET Convs,
             Subscribe(s, cs) \/ JoinRooms(s, cs)
      PROVE  Leaves
  BY <1>5 DEF Subscribe, JoinRooms
<1>6. ASSUME NEW s \in Sockets, NEW c \in Convs, Unsubscribe(s, c) PROVE Leaves
  BY <1>6 DEF Unsubscribe
<1>7. ASSUME NEW e \in Devices, Activate(e) \/ Revoke(e) PROVE Leaves
  BY <1>7 DEF Activate, Revoke
<1>8. ASSUME NEW e \in Devices, DisconnectDevice(e) PROVE Leaves
  BY <1>8 DEF DisconnectDevice, Evicted
<1>9. ASSUME NEW c \in Convs, GainAccess(c) PROVE Leaves
  BY <1>9 DEF GainAccess
<1>10. CASE Restart
  <2>1. \A s \in Sockets : phase'[s] \notin {"connected", "reserved"}
    BY <1>10 DEF Restart
  <2>2. QED BY <1>10, <2>1 DEF Restart
<1>11. CASE UNCHANGED vars
  BY <1>11 DEF vars
<1>12. QED BY <1>1, <1>2, <1>3, <1>4, <1>5, <1>6, <1>7, <1>8, <1>9, <1>10, <1>11
           DEF Next

\* One attempt begins at a time.
LEMMA UsedStep ==
    ASSUME TypeOK, [Next]_vars, IsFiniteSet(Used) PROVE IsFiniteSet(Used')
<1>1. \E s : Used' \subseteq Used \cup {s}
  <2>1. ASSUME NEW s \in Sockets,
               \/ Handshake(s) \/ ReadDevice(s) \/ Reserve(s) \/ Connect(s)
               \/ Abandon(s) \/ TransportClose(s)
        PROVE  Used' \subseteq Used \cup {s}
    BY <2>1 DEF Used, TypeOK, Handshake, ReadDevice, Reserve, Connect, Abandon,
                TransportClose
  <2>2. ASSUME NEW d \in Devices, DisconnectDevice(d) PROVE Used' \subseteq Used
    BY <2>2 DEF Used, TypeOK, DisconnectDevice, Evicted, Connected
  <2>3. Restart => Used' \subseteq Used
    BY DEF Restart, Used, TypeOK
  <2>4. UNCHANGED phase => Used' \subseteq Used
    BY DEF Used
  <2>5. \/ UNCHANGED phase
        \/ \E s \in Sockets :
              \/ Handshake(s) \/ ReadDevice(s) \/ Reserve(s) \/ Connect(s)
              \/ Abandon(s) \/ TransportClose(s)
        \/ \E d \in Devices : DisconnectDevice(d)
        \/ Restart
    BY DEF Next, vars, conns, Subscribe, JoinRooms, Unsubscribe, Activate,
           Revoke, GainAccess
  <2>6. QED BY <2>1, <2>2, <2>3, <2>4, <2>5
<1>2. QED BY <1>1, FS_AddElement, FS_Subset

\* The slots of every device are counted and not oversold.
SlotsOK ==
    /\ IsFiniteSet(Used)
    /\ \A d \in Devices :
          Cardinality(Connected(d)) + pending[d] <= MaxSockets
    /\ PendingCounted

\* The sockets counted are attempts that have begun.
LEMMA Countable ==
    ASSUME IsFiniteSet(Used), NEW d \in Devices
    PROVE  /\ IsFiniteSet(Connected(d)) /\ Cardinality(Connected(d)) \in Nat
           /\ IsFiniteSet(Reserved(d)) /\ Cardinality(Reserved(d)) \in Nat
<1>1. Connected(d) \in SUBSET Used /\ Reserved(d) \in SUBSET Used
  BY DEF Connected, Reserved, Used
<1>2. IsFiniteSet(Connected(d)) /\ IsFiniteSet(Reserved(d))
  BY <1>1, FS_Subset
<1>3. QED BY <1>2, FS_CardinalityType

\* Every step keeps the slots counted.
LEMMA SlotsStep ==
    ASSUME TypeOK, SlotsOK, [Next]_vars PROVE SlotsOK'
<1>1. IsFiniteSet(Used)'
  BY UsedStep DEF SlotsOK
<1>2. ASSUME NEW d \in Devices
      PROVE  /\ Cardinality(Connected(d)') + pending'[d] <= MaxSockets
             /\ pending'[d] >= Cardinality(Reserved(d)')
  <2> DEFINE C == Connected(d)
             R == Reserved(d)
             Bounded == /\ Cardinality(Connected(d)') + pending'[d] <= MaxSockets
                        /\ pending'[d] >= Cardinality(Reserved(d)')
  <2>1. /\ IsFiniteSet(C) /\ Cardinality(C) \in Nat
        /\ IsFiniteSet(R) /\ Cardinality(R) \in Nat
        /\ pending[d] \in Nat /\ MaxSockets \in Nat
        /\ Cardinality(C) + pending[d] <= MaxSockets
        /\ pending[d] >= Cardinality(R)
    BY Countable, LimitsAssumption
       DEF SlotsOK, TypeOK, PendingCounted, Reserved
  <2>2. /\ Cardinality(Connected(d)') \in Nat
        /\ Cardinality(Reserved(d)') \in Nat
    <3>1. Connected(d)' \in SUBSET Used' /\ Reserved(d)' \in SUBSET Used'
      BY DEF Connected, Reserved, Used
    <3>2. QED BY <1>1, <3>1, FS_Subset, FS_CardinalityType
  <2>3. CASE /\ Connected(d)' \subseteq C /\ Reserved(d)' \subseteq R
             /\ pending'[d] = pending[d]
    <3>1. /\ Cardinality(Connected(d)') <= Cardinality(C)
          /\ Cardinality(Reserved(d)') <= Cardinality(R)
      BY <2>1, <2>3, FS_Subset
    <3>2. QED BY <2>1, <2>2, <2>3, <3>1
  <2>4. ASSUME NEW s \in Sockets \ R, HasCapacity(d), Connected(d)' = C,
               Reserved(d)' = R \cup {s}, pending'[d] = pending[d] + 1
        PROVE  Bounded
    <3>1. Cardinality(R \cup {s}) = Cardinality(R) + 1
      BY <2>1, FS_AddElement
    <3>2. Cardinality(C) + pending[d] < MaxSockets
      BY <2>4 DEF HasCapacity
    <3>3. QED BY <2>1, <2>4, <3>1, <3>2
  <2>5. ASSUME NEW s \in R \ C, Connected(d)' = C \cup {s},
               Reserved(d)' = R \ {s}, pending'[d] = Released(pending[d])
        PROVE  Bounded
    <3>1. /\ Cardinality(C \cup {s}) = Cardinality(C) + 1
          /\ Cardinality(R \ {s}) = Cardinality(R) - 1
      BY <2>1, FS_AddElement, FS_RemoveElement
    <3>2. Cardinality(R) # 0
      BY <2>1, FS_EmptySet
    \* the slot the socket holds is among those counted
    <3>3. pending'[d] = pending[d] - 1
      BY <2>1, <2>5, <3>2 DEF Released
    <3>4. QED BY <2>1, <2>5, <3>1, <3>3
  <2>6. CASE Connected(d)' = {} /\ Reserved(d)' = {} /\ pending'[d] = 0
    BY <2>1, <2>6, FS_EmptySet
  <2>7. QED BY <2>3, <2>4, <2>5, <2>6, SlotSteps
<1>3. QED BY <1>1, <1>2 DEF SlotsOK, PendingCounted, Reserved

\* They are counted in every reachable state.
LEMMA SlotsInduction == Spec => []SlotsOK
<1>1. Init => SlotsOK
  <2> SUFFICES ASSUME Init PROVE SlotsOK
    OBVIOUS
  <2>1. Used = {} /\ \A d \in Devices : Connected(d) = {} /\ Reserved(d) = {}
    BY DEF Init, Used, Connected, Reserved
  <2>2. IsFiniteSet({}) /\ Cardinality({}) = 0
    BY FS_EmptySet
  <2>3. \A d \in Devices : pending[d] = 0
    BY DEF Init
  <2>4. \A d \in Devices :
          /\ Cardinality(Connected(d)) + pending[d] <= MaxSockets
          /\ pending[d] >= Cardinality(Reserved(d))
    BY <2>1, <2>2, <2>3, LimitsAssumption
  <2>5. QED BY <2>1, <2>2, <2>4 DEF SlotsOK, PendingCounted, Reserved
<1>2. TypeOK /\ SlotsOK /\ [Next]_vars => SlotsOK'
  BY SlotsStep
<1>3. QED BY <1>1, <1>2, TypeCorrect, PTL DEF Spec

\* Every handshake that holds a slot is counted, whatever closes meanwhile.
THEOREM NoSlotForgotten == Spec => []PendingCounted
<1>1. SlotsOK => PendingCounted
  BY DEF SlotsOK
<1>2. QED BY <1>1, SlotsInduction, PTL

\* Slots that are counted are within the cap.
LEMMA SlotsCap == TypeOK /\ SlotsOK => SocketCap
<1> SUFFICES ASSUME TypeOK, SlotsOK, NEW d \in Devices
             PROVE  Cardinality(Connected(d)) <= MaxSockets
  BY DEF SocketCap
<1>1. /\ Cardinality(Connected(d)) \in Nat /\ pending[d] \in Nat
      /\ Cardinality(Connected(d)) + pending[d] <= MaxSockets
  BY Countable DEF SlotsOK, TypeOK
<1>2. QED BY <1>1, LimitsAssumption

\* No number of racing handshakes puts a device above its cap of sockets.
THEOREM CapHolds == Spec => []SocketCap
BY SlotsInduction, SlotsCap, TypeCorrect, PTL

----------------------------------------------------------------------------
(* The rooms of a socket.                                                  *)

\* A step gives rooms to a connected socket only, and never too many.
LEMMA RoomStep ==
    ASSUME TypeOK, RoomCap, [Next]_vars PROVE RoomCap'
<1> DEFINE Kept(s) == /\ rooms'[s] \subseteq rooms[s]
                      /\ rooms'[s] # {} => phase'[s] = "connected"
<1>1. ASSUME NEW s \in Sockets, Kept(s)
      PROVE  /\ Cardinality(rooms'[s]) <= MaxRooms
             /\ rooms'[s] # {} => phase'[s] = "connected"
  <2>1. rooms[s] \in SUBSET Convs /\ rooms'[s] \in SUBSET rooms[s]
    BY <1>1 DEF TypeOK
  <2>2. IsFiniteSet(rooms[s])
    BY <2>1, LimitsAssumption, FS_Subset
  <2>3. /\ Cardinality(rooms'[s]) <= Cardinality(rooms[s])
        /\ IsFiniteSet(rooms'[s])
    BY <2>1, <2>2, FS_Subset
  <2>4. Cardinality(rooms[s]) \in Nat /\ Cardinality(rooms'[s]) \in Nat
    BY <2>2, <2>3, FS_CardinalityType
  <2>5. QED BY <1>1, <2>3, <2>4, LimitsAssumption DEF RoomCap
<1>2. ASSUME NEW t \in Sockets, NEW cs \in SUBSET Convs, JoinRooms(t, cs),
             NEW s \in Sockets
      PROVE  \/ Kept(s)
             \/ /\ Cardinality(rooms'[s]) <= MaxRooms
                /\ phase'[s] = "connected"
  <2>1. CASE phase[t] = "connected" /\ RoomFor(t, cs) /\ s = t
    <3>1. rooms'[s] = rooms[s] \cup (cs \ rooms[s]) /\ phase' = phase
      BY <1>2, <2>1 DEF JoinRooms, TypeOK, conns
    <3>2. rooms[s] \in SUBSET Convs /\ cs \ rooms[s] \in SUBSET Convs
      BY DEF TypeOK
    <3>3. IsFiniteSet(rooms[s]) /\ IsFiniteSet(cs \ rooms[s])
      BY <3>2, LimitsAssumption, FS_Subset
    <3>4. rooms[s] \cap (cs \ rooms[s]) = {}
      OBVIOUS
    <3>5. Cardinality(rooms'[s])
            = Cardinality(rooms[s]) + Cardinality(cs \ rooms[s])
      <4>1. Cardinality(rooms'[s]) = Cardinality(rooms[s])
                + Cardinality(cs \ rooms[s]) - Cardinality({})
        BY <3>1, <3>3, <3>4, FS_Union
      <4>2. /\ Cardinality({}) = 0 /\ Cardinality(rooms[s]) \in Nat
            /\ Cardinality(cs \ rooms[s]) \in Nat
        BY <3>3, FS_EmptySet, FS_CardinalityType
      <4>3. QED BY <4>1, <4>2
    <3>6. QED BY <2>1, <3>1, <3>5 DEF RoomFor
  <2>2. CASE ~(phase[t] = "connected" /\ RoomFor(t, cs) /\ s = t)
    BY <1>2, <2>2 DEF JoinRooms, RoomCap, TypeOK, conns
  <2>3. QED BY <2>1, <2>2
<1>3. ASSUME NEW s \in Sockets
      PROVE  \/ Kept(s)
             \/ \E t \in Sockets, cs \in SUBSET Convs : JoinRooms(t, cs)
  <2> USE DEF RoomCap, TypeOK, conns
  <2>1. ASSUME NEW t \in Sockets,
               \/ Handshake(t) \/ ReadDevice(t) \/ Reserve(t) \/ Connect(t)
               \/ Abandon(t)
        PROVE  Kept(s)
    BY <2>1 DEF Handshake, ReadDevice, Reserve, Connect, Abandon
  <2>2. ASSUME NEW t \in Sockets, TransportClose(t) PROVE Kept(s)
    BY <2>2 DEF TransportClose
  <2>3. ASSUME NEW t \in Sockets, NEW cs \in SUBSET Convs, Subscribe(t, cs)
        PROVE  Kept(s)
    BY <2>3 DEF Subscribe
  <2>4. ASSUME NEW t \in Sockets, NEW c \in Convs, Unsubscribe(t, c)
        PROVE  Kept(s)
    BY <2>4 DEF Unsubscribe
  <2>5. ASSUME NEW d \in Devices, Activate(d) \/ Revoke(d) PROVE Kept(s)
    BY <2>5 DEF Activate, Revoke
  <2>6. ASSUME NEW d \in Devices, DisconnectDevice(d) PROVE Kept(s)
    BY <2>6 DEF DisconnectDevice
  <2>7. ASSUME NEW c \in Convs, GainAccess(c) PROVE Kept(s)
    BY <2>7 DEF GainAccess
  <2>8. CASE Restart
    BY <2>8 DEF Restart
  <2>9. CASE UNCHANGED vars
    BY <2>9 DEF vars
  <2>10. QED BY <2>1, <2>2, <2>3, <2>4, <2>5, <2>6, <2>7, <2>8, <2>9 DEF Next
<1>4. QED BY <1>1, <1>2, <1>3 DEF RoomCap

\* Subscriptions that race each other never overfill a socket, and a socket that
\* is gone is in no room.
THEOREM RoomsHold == Spec => []RoomCap
<1>1. Init => RoomCap
  BY FS_EmptySet, LimitsAssumption DEF Init, RoomCap
<1>2. TypeOK /\ RoomCap /\ [Next]_vars => RoomCap'
  BY RoomStep
<1>3. QED BY <1>1, <1>2, TypeCorrect, PTL DEF Spec
=============================================================================
