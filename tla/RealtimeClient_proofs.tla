------------------------ MODULE RealtimeClient_proofs ------------------------
(***************************************************************************)
(* Type correctness of the realtime client, and the two invariants that    *)
(* keep its socket objects apart.                                          *)
(***************************************************************************)
EXTENDS RealtimeClient, TLAPS

\* The four parts of TypeOK that handlers change together.
LinkOK ==
    /\ status \in SocketStatus
    /\ transport \in [Ids -> Transports]
    /\ current \in Ids \cup {NoSocket}
CountOK ==
    /\ shouldReconnect \in BOOLEAN
    /\ flights \in [{"token", "auth"} -> 0..MaxFlights]
    /\ timers \in 0..MaxTimers
AppOK ==
    /\ {authorized, canUseMessaging, initialized, listening} \subseteq BOOLEAN
    /\ refreshing \subseteq Refreshes
    /\ checks \subseteq {"start", "resume"}
SubsOK ==
    /\ subscribed \subseteq Convs
    /\ waiting \subseteq Convs
    /\ asked \subseteq Convs
    /\ batches \subseteq Batches

\* What a session leaves behind, disconnect() and the two ways of subscribing
\* keep the sets of conversations, wherever they are called from.
LEMMA SessionLostTyped ==
  ASSUME TypeOK, SessionLost, UNCHANGED <<subscribed, waiting>>
  PROVE  SubsOK'
<1>1. batches' \subseteq Batches
  BY DEF TypeOK, SessionLost, Batches
<1> QED
  BY <1>1 DEF TypeOK, SessionLost, SubsOK

\* Disconnecting keeps the subscriptions and the link typed.
LEMMA DisconnectTyped ==
  ASSUME TypeOK, Disconnect
  PROVE  SubsOK' /\ LinkOK' /\ shouldReconnect' \in BOOLEAN
<1>1. SubsOK'
  BY SessionLostTyped DEF Disconnect
<1> QED
  BY <1>1 DEF TypeOK, Disconnect, LinkOK, Disposed, SocketStatus, Transports

\* Subscribing one by one keeps the subscriptions typed.
LEMMA SubscribeEachTyped ==
  ASSUME TypeOK, NEW cs \in SUBSET Convs, NEW wait \in SUBSET Convs,
         SubscribeEach(cs, subscribed, wait),
         batches' \subseteq Batches
  PROVE  SubsOK'
  BY DEF TypeOK, SubscribeEach, SubsOK

\* Subscribing in a batch keeps the subscriptions typed.
LEMMA SubscribeBatchTyped ==
  ASSUME TypeOK, NEW cs \in SUBSET Convs, NEW wait \in SUBSET Convs,
         SubscribeBatch(cs, wait)
  PROVE  SubsOK'
<1> DEFINE new == cs \ subscribed
<1>1. batches' \subseteq Batches
  <2>1. CASE new = {}
    BY <2>1 DEF TypeOK, SubscribeBatch
  <2>2. CASE new # {}
    <3>1. [convs |-> new, answerable |-> TRUE] \in Batches
      BY <2>2 DEF Batches
    <3> QED
      BY <2>2, <3>1 DEF TypeOK, SubscribeBatch
  <2> QED
    BY <2>1, <2>2
<1> QED
  BY <1>1 DEF TypeOK, SubscribeBatch, SubsOK

\* Resubscribing keeps the subscriptions typed.
LEMMA ResubscribeTyped ==
  ASSUME TypeOK, Resubscribe
  PROVE  SubsOK'
<1>1. waiting \in SUBSET Convs /\ {} \in SUBSET Convs
  BY DEF TypeOK
<1>2. CASE UNCHANGED subs
  BY <1>2 DEF TypeOK, SubsOK, subs
<1>3. CASE SubscribeBatch(waiting, {})
  BY <1>1, <1>3, SubscribeBatchTyped
<1>4. CASE SubscribeEach(waiting, subscribed, {}) /\ UNCHANGED batches
  BY <1>1, <1>4, SubscribeEachTyped DEF TypeOK
<1> QED
  BY <1>2, <1>3, <1>4 DEF Resubscribe

\* A new attempt is one more suspended call, within the bound.
LEMMA AttemptParts ==
  ASSUME TypeOK, NEW reconnect \in BOOLEAN, ConnectInternal(reconnect)
  PROVE  /\ SubsOK' /\ LinkOK' /\ shouldReconnect' \in BOOLEAN
         /\ flights' \in [{"token", "auth"} -> 0..MaxFlights]
<1>1. CASE status \in {"connected", "connecting"}
  BY <1>1 DEF TypeOK, ConnectInternal, SubsOK, LinkOK, subs
<1>2. CASE status \notin {"connected", "connecting"} /\ canUseMessaging
  <2>1. flights' \in [{"token", "auth"} -> 0..MaxFlights]
    BY <1>2, BoundsAssumption DEF BoundsAssumption, TypeOK, ConnectInternal
  <2> QED
    BY <1>2, <2>1 DEF TypeOK, ConnectInternal, SubsOK, LinkOK, subs, SocketStatus
<1>3. CASE status \notin {"connected", "connecting"} /\ ~canUseMessaging
  BY <1>3, DisconnectTyped DEF TypeOK, ConnectInternal
<1> QED
  BY <1>1, <1>2, <1>3

\* The first part of a connection attempt keeps its state typed.
LEMMA ConnectInternalTyped ==
  ASSUME TypeOK, NEW reconnect \in BOOLEAN, ConnectInternal(reconnect),
         UNCHANGED timers
  PROVE  SubsOK' /\ LinkOK' /\ CountOK'
  BY AttemptParts DEF TypeOK, CountOK

\* So does a scheduled reconnection.
LEMMA AttemptTyped ==
  ASSUME TypeOK, UNCHANGED timers, AttemptReconnection
  PROVE  SubsOK' /\ LinkOK' /\ CountOK'
<1>1. CASE UNCHANGED <<status, shouldReconnect, flights, transport, current, subs>>
  BY <1>1 DEF TypeOK, SubsOK, LinkOK, CountOK, subs
<1>2. CASE ConnectInternal(TRUE)
  BY <1>2, ConnectInternalTyped
<1> QED
  BY <1>1, <1>2 DEF AttemptReconnection

\* TypeOK is not inductive alone: a call that goes from its first await to its
\* second stays within the bound only because the two counts do together.
CallsBounded == flights["token"] + flights["auth"] <= MaxFlights

\* The type invariant in four parts.
LEMMA Parts == TypeOK <=> AppOK /\ LinkOK /\ CountOK /\ SubsOK
  BY DEF TypeOK, AppOK, LinkOK, CountOK, SubsOK

----------------------------------------------------------------------------
\* Every handler keeps the types: the parts it leaves alone, and for the others
\* the lemmas above.
LEMMA NextTyped ==
  ASSUME TypeOK, CallsBounded, Next
  PROVE  TypeOK'
<1> USE DEF trust, app, conn, subs
<1>0. AppOK /\ LinkOK /\ CountOK /\ SubsOK
  BY Parts
<1> SUFFICES AppOK' /\ LinkOK' /\ CountOK' /\ SubsOK'
  BY DEF TypeOK, AppOK, LinkOK, CountOK, SubsOK
<1>1. CASE Rebuild
  <2>1. CASE UNCHANGED <<trust, listening, conn, subs>>
    BY <1>0, <1>1, <2>1 DEF Rebuild, AppOK, LinkOK, CountOK, SubsOK
  <2>2. CASE Disconnect /\ UNCHANGED <<trust, checks, listening, flights, timers>>
            /\ initialized' = FALSE
    BY <1>0, <2>2, DisconnectTyped DEF AppOK, CountOK
  <2> QED
    BY <1>1, <2>1, <2>2 DEF Rebuild
<1>2. CASE Resume
  BY <1>0, <1>2 DEF Resume, AppOK, LinkOK, CountOK, SubsOK
<1>3. CASE Detach
  BY <1>0, <1>3, DisconnectTyped DEF Detach, AppOK, CountOK
<1>4. ASSUME NEW k \in {"start", "resume"}, Checked(k)
      PROVE  AppOK' /\ LinkOK' /\ CountOK' /\ SubsOK'
  <2>0. checks' \subseteq {"start", "resume"} /\ UNCHANGED <<trust, initialized, timers>>
    BY <1>0, <1>4 DEF Checked, AppOK
  <2>1. CASE UNCHANGED <<listening, status, shouldReconnect, flights, transport, current, subs>>
    BY <1>0, <2>0, <2>1 DEF AppOK, LinkOK, CountOK, SubsOK
  <2>2. CASE canUseMessaging /\ ConnectInternal(TRUE) /\ listening' = TRUE
    BY <1>0, <2>0, <2>2, ConnectInternalTyped DEF AppOK
  <2>3. CASE Disconnect /\ UNCHANGED <<flights, listening>>
    BY <1>0, <2>0, <2>3, DisconnectTyped DEF AppOK, CountOK
  <2> QED
    BY <1>4, <2>1, <2>2, <2>3 DEF Checked, Connect
<1>5. CASE TokenChecked
  <2>1. flights' \in [{"token", "auth"} -> 0..MaxFlights]
    <3>1. /\ flights["token"] \in 0..MaxFlights
          /\ flights["auth"] \in 0..MaxFlights
      BY <1>0 DEF CountOK
    <3>2. /\ flights["token"] - 1 \in 0..MaxFlights
          /\ flights["auth"] + 1 \in 0..MaxFlights
      BY <1>5, <3>1, BoundsAssumption DEF TokenChecked, CallsBounded, BoundsAssumption
    <3> QED
      BY <1>0, <1>5, <3>2 DEF TokenChecked, CountOK
  <2> QED
    BY <1>0, <1>5, <2>1 DEF TokenChecked, AppOK, LinkOK, CountOK, SubsOK, SocketStatus
<1>6. CASE AuthFailed
  <2>1. flights' \in [{"token", "auth"} -> 0..MaxFlights]
    BY <1>0, <1>6, BoundsAssumption DEF AuthFailed, CountOK, BoundsAssumption
  <2> QED
    BY <1>0, <1>6, <2>1 DEF AuthFailed, AppOK, LinkOK, CountOK, SubsOK
<1>7. ASSUME NEW s \in Ids, Open(s)
      PROVE  AppOK' /\ LinkOK' /\ CountOK' /\ SubsOK'
  <2>1. flights' \in [{"token", "auth"} -> 0..MaxFlights]
    BY <1>0, <1>7, BoundsAssumption DEF Open, CountOK, BoundsAssumption
  <2>2. LinkOK'
    BY <1>0, <1>7 DEF Open, LinkOK, Disposed, Transports
  <2>3. SubsOK'
    BY <1>7, SessionLostTyped DEF Open
  <2> QED
    BY <1>0, <1>7, <2>1, <2>2, <2>3 DEF Open, AppOK, CountOK
<1>8. CASE TimerFires
  <2> DEFINE C == <<status, shouldReconnect, flights, transport, current, subs>>
  <2>1. timers' \in 0..MaxTimers /\ AppOK'
    BY <1>0, <1>8, BoundsAssumption DEF TimerFires, AppOK, CountOK, BoundsAssumption
  <2>2. CASE UNCHANGED C
    BY <1>0, <2>1, <2>2 DEF LinkOK, CountOK, SubsOK
  <2>3. CASE ConnectInternal(TRUE)
    <3>1. SubsOK' /\ LinkOK' /\ shouldReconnect' \in BOOLEAN
          /\ flights' \in [{"token", "auth"} -> 0..MaxFlights]
      BY <2>3, AttemptParts
    <3> QED
      BY <2>1, <3>1 DEF CountOK
  <2> QED
    BY <1>8, <2>2, <2>3 DEF TimerFires, AttemptReconnection
<1>9. CASE NetworkBack
  BY <1>0, <1>9, AttemptTyped DEF NetworkBack, AppOK
<1>10. ASSUME NEW s \in Ids, Accepted(s)
       PROVE  AppOK' /\ LinkOK' /\ CountOK' /\ SubsOK'
  <2>1. LinkOK' /\ AppOK' /\ CountOK'
    BY <1>0, <1>10 DEF Accepted, AppOK, LinkOK, CountOK, Transports, SocketStatus
  <2>2. SubsOK'
    BY <1>0, <1>10, ResubscribeTyped DEF Accepted, SubsOK
  <2> QED
    BY <2>1, <2>2
<1>11. ASSUME NEW s \in Ids, DeviceRefused(s)
       PROVE  AppOK' /\ LinkOK' /\ CountOK' /\ SubsOK'
  BY <1>0, <1>11, DisconnectTyped DEF DeviceRefused, Refreshes, AppOK, CountOK
<1>12. ASSUME NEW s \in Ids, Ended(s) \/ Unreachable(s) \/ Reopened(s)
       PROVE  AppOK' /\ LinkOK' /\ CountOK' /\ SubsOK'
  BY <1>0, <1>12 DEF Ended, Unreachable, Reopened, AppOK, LinkOK, CountOK, SubsOK,
                     Transports, SocketStatus
<1>13. ASSUME NEW s \in Ids, Dropped(s)
       PROVE  AppOK' /\ LinkOK' /\ CountOK' /\ SubsOK'
  <2>1. LinkOK' /\ AppOK'
    BY <1>0, <1>13 DEF Dropped, OnDisconnect, AppOK, LinkOK, Transports, SocketStatus
  <2>2. timers' \in 0..MaxTimers
    BY <1>0, <1>13, BoundsAssumption DEF Dropped, OnDisconnect, CountOK, BoundsAssumption
  <2>3. CountOK'
    BY <1>0, <1>13, <2>2 DEF Dropped, CountOK
  <2>4. SubsOK'
    BY <1>0, <1>13, SessionLostTyped DEF Dropped, OnDisconnect, SubsOK
  <2> QED
    BY <2>1, <2>3, <2>4
<1>14. CASE DeviceRevoked
  BY <1>0, <1>14, DisconnectTyped DEF DeviceRevoked, Refreshes, AppOK, CountOK
<1>15. CASE Revoke \/ TrustRead \/ (\E r \in Refreshes : TrustRefreshed(r)) \/ RetryTrust
  BY <1>0, <1>15 DEF Revoke, TrustRead, TrustRefreshed, RetryTrust, Refreshes,
                     AppOK, LinkOK, CountOK, SubsOK
<1>16. ASSUME NEW c \in Convs, OpenConversation(c)
       PROVE  AppOK' /\ LinkOK' /\ CountOK' /\ SubsOK'
  <2>1. SubsOK'
    BY <1>0, <1>16, SubscribeEachTyped DEF OpenConversation, SubsOK
  <2> QED
    BY <1>0, <1>16, <2>1 DEF OpenConversation, AppOK, LinkOK, CountOK
<1>17. CASE LoadConversations
  <2>1. SubsOK'
    <3> DEFINE new == Convs \ subscribed
    <3>1. new \in SUBSET Convs /\ waiting \in SUBSET Convs
      BY <1>0 DEF SubsOK
    <3>2. CASE SubscribeBatch(new, waiting)
      BY <3>1, <3>2, SubscribeBatchTyped
    <3>3. CASE SubscribeEach(new, subscribed, waiting) /\ UNCHANGED batches
      BY <1>0, <3>1, <3>3, SubscribeEachTyped DEF SubsOK
    <3> QED
      BY <1>17, <3>2, <3>3 DEF LoadConversations
  <2> QED
    BY <1>0, <1>17, <2>1 DEF LoadConversations, AppOK, LinkOK, CountOK
<1>18. ASSUME NEW b \in batches, BatchAnswered(b)
       PROVE  AppOK' /\ LinkOK' /\ CountOK' /\ SubsOK'
  <2>1. b.convs \subseteq Convs
    BY <1>0 DEF SubsOK, Batches
  <2> QED
    BY <1>0, <1>18, <2>1 DEF BatchAnswered, AppOK, LinkOK, CountOK, SubsOK
<1>19. ASSUME NEW b \in batches, BatchTimedOut(b)
       PROVE  AppOK' /\ LinkOK' /\ CountOK' /\ SubsOK'
  <2>1. b.convs \in SUBSET Convs /\ waiting \in SUBSET Convs
    BY <1>0 DEF SubsOK, Batches
  <2>2. SubsOK'
    BY <1>0, <1>19, <2>1, SubscribeEachTyped DEF BatchTimedOut, SubsOK
  <2> QED
    BY <1>0, <1>19, <2>2 DEF BatchTimedOut, AppOK, LinkOK, CountOK
<1> QED
  BY <1>1, <1>2, <1>3, <1>4, <1>5, <1>6, <1>7, <1>8, <1>9, <1>10, <1>11, <1>12,
     <1>13, <1>14, <1>15, <1>16, <1>17, <1>18, <1>19 DEF Next

\* Calls are begun below the bound and move from one await to the other.
LEMMA NextCalls ==
  ASSUME TypeOK, CallsBounded, Next
  PROVE  CallsBounded'
<1> USE DEF trust, app, conn, subs
<1>0. /\ flights \in [{"token", "auth"} -> 0..MaxFlights]
      /\ flights["token"] \in Nat /\ flights["auth"] \in Nat /\ MaxFlights \in Nat
  BY BoundsAssumption DEF TypeOK, BoundsAssumption
<1>1. CASE UNCHANGED flights
  BY <1>1 DEF CallsBounded
<1>2. ASSUME NEW reconnect, ConnectInternal(reconnect)
      PROVE  CallsBounded'
  <2>1. CASE UNCHANGED flights
    BY <2>1, <1>1
  <2>2. CASE /\ flights["token"] + flights["auth"] < MaxFlights
             /\ flights' = [flights EXCEPT !["token"] = @ + 1]
    BY <1>0, <2>2 DEF CallsBounded
  <2> QED
    BY <1>2, <2>1, <2>2 DEF ConnectInternal
<1>3. CASE AttemptReconnection
  BY <1>1, <1>2, <1>3 DEF AttemptReconnection
<1>4. ASSUME NEW k, Checked(k)
      PROVE  CallsBounded'
  BY <1>1, <1>2, <1>4 DEF Checked, Connect
<1>5. CASE TokenChecked
  BY <1>0, <1>5 DEF TokenChecked, CallsBounded
<1>6. CASE AuthFailed
  BY <1>0, <1>6 DEF AuthFailed, CallsBounded
<1>7. ASSUME NEW s, Open(s)
      PROVE  CallsBounded'
  BY <1>0, <1>7 DEF Open, CallsBounded
<1>8. CASE TimerFires
  BY <1>1, <1>3, <1>8 DEF TimerFires
<1>9. CASE NetworkBack
  BY <1>3, <1>9 DEF NetworkBack
<1>10. ASSUME \/ Rebuild \/ Resume \/ Detach
              \/ \E s \in Ids : \/ Accepted(s) \/ DeviceRefused(s) \/ Ended(s)
                                 \/ Unreachable(s) \/ Reopened(s) \/ Dropped(s)
              \/ DeviceRevoked \/ Revoke \/ TrustRead \/ (\E r \in Refreshes : TrustRefreshed(r)) \/ RetryTrust
       PROVE  CallsBounded'
  BY <1>1, <1>10 DEF Rebuild, Resume, Detach, Accepted, DeviceRefused, Ended, Unreachable,
                     Reopened, Dropped, DeviceRevoked, Revoke, TrustRead, TrustRefreshed, RetryTrust
<1>11. ASSUME \/ \E c \in Convs : OpenConversation(c)
              \/ LoadConversations
              \/ \E b \in batches : BatchAnswered(b) \/ BatchTimedOut(b)
       PROVE  CallsBounded'
  BY <1>1, <1>11 DEF OpenConversation, LoadConversations, BatchAnswered, BatchTimedOut
<1> QED
  BY <1>4, <1>5, <1>6, <1>7, <1>8, <1>9, <1>10, <1>11 DEF Next

Typed == TypeOK /\ CallsBounded

\* The types hold at first.
LEMMA InitTyped == Init => Typed
<1> SUFFICES ASSUME Init PROVE Typed
  OBVIOUS
<1>1. MaxFlights \in Nat /\ MaxTimers \in Nat
  BY BoundsAssumption DEF BoundsAssumption
<1>2. AppOK /\ LinkOK /\ SubsOK
  BY DEF Init, AppOK, LinkOK, SubsOK, Refreshes, Ids, NoSocket, SocketStatus, Transports
<1>3. CountOK
  BY <1>1 DEF Init, CountOK
<1>4. CallsBounded
  BY <1>1 DEF Init, CallsBounded
<1> QED
  BY <1>2, <1>3, <1>4, Parts DEF Typed

\* Every step keeps the types.
LEMMA StepTyped == Typed /\ [Next]_vars => Typed'
<1>1. CASE Typed /\ Next
  BY <1>1, NextTyped, NextCalls DEF Typed
<1>2. CASE Typed /\ UNCHANGED vars
  BY <1>2 DEF Typed, TypeOK, CallsBounded, vars, trust, app, conn, subs
<1> QED
  BY <1>1, <1>2

\* Every variable keeps its type: no more calls are suspended and no more timers
\* pending than the model allows for, the current socket is an object of the
\* client, and a batch has somebody to subscribe.
THEOREM TypeSafe == Spec => []TypeOK
<1>1. Typed => TypeOK
  BY DEF Typed
<1> QED
  BY InitTyped, StepTyped, <1>1, PTL DEF Spec

----------------------------------------------------------------------------
\* A transport that is not the current one's never comes back: what a step may
\* do to the pair (transport, current).
Link ==
    \/ UNCHANGED <<transport, current>>
    \/ transport' = Disposed /\ current' = NoSocket
    \/ \E s \in Ids : transport' = [Disposed EXCEPT ![s] = "opening"] /\ current' = s
    \/ /\ UNCHANGED current
       /\ \E s \in Ids, x \in Transports :
             transport[s] # "disposed" /\ transport' = [transport EXCEPT ![s] = x]

\* Every step treats the sockets in one of a few ways.
LEMMA NextLinks == Next => Link
<1> USE DEF trust, app, conn, subs
<1>1. Disconnect => Link
  BY DEF Disconnect, Link
<1>2. \A reconnect : ConnectInternal(reconnect) => Link
  BY <1>1 DEF ConnectInternal, Link
<1>3. AttemptReconnection => Link
  BY <1>2 DEF AttemptReconnection, Link
<1>4. ASSUME NEW k, Checked(k) PROVE Link
  <2>1. CASE Connect
    BY <1>1, <1>2, <2>1 DEF Connect
  <2>2. CASE UNCHANGED <<transport, current>>
    BY <2>2 DEF Link
  <2> QED
    BY <1>4, <2>1, <2>2 DEF Checked
<1>5. TimerFires \/ NetworkBack => Link
  BY <1>3 DEF TimerFires, NetworkBack, Link
<1>6. Rebuild \/ Resume \/ Detach \/ DeviceRevoked => Link
  BY <1>1 DEF Rebuild, Resume, Detach, DeviceRevoked, Link
<1>7. ASSUME NEW s \in Ids, Open(s) PROVE Link
  BY <1>7 DEF Open, Link
<1>8. ASSUME NEW s \in Ids, Accepted(s) \/ Ended(s) \/ Unreachable(s) \/ Reopened(s)
      PROVE  Link
  BY <1>8 DEF Accepted, Ended, Unreachable, Reopened, Link, Transports
<1>9. ASSUME NEW s \in Ids, Dropped(s) PROVE Link
  BY <1>9 DEF Dropped, Link, Transports
<1>10. ASSUME NEW s \in Ids, DeviceRefused(s) PROVE Link
  BY <1>1, <1>10 DEF DeviceRefused
<1>11. TokenChecked \/ AuthFailed \/ Revoke \/ TrustRead \/ (\E r \in Refreshes : TrustRefreshed(r)) \/ RetryTrust => Link
  BY DEF TokenChecked, AuthFailed, Revoke, TrustRead, TrustRefreshed, RetryTrust, Link
<1>12. ASSUME \/ \E c \in Convs : OpenConversation(c)
              \/ LoadConversations
              \/ \E b \in batches : BatchAnswered(b) \/ BatchTimedOut(b)
       PROVE  Link
  BY <1>12 DEF OpenConversation, LoadConversations, BatchAnswered, BatchTimedOut, Link
<1> QED
  BY <1>4, <1>5, <1>6, <1>7, <1>8, <1>9, <1>10, <1>11, <1>12 DEF Next

\* Every step keeps the transports of all but the current socket disposed.
LEMMA StepOneSocket == TypeOK /\ OneSocket /\ [Next]_vars => OneSocket'
<1> SUFFICES ASSUME TypeOK, OneSocket, [Next]_vars, NEW r \in Ids, transport'[r] # "disposed"
             PROVE  r = current'
  BY DEF OneSocket
<1>0. transport \in [Ids -> Transports] /\ (transport[r] # "disposed" => r = current)
  BY DEF TypeOK, OneSocket
<1>1. CASE UNCHANGED <<transport, current>>
  BY <1>0, <1>1
<1>2. CASE transport' = Disposed /\ current' = NoSocket
  BY <1>0, <1>2 DEF Disposed
<1>3. ASSUME NEW s \in Ids, transport' = [Disposed EXCEPT ![s] = "opening"], current' = s
      PROVE  r = current'
  BY <1>0, <1>3 DEF Disposed
<1>4. ASSUME UNCHANGED current, NEW s \in Ids, NEW x \in Transports,
             transport[s] # "disposed", transport' = [transport EXCEPT ![s] = x]
      PROVE  r = current'
  BY <1>0, <1>4
<1>5. CASE UNCHANGED vars
  BY <1>1, <1>5 DEF vars, conn
<1>6. CASE Next
  <2>1. Link
    BY <1>6, NextLinks
  <2> QED
    BY <1>1, <1>2, <1>3, <1>4, <2>1 DEF Link
<1> QED
  BY <1>5, <1>6

\* However connects, disconnects and reconnections overlap, only the current
\* socket object has a transport: _connectInternal disposes of the previous one
\* in the stretch of code that creates the next.
THEOREM OneSocketOnly == Spec => []OneSocket
<1>1. Init => OneSocket
  BY DEF Init, OneSocket
<1>2. OneSocket /\ Typed /\ [Next]_vars => OneSocket'
  BY StepOneSocket DEF Typed
<1> QED
  BY InitTyped, StepTyped, <1>1, <1>2, PTL DEF Spec

\* Every step keeps a socket under the status 'connected'.
LEMMA StepConnected == ConnectedHasSocket /\ [Next]_vars => ConnectedHasSocket'
<1> USE DEF trust, app, conn, subs, NoSocket, ConnectedHasSocket
<1> SUFFICES ASSUME ConnectedHasSocket, [Next]_vars
             PROVE  ConnectedHasSocket'
  OBVIOUS
<1>1. Disconnect => ConnectedHasSocket'
  BY DEF Disconnect
<1>2. UNCHANGED <<status, current>> => ConnectedHasSocket'
  OBVIOUS
<1>3. \A reconnect : ConnectInternal(reconnect) => ConnectedHasSocket'
  BY <1>1, <1>2 DEF ConnectInternal
<1>4. AttemptReconnection => ConnectedHasSocket'
  BY <1>2, <1>3 DEF AttemptReconnection
<1>5. \A k : Checked(k) => ConnectedHasSocket'
  BY <1>1, <1>2, <1>3 DEF Checked, Connect
<1>6. TimerFires \/ NetworkBack => ConnectedHasSocket'
  BY <1>2, <1>4 DEF TimerFires, NetworkBack
<1>7. Rebuild \/ Resume \/ Detach \/ DeviceRevoked => ConnectedHasSocket'
  BY <1>1, <1>2 DEF Rebuild, Resume, Detach, DeviceRevoked
<1>8. ASSUME NEW s \in Ids,
             Open(s) \/ Accepted(s) \/ Ended(s) \/ Unreachable(s) \/ Reopened(s)
      PROVE  ConnectedHasSocket'
  <2>1. s # 0
    BY BoundsAssumption DEF Ids, BoundsAssumption
  <2> QED
    BY <1>2, <1>8, <2>1 DEF Open, Accepted, Ended, Unreachable, Reopened
<1>9. ASSUME NEW s \in Ids, DeviceRefused(s) \/ Dropped(s)
      PROVE  ConnectedHasSocket'
  BY <1>1, <1>2, <1>9 DEF DeviceRefused, Dropped, OnDisconnect
<1>10. TokenChecked \/ AuthFailed \/ Revoke \/ TrustRead \/ (\E r \in Refreshes : TrustRefreshed(r)) \/ RetryTrust
       => ConnectedHasSocket'
  BY <1>2 DEF TokenChecked, AuthFailed, Revoke, TrustRead, TrustRefreshed, RetryTrust
<1>11. ASSUME \/ \E c \in Convs : OpenConversation(c)
              \/ LoadConversations
              \/ \E b \in batches : BatchAnswered(b) \/ BatchTimedOut(b)
       PROVE  ConnectedHasSocket'
  BY <1>2, <1>11 DEF OpenConversation, LoadConversations, BatchAnswered, BatchTimedOut
<1>12. CASE UNCHANGED vars
  BY <1>2, <1>12 DEF vars
<1> QED
  BY <1>5, <1>6, <1>7, <1>8, <1>9, <1>10, <1>11, <1>12 DEF Next

\* The status "connected" is never shown without a socket object: disconnect()
\* resets it in the stretch of code that gives the socket up.
THEOREM ConnectedHasOne == Spec => []ConnectedHasSocket
<1>1. Init => ConnectedHasSocket
  BY DEF Init, ConnectedHasSocket
<1> QED
  BY <1>1, StepConnected, PTL DEF Spec
=============================================================================
